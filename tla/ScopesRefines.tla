---------------------------- MODULE ScopesRefines ----------------------------
(***************************************************************************)
(* Scopes.tla implements Lexical.tla: what the arrays of locals and        *)
(* upvalues answer is what lexical scoping says, for any limits, any names *)
(* and any program.                                                        *)
(***************************************************************************)
EXTENDS ScopesProofs, SequenceTheorems, FiniteSetTheorems, WellFoundedInduction

-----------------------------------------------------------------------------
(* Numbers and sequences *)

\* A set of numbers that is not empty has a least one.
LEMMA LeastNat ==
  ASSUME NEW T \in SUBSET Nat, T # {}
  PROVE  \E x \in T : \A y \in T : x <= y
<1>1. \E x \in T : \A y \in T : ~ (<<y, x>> \in OpToRel(<, Nat))
  BY WFMin, NatLessThanWellFounded
<1>2. PICK x \in T : \A y \in T : ~ (<<y, x>> \in OpToRel(<, Nat))
  BY <1>1
<1>3. \A y \in T : y \in Nat /\ x \in Nat
  OBVIOUS
<1>4. \A y \in T : ~ (y < x)
  BY <1>2, <1>3 DEF OpToRel
<1> QED BY <1>3, <1>4

\* A function on 1..n is a sequence.
LEMMA Listed ==
  ASSUME NEW n \in Nat, NEW s, s = [i \in 1..n |-> s[i]]
  PROVE  s \in Seq({s[i] : i \in 1..n}) /\ Len(s) = n /\ DOMAIN s = 1..n
<1> DEFINE T == {s[i] : i \in 1..n}
<1>1. \A i \in 1..n : s[i] \in T
  OBVIOUS
<1> HIDE DEF T
<1>2. s \in [1..n -> T]
  BY <1>1
<1>3. s \in Seq(T)
  BY <1>2
<1>4. DOMAIN s = 1..n
  BY <1>2
<1> QED BY <1>3, <1>4, LenProperties DEF T

\* One more element.
LEMMA ListedMore ==
  ASSUME NEW n \in Nat, NEW s, s = [i \in 1..n |-> s[i]], NEW x
  PROVE  Append(s, x) = [i \in 1..n + 1 |-> IF i = n + 1 THEN x ELSE s[i]]
<1> DEFINE T == {s[i] : i \in 1..n}
           U == T \cup {x}
<1>1. s \in Seq(T) /\ Len(s) = n
  BY Listed
<1>2. T \subseteq U /\ x \in U
  OBVIOUS
<1> HIDE DEF T, U
<1>3. s \in Seq(U)
  BY <1>1, <1>2
<1>4. /\ Append(s, x) \in Seq(U) /\ Len(Append(s, x)) = n + 1
      /\ \A i \in 1..n : Append(s, x)[i] = s[i]
      /\ Append(s, x)[n + 1] = x
  BY <1>1, <1>2, <1>3, AppendProperties
<1>5. Append(s, x) = [i \in 1..n + 1 |-> Append(s, x)[i]]
  BY <1>4, LenProperties
<1> QED BY <1>4, <1>5

\* One less.
LEMMA ListedLess ==
  ASSUME NEW n \in Nat \ {0}, NEW s, s = [i \in 1..n |-> s[i]]
  PROVE  Front(s) = [i \in 1..n - 1 |-> s[i]] /\ Last(s) = s[n]
<1> DEFINE T == {s[i] : i \in 1..n}
<1>1. s \in Seq(T) /\ Len(s) = n
  BY Listed
<1> HIDE DEF T
<1>2. SubSeq(s, 1, n - 1) = [i \in 1..n - 1 |-> s[i]]
  BY <1>1
<1> QED BY <1>1, <1>2 DEF Front, Last

-----------------------------------------------------------------------------
(* The blocks of one function *)

Distinct(c) ==
  \A i, j \in DOMAIN c.locals :
    i # j /\ BlockOf(c, i) = BlockOf(c, j) => c.locals[i].name # c.locals[j].name

Flags(l) == [ready |-> l.depth # -1, read |-> l.read, captured |-> l.isCaptured]

\* What Lexical knows of a local.
LEMMA FlagsTyped == \A l : Flags(l) \in [ready : {l.depth # -1}, read : {l.read}, captured : {l.isCaptured}]
BY DEF Flags

\* A variable's record after its initializer.
LEMMA ReadiedFlags ==
  ASSUME NEW l
  PROVE  [Flags(l) EXCEPT !.ready = TRUE] = [ready |-> TRUE, read |-> l.read, captured |-> l.isCaptured]
<1>1. PICK r : r = Flags(l)
  OBVIOUS
<1>2. r \in [ready : {l.depth # -1}, read : {l.read}, captured : {l.isCaptured}]
  BY <1>1, FlagsTyped
<1>3. PICK q : q = [r EXCEPT !.ready = TRUE]
  OBVIOUS
<1>4. q \in [ready : {TRUE}, read : {l.read}, captured : {l.isCaptured}]
  BY <1>2, <1>3
<1>5. q = [ready |-> q.ready, read |-> q.read, captured |-> q.captured]
  BY <1>4
<1>6. q.ready = TRUE /\ q.read = l.read /\ q.captured = l.isCaptured
  BY <1>4
<1> QED BY <1>1, <1>3, <1>5, <1>6

\* And after it is used, by a function inside its own or not.
LEMMA UsedFlags ==
  ASSUME NEW l, NEW inside
  PROVE  Promise!Used(Flags(l), inside)
           = [ready |-> l.depth # -1, read |-> TRUE, captured |-> l.isCaptured \/ inside]
<1>1. PICK r : r = Flags(l)
  OBVIOUS
<1>2. r \in [ready : {l.depth # -1}, read : {l.read}, captured : {l.isCaptured}]
  BY <1>1, FlagsTyped
<1>3. PICK d : d = (l.depth # -1)
  OBVIOUS
<1>4. PICK y : y = (l.isCaptured \/ inside)
  OBVIOUS
<1>5. [r EXCEPT !.read = TRUE, !.captured = y] = [ready |-> d, read |-> TRUE, captured |-> y]
  <2>1. PICK q : q = [r EXCEPT !.read = TRUE, !.captured = y]
    OBVIOUS
  <2>2. r \in [ready : {d}, read : {l.read}, captured : {l.isCaptured}]
    BY <1>2, <1>3, Zenon
  <2>3. q \in [ready : {d}, read : {TRUE}, captured : {y}]
    BY <2>1, <2>2
  <2>4. q = [ready |-> q.ready, read |-> q.read, captured |-> q.captured]
    BY <2>3
  <2>5. q.ready = d /\ q.read = TRUE /\ q.captured = y
    BY <2>3
  <2> QED BY <2>1, <2>4, <2>5
<1>6. r.captured = l.isCaptured
  BY <1>2
<1>7. Promise!Used(r, inside) = [r EXCEPT !.read = TRUE, !.captured = r.captured \/ inside]
  BY Zenon DEF Promise!Used
<1> QED BY <1>1, <1>3, <1>4, <1>5, <1>6, <1>7, Zenon

\* What a block of Lexical's holds for each local of that block.
LEMMA BlockIs ==
  ASSUME NEW c, Distinct(c), NEW d
  PROVE  /\ BlockAt(c, d) = [n \in DOMAIN BlockAt(c, d) |-> BlockAt(c, d)[n]]
         /\ \A n : n \in DOMAIN BlockAt(c, d) <=>
              \E i \in DOMAIN c.locals : BlockOf(c, i) = d /\ c.locals[i].name = n
         /\ \A i \in DOMAIN c.locals : BlockOf(c, i) = d =>
              BlockAt(c, d)[c.locals[i].name] = Flags(c.locals[i])
<1> DEFINE own == {i \in DOMAIN c.locals : BlockOf(c, i) = d}
           N   == {c.locals[i].name : i \in own}
           pick(n) == CHOOSE i \in own : c.locals[i].name = n
           F(n) == Flags(c.locals[pick(n)])
<1>1. BlockAt(c, d) = [n \in N |-> F(n)]
  BY DEF BlockAt, Flags
<1>2. \A i \in own : pick(c.locals[i].name) = i
  <2> TAKE i \in own
  <2> DEFINE j == pick(c.locals[i].name)
  <2>1. j \in own /\ c.locals[j].name = c.locals[i].name
    OBVIOUS
  <2> HIDE DEF j
  <2>2. j = i
    BY <2>1 DEF Distinct
  <2> QED BY <2>2 DEF j
<1>3. \A i \in own : c.locals[i].name \in N /\ F(c.locals[i].name) = Flags(c.locals[i])
  BY <1>2
<1>4. \A n : n \in N <=> \E i \in own : c.locals[i].name = n
  OBVIOUS
<1> HIDE DEF F, N
<1>5. DOMAIN BlockAt(c, d) = N /\ \A n \in N : BlockAt(c, d)[n] = F(n)
  BY <1>1
<1>6. BlockAt(c, d) = [n \in N |-> BlockAt(c, d)[n]]
  BY <1>1, <1>5
<1> QED BY <1>3, <1>4, <1>5, <1>6

\* Two blocks with the same locals are the same.
LEMMA SameBlock ==
  ASSUME NEW c, NEW e, Distinct(c), Distinct(e), NEW d, NEW x,
         \A i \in DOMAIN c.locals : BlockOf(c, i) = d =>
           \E j \in DOMAIN e.locals : /\ BlockOf(e, j) = x /\ e.locals[j].name = c.locals[i].name
                                      /\ Flags(e.locals[j]) = Flags(c.locals[i]),
         \A j \in DOMAIN e.locals : BlockOf(e, j) = x =>
           \E i \in DOMAIN c.locals : /\ BlockOf(c, i) = d /\ c.locals[i].name = e.locals[j].name
  PROVE  BlockAt(c, d) = BlockAt(e, x)
<1>1. \A n : n \in DOMAIN BlockAt(c, d) <=> n \in DOMAIN BlockAt(e, x)
  <2> TAKE n
  <2>1. n \in DOMAIN BlockAt(c, d) <=> \E i \in DOMAIN c.locals : BlockOf(c, i) = d /\ c.locals[i].name = n
    BY BlockIs
  <2>2. n \in DOMAIN BlockAt(e, x) <=> \E j \in DOMAIN e.locals : BlockOf(e, j) = x /\ e.locals[j].name = n
    BY BlockIs
  <2> QED BY <2>1, <2>2
<1>2. DOMAIN BlockAt(c, d) = DOMAIN BlockAt(e, x)
  BY <1>1
<1>3. ASSUME NEW n \in DOMAIN BlockAt(c, d) PROVE BlockAt(c, d)[n] = BlockAt(e, x)[n]
  <2>1. PICK i \in DOMAIN c.locals : BlockOf(c, i) = d /\ c.locals[i].name = n
    BY BlockIs
  <2>2. PICK j \in DOMAIN e.locals : /\ BlockOf(e, j) = x /\ e.locals[j].name = c.locals[i].name
                                     /\ Flags(e.locals[j]) = Flags(c.locals[i])
    BY <2>1
  <2>3. BlockAt(c, d)[n] = Flags(c.locals[i])
    BY <2>1, BlockIs
  <2>4. BlockAt(e, x)[n] = Flags(e.locals[j])
    BY <2>1, <2>2, BlockIs
  <2> QED BY <2>2, <2>3, <2>4
<1>4. /\ BlockAt(c, d) = [n \in DOMAIN BlockAt(c, d) |-> BlockAt(c, d)[n]]
      /\ BlockAt(e, x) = [n \in DOMAIN BlockAt(e, x) |-> BlockAt(e, x)[n]]
  BY BlockIs
<1> HIDE DEF BlockAt
<1> QED BY <1>2, <1>3, <1>4

\* Or with the same locals in the same slots.
LEMMA SameSlots ==
  ASSUME NEW c, NEW e, Distinct(c), Distinct(e), NEW d, NEW x,
         \A i \in DOMAIN c.locals : BlockOf(c, i) = d =>
           /\ i \in DOMAIN e.locals /\ BlockOf(e, i) = x /\ e.locals[i].name = c.locals[i].name
           /\ Flags(e.locals[i]) = Flags(c.locals[i]),
         \A j \in DOMAIN e.locals : BlockOf(e, j) = x => j \in DOMAIN c.locals /\ BlockOf(c, j) = d
  PROVE  BlockAt(c, d) = BlockAt(e, x)
<1>1. ASSUME NEW i \in DOMAIN c.locals, BlockOf(c, i) = d
      PROVE  \E j \in DOMAIN e.locals : /\ BlockOf(e, j) = x /\ e.locals[j].name = c.locals[i].name
                                        /\ Flags(e.locals[j]) = Flags(c.locals[i])
  BY <1>1
<1>2. ASSUME NEW j \in DOMAIN e.locals, BlockOf(e, j) = x
      PROVE  \E i \in DOMAIN c.locals : /\ BlockOf(c, i) = d /\ c.locals[i].name = e.locals[j].name
  BY <1>2
<1> QED BY <1>1, <1>2, SameBlock

\* What the next lemmas ask of a function's arrays.
Plain(c) ==
  /\ Distinct(c) /\ Len(c.locals) \in Nat \ {0} /\ DOMAIN c.locals = 1..Len(c.locals)
  /\ c.scopeDepth \in Nat
  /\ \A i \in 1..Len(c.locals) : /\ c.locals[i].depth \in Int /\ c.locals[i].depth <= c.scopeDepth
                                 /\ BlockOf(c, i) \in 0..c.scopeDepth

\* Arrays that the invariant speaks of are so.
LEMMA ArePlain ==
  ASSUME NEW c, Fits(c), Scoped(c)
  PROVE  Plain(c)
<1>1. c \in CompilerType /\ Ordered(c) /\ Len(c.locals) \in 1..UINT8_COUNT /\ UINT8_COUNT \in Nat
  BY ScopesAssumption DEF Fits
<1>2. /\ DOMAIN c.locals = 1..Len(c.locals) /\ c.scopeDepth \in 0..MaxScope /\ Len(c.locals) \in Nat \ {0}
      /\ \A i \in 1..Len(c.locals) : c.locals[i] \in LocalType /\ c.locals[i].depth \in Int
  BY <1>1, Parts
<1>3. \A i \in 1..Len(c.locals) : c.locals[i].depth \in -1..MaxScope
  BY <1>2 DEF LocalType
<1>4. c.scopeDepth \in Nat
  BY <1>2, ScopesAssumption
<1>5. \A i \in 1..Len(c.locals) : BlockOf(c, i) \in 0..c.scopeDepth /\ c.locals[i].depth <= c.scopeDepth
  BY <1>1, <1>2, <1>3, <1>4, ScopesAssumption DEF Ordered, BlockOf
<1>6. Distinct(c)
  BY DEF Scoped, Distinct
<1> QED BY <1>2, <1>4, <1>5, <1>6 DEF Plain

\* A local more, at the end and in the innermost block.
LEMMA AddedBlocks ==
  ASSUME NEW c, Plain(c), NEW e, Distinct(e), NEW n, NEW d, NEW x, x = Len(c.locals) + 1,
         DOMAIN e.locals = 1..x, \A i \in 1..Len(c.locals) : e.locals[i] = c.locals[i],
         e.locals[x] = Local(n, d), d = -1 \/ d = c.scopeDepth, e.scopeDepth = c.scopeDepth,
         n \notin DOMAIN BlockAt(c, c.scopeDepth)
  PROVE  BlocksOf(e) = [BlocksOf(c) EXCEPT ![c.scopeDepth + 1] = Promise!Adding(@, n, d # -1)]
<1> DEFINE s == c.scopeDepth
           B == BlockAt(c, s)
           A == Promise!Adding(B, n, d # -1)
<1>1. /\ Len(c.locals) \in Nat \ {0} /\ DOMAIN c.locals = 1..Len(c.locals) /\ s \in Nat /\ Distinct(c)
      /\ \A i \in 1..Len(c.locals) : BlockOf(c, i) \in 0..s
  BY DEF Plain
<1>2. \A i \in 1..Len(c.locals) : BlockOf(e, i) = BlockOf(c, i) /\ i \in DOMAIN e.locals /\ i # x
  BY <1>1 DEF BlockOf
<1>3. e.locals[x].name = n /\ Flags(e.locals[x]) = Promise!Fresh(d # -1) /\ BlockOf(e, x) = s
  BY DEF BlockOf, Local, Flags, Promise!Fresh
<1>4. \A i \in DOMAIN e.locals : i = x \/ i \in DOMAIN c.locals
  BY <1>1
<1>5. x \in DOMAIN e.locals
  BY <1>1
<1>6. ASSUME NEW b \in 0..s, b # s PROVE BlockAt(c, b) = BlockAt(e, b)
  <2>1. \A i \in DOMAIN c.locals : BlockOf(c, i) = b =>
          /\ i \in DOMAIN e.locals /\ BlockOf(e, i) = b /\ e.locals[i].name = c.locals[i].name
          /\ Flags(e.locals[i]) = Flags(c.locals[i])
    BY <1>1, <1>2
  <2>2. \A j \in DOMAIN e.locals : BlockOf(e, j) = b => j \in DOMAIN c.locals /\ BlockOf(c, j) = b
    BY <1>1, <1>2, <1>3, <1>4, <1>6
  <2>3. Distinct(c) /\ Distinct(e)
    BY <1>1
  <2> QED BY <2>1, <2>2, <2>3, SameSlots, SMTT(40)
<1>7. BlockAt(e, s) = A
  <2>1. \A m : m \in DOMAIN BlockAt(e, s) <=> m = n \/ m \in DOMAIN B
    <3> TAKE m
    <3>1. m \in DOMAIN B <=> \E i \in DOMAIN c.locals : BlockOf(c, i) = s /\ c.locals[i].name = m
      BY <1>1, BlockIs
    <3>2. m \in DOMAIN BlockAt(e, s) <=> \E i \in DOMAIN e.locals : BlockOf(e, i) = s /\ e.locals[i].name = m
      BY BlockIs
    <3> QED BY <1>1, <1>2, <1>3, <1>4, <1>5, <3>1, <3>2
  <2>2. BlockAt(e, s)[n] = Promise!Fresh(d # -1)
    BY <1>3, <1>5, BlockIs
  <2>3. ASSUME NEW m \in DOMAIN B PROVE BlockAt(e, s)[m] = B[m] /\ m # n
    <3>1. PICK i \in DOMAIN c.locals : BlockOf(c, i) = s /\ c.locals[i].name = m
      BY <1>1, BlockIs
    <3>2. B[m] = Flags(c.locals[i])
      BY <1>1, <3>1, BlockIs
    <3>3. i \in DOMAIN e.locals /\ BlockOf(e, i) = s /\ e.locals[i] = c.locals[i]
      BY <1>1, <1>2, <3>1
    <3>4. BlockAt(e, s)[m] = Flags(e.locals[i])
      BY <3>1, <3>3, BlockIs
    <3> QED BY <3>2, <3>3, <3>4
  <2>4. BlockAt(e, s) = [m \in DOMAIN BlockAt(e, s) |-> BlockAt(e, s)[m]]
    BY BlockIs
  <2>5. DOMAIN BlockAt(e, s) = DOMAIN B \cup {n}
    BY <2>1
  <2> HIDE DEF B
  <2> QED BY <2>2, <2>3, <2>4, <2>5 DEF Promise!Adding
<1>8. BlocksOf(e) = [b \in 1..s + 1 |-> BlockAt(e, b - 1)] /\ BlocksOf(c) = [b \in 1..s + 1 |-> BlockAt(c, b - 1)]
  BY DEF BlocksOf
<1>9. \A b \in 1..s + 1 : b # s + 1 => b - 1 \in 0..s /\ b - 1 # s
  BY <1>1
<1>10. s + 1 \in 1..s + 1 /\ (s + 1) - 1 = s
  BY <1>1
<1>11. BlocksOf(c)[s + 1] = B
  BY <1>8, <1>10
<1>12. BlocksOf(e) = [b \in 1..s + 1 |-> IF b = s + 1 THEN A ELSE BlocksOf(c)[b]]
  <2> HIDE DEF A, B, s
  <2> QED BY <1>6, <1>7, <1>8, <1>9, <1>10
<1>13. [BlocksOf(c) EXCEPT ![s + 1] = Promise!Adding(@, n, d # -1)]
         = [b \in 1..s + 1 |-> IF b = s + 1 THEN A ELSE BlocksOf(c)[b]]
  <2>1. DOMAIN BlocksOf(c) = 1..s + 1
    BY <1>8
  <2> HIDE DEF s, B
  <2> QED BY <1>11, <2>1
<1> QED BY <1>12, <1>13

\* Nothing that a block shows has changed.
LEMMA UnchangedBlocks ==
  ASSUME NEW c, Distinct(c), NEW e, DOMAIN e.locals = DOMAIN c.locals, e.scopeDepth = c.scopeDepth,
         \A i \in DOMAIN c.locals : /\ e.locals[i].name = c.locals[i].name
                                    /\ Flags(e.locals[i]) = Flags(c.locals[i])
                                    /\ BlockOf(e, i) = BlockOf(c, i)
  PROVE  BlocksOf(e) = BlocksOf(c) /\ Distinct(e)
<1>1. Distinct(e)
  BY DEF Distinct
<1>2. ASSUME NEW d PROVE BlockAt(c, d) = BlockAt(e, d)
  <2>1. \A i \in DOMAIN c.locals : BlockOf(c, i) = d =>
          /\ i \in DOMAIN e.locals /\ BlockOf(e, i) = d /\ e.locals[i].name = c.locals[i].name
          /\ Flags(e.locals[i]) = Flags(c.locals[i])
    OBVIOUS
  <2>2. \A j \in DOMAIN e.locals : BlockOf(e, j) = d => j \in DOMAIN c.locals /\ BlockOf(c, j) = d
    OBVIOUS
  <2>3. Distinct(c) /\ Distinct(e)
    BY <1>1
  <2> QED BY <2>1, <2>2, <2>3, SameSlots
<1> HIDE DEF BlockAt
<1>3. BlocksOf(e) = BlocksOf(c)
  BY <1>2 DEF BlocksOf
<1> QED BY <1>1, <1>3

\* The variables of the innermost block are all initialized.
LEMMA MarkedBlocks ==
  ASSUME NEW c, Plain(c), NEW e, NEW x, x = Len(c.locals), DOMAIN e.locals = 1..x,
         e.scopeDepth = c.scopeDepth,
         \A i \in 1..x : /\ e.locals[i].name = c.locals[i].name /\ e.locals[i].read = c.locals[i].read
                         /\ e.locals[i].isCaptured = c.locals[i].isCaptured
                         /\ i # x => e.locals[i].depth = c.locals[i].depth /\ c.locals[i].depth # -1,
         e.locals[x].depth = c.scopeDepth, EndsHere(c)
  PROVE  /\ BlocksOf(e) = [BlocksOf(c) EXCEPT ![c.scopeDepth + 1] = Promise!Readied(@)]
         /\ Distinct(e) /\ \A i \in 1..x : BlockOf(e, i) = BlockOf(c, i)
<1> DEFINE s == c.scopeDepth
           B == BlockAt(c, s)
<1>1. /\ x \in Nat \ {0} /\ DOMAIN c.locals = 1..x /\ s \in Nat /\ Distinct(c)
      /\ \A i \in 1..x : BlockOf(c, i) \in 0..s
  BY DEF Plain
<1>2. \A i \in 1..x : BlockOf(e, i) = BlockOf(c, i)
  BY <1>1 DEF BlockOf, EndsHere
<1>3. Distinct(e)
  BY <1>1, <1>2 DEF Distinct
<1>4. ASSUME NEW b \in 0..s, b # s PROVE BlockAt(c, b) = BlockAt(e, b)
  <2>1. \A i \in DOMAIN c.locals : BlockOf(c, i) = b =>
          /\ i \in DOMAIN e.locals /\ BlockOf(e, i) = b /\ e.locals[i].name = c.locals[i].name
          /\ Flags(e.locals[i]) = Flags(c.locals[i])
    <3> SUFFICES ASSUME NEW i \in 1..x, BlockOf(c, i) = b
                 PROVE  Flags(e.locals[i]) = Flags(c.locals[i])
      BY <1>1, <1>2
    <3>1. i # x
      BY <1>4 DEF EndsHere
    <3> QED BY <3>1 DEF Flags
  <2>2. \A j \in DOMAIN e.locals : BlockOf(e, j) = b => j \in DOMAIN c.locals /\ BlockOf(c, j) = b
    BY <1>1, <1>2
  <2>3. Distinct(c) /\ Distinct(e)
    BY <1>1, <1>3
  <2> QED BY <2>1, <2>2, <2>3, SameSlots
<1>5. BlockAt(e, s) = Promise!Readied(B)
  <2>1. \A m : m \in DOMAIN BlockAt(e, s) <=> m \in DOMAIN B
    <3> TAKE m
    <3>1. m \in DOMAIN B <=> \E i \in DOMAIN c.locals : BlockOf(c, i) = s /\ c.locals[i].name = m
      BY <1>1, BlockIs, SMTT(40)
    <3>2. m \in DOMAIN BlockAt(e, s) <=> \E i \in DOMAIN e.locals : BlockOf(e, i) = s /\ e.locals[i].name = m
      BY <1>3, BlockIs
    <3> QED BY <1>1, <1>2, <3>1, <3>2
  <2>2. ASSUME NEW m \in DOMAIN B PROVE BlockAt(e, s)[m] = [B[m] EXCEPT !.ready = TRUE]
    <3>1. PICK i \in DOMAIN c.locals : BlockOf(c, i) = s /\ c.locals[i].name = m
      BY <1>1, BlockIs
    <3>2. B[m] = Flags(c.locals[i])
      BY <1>1, <3>1, BlockIs
    <3>3. i \in DOMAIN e.locals /\ BlockOf(e, i) = s /\ e.locals[i].name = m
      BY <1>1, <1>2, <3>1
    <3>4. BlockAt(e, s)[m] = Flags(e.locals[i])
      BY <1>3, <3>3, BlockIs
    <3>5. e.locals[i].depth # -1
      BY <1>1, <3>1
    <3>6. e.locals[i].read = c.locals[i].read /\ e.locals[i].isCaptured = c.locals[i].isCaptured
      BY <1>1, <3>1
    <3>7. Flags(e.locals[i]) = [Flags(c.locals[i]) EXCEPT !.ready = TRUE]
      <4>1. (e.locals[i].depth # -1) = TRUE
        BY <3>5
      <4>2. Flags(e.locals[i]) = [ready |-> TRUE, read |-> c.locals[i].read, captured |-> c.locals[i].isCaptured]
        BY <3>6, <4>1, Zenon DEF Flags
      <4>3. [Flags(c.locals[i]) EXCEPT !.ready = TRUE]
              = [ready |-> TRUE, read |-> c.locals[i].read, captured |-> c.locals[i].isCaptured]
        BY ReadiedFlags
      <4> QED BY <4>2, <4>3
    <3> HIDE DEF B
    <3> QED BY <3>2, <3>4, <3>7
  <2>3. BlockAt(e, s) = [m \in DOMAIN BlockAt(e, s) |-> BlockAt(e, s)[m]]
    BY <1>3, BlockIs
  <2>4. DOMAIN BlockAt(e, s) = DOMAIN B
    BY <2>1
  <2> HIDE DEF B
  <2> QED BY <2>2, <2>3, <2>4 DEF Promise!Readied
<1>6. BlocksOf(e) = [b \in 1..s + 1 |-> BlockAt(e, b - 1)] /\ BlocksOf(c) = [b \in 1..s + 1 |-> BlockAt(c, b - 1)]
  BY DEF BlocksOf
<1>7. \A b \in 1..s + 1 : b # s + 1 => b - 1 \in 0..s /\ b - 1 # s
  BY <1>1
<1>8. s + 1 \in 1..s + 1 /\ (s + 1) - 1 = s
  BY <1>1
<1>9. BlocksOf(c)[s + 1] = B
  BY <1>6, <1>8
<1> DEFINE A == Promise!Readied(B)
<1>10. BlocksOf(e) = [b \in 1..s + 1 |-> IF b = s + 1 THEN A ELSE BlocksOf(c)[b]]
  <2> HIDE DEF A, B, s
  <2> QED BY <1>4, <1>5, <1>6, <1>7, <1>8 DEF A
<1>11. [BlocksOf(c) EXCEPT ![s + 1] = Promise!Readied(@)]
         = [b \in 1..s + 1 |-> IF b = s + 1 THEN A ELSE BlocksOf(c)[b]]
  <2>1. DOMAIN BlocksOf(c) = 1..s + 1
    BY <1>6
  <2> HIDE DEF s, B
  <2> QED BY <1>9, <2>1
<1> QED BY <1>2, <1>3, <1>10, <1>11

\* A block begins: it has no variables.
LEMMA DeeperBlocks ==
  ASSUME NEW c, Plain(c), Settled(c), NEW e, e.locals = c.locals, e.scopeDepth = c.scopeDepth + 1
  PROVE  BlocksOf(e) = Append(BlocksOf(c), Promise!Block({})) /\ Distinct(e)
<1> DEFINE s == c.scopeDepth
           B == BlocksOf(c)
<1>1. /\ Len(c.locals) \in Nat \ {0} /\ DOMAIN c.locals = 1..Len(c.locals) /\ s \in Nat /\ Distinct(c)
      /\ \A i \in 1..Len(c.locals) : BlockOf(c, i) \in 0..s
  BY DEF Plain
<1>2. \A i \in 1..Len(c.locals) : BlockOf(e, i) = BlockOf(c, i)
  BY DEF BlockOf, Settled
<1>3. Distinct(e)
  BY <1>1, <1>2 DEF Distinct
<1>4. ASSUME NEW b \in 0..s PROVE BlockAt(c, b) = BlockAt(e, b)
  <2>1. \A i \in DOMAIN c.locals : BlockOf(c, i) = b =>
          /\ i \in DOMAIN e.locals /\ BlockOf(e, i) = b /\ e.locals[i].name = c.locals[i].name
          /\ Flags(e.locals[i]) = Flags(c.locals[i])
    BY <1>1, <1>2
  <2>2. \A j \in DOMAIN e.locals : BlockOf(e, j) = b => j \in DOMAIN c.locals /\ BlockOf(c, j) = b
    BY <1>1, <1>2
  <2>3. Distinct(c) /\ Distinct(e)
    BY <1>1, <1>3
  <2> QED BY <2>1, <2>2, <2>3, SameSlots
<1>5. BlockAt(e, s + 1) = Promise!Block({})
  <2>1. \A m : m \notin DOMAIN BlockAt(e, s + 1)
    <3> TAKE m
    <3>1. m \in DOMAIN BlockAt(e, s + 1)
            <=> \E i \in DOMAIN e.locals : BlockOf(e, i) = s + 1 /\ e.locals[i].name = m
      BY <1>3, BlockIs
    <3>2. \A i \in DOMAIN e.locals : BlockOf(e, i) # s + 1
      BY <1>1, <1>2
    <3> QED BY <3>1, <3>2
  <2>2. BlockAt(e, s + 1) = [m \in DOMAIN BlockAt(e, s + 1) |-> BlockAt(e, s + 1)[m]]
    BY <1>3, BlockIs
  <2>3. DOMAIN BlockAt(e, s + 1) = {}
    BY <2>1
  <2> QED BY <2>2, <2>3 DEF Promise!Block
<1>6. BlocksOf(e) = [b \in 1..(s + 1) + 1 |-> BlockAt(e, b - 1)] /\ B = [b \in 1..s + 1 |-> BlockAt(c, b - 1)]
  BY DEF BlocksOf
<1>7. /\ \A b \in 1..(s + 1) + 1 : b = (s + 1) + 1 \/ (b \in 1..s + 1 /\ b - 1 \in 0..s)
      /\ ((s + 1) + 1) - 1 = s + 1 /\ s + 1 \in Nat /\ \A b \in 1..s + 1 : b # (s + 1) + 1
  BY <1>1
<1>8. B = [b \in 1..s + 1 |-> B[b]] /\ \A b \in 1..s + 1 : B[b] = BlockAt(c, b - 1)
  <2> HIDE DEF s
  <2> QED BY <1>6
<1>9. Append(B, Promise!Block({})) = [b \in 1..(s + 1) + 1 |-> IF b = (s + 1) + 1 THEN Promise!Block({}) ELSE B[b]]
  <2> HIDE DEF s, B
  <2> QED BY <1>7, <1>8, ListedMore
<1>10. BlocksOf(e) = [b \in 1..(s + 1) + 1 |-> IF b = (s + 1) + 1 THEN Promise!Block({}) ELSE B[b]]
  <2> HIDE DEF s, B
  <2> QED BY <1>4, <1>5, <1>6, <1>7, <1>8
<1> QED BY <1>3, <1>9, <1>10

\* A block ends: what is left are the others.
LEMMA EndedBlocks ==
  ASSUME NEW c, Plain(c), c.scopeDepth > 0, NEW k \in 1..Len(c.locals), NEW e,
         DOMAIN e.locals = 1..k, \A i \in 1..k : e.locals[i] = c.locals[i],
         e.scopeDepth = c.scopeDepth - 1, Settled(c),
         \A i \in 1..k : c.locals[i].depth <= c.scopeDepth - 1,
         \A i \in k + 1..Len(c.locals) : c.locals[i].depth > c.scopeDepth - 1
  PROVE  BlocksOf(e) = Front(BlocksOf(c)) /\ Distinct(e)
<1> DEFINE s == c.scopeDepth
           B == BlocksOf(c)
<1>1. /\ Len(c.locals) \in Nat \ {0} /\ DOMAIN c.locals = 1..Len(c.locals) /\ s \in Nat \ {0} /\ Distinct(c)
      /\ \A i \in 1..Len(c.locals) : BlockOf(c, i) = c.locals[i].depth /\ BlockOf(c, i) \in 0..s
  BY DEF Plain, Settled, BlockOf
<1>2. \A i \in 1..k : BlockOf(e, i) = BlockOf(c, i) /\ i \in 1..Len(c.locals)
  BY DEF BlockOf, Settled
<1>3. Distinct(e)
  BY <1>1, <1>2 DEF Distinct
<1>4. ASSUME NEW b \in 0..s - 1 PROVE BlockAt(c, b) = BlockAt(e, b)
  <2>1. \A i \in DOMAIN c.locals : BlockOf(c, i) = b =>
          /\ i \in DOMAIN e.locals /\ BlockOf(e, i) = b /\ e.locals[i].name = c.locals[i].name
          /\ Flags(e.locals[i]) = Flags(c.locals[i])
    <3> SUFFICES ASSUME NEW i \in 1..Len(c.locals), BlockOf(c, i) = b
                 PROVE  i \in 1..k
      BY <1>1, <1>2
    <3>1. ~ (c.locals[i].depth > s - 1)
      BY <1>1
    <3>2. i \in 1..k \/ i \in k + 1..Len(c.locals)
      BY <1>1
    <3> QED BY <3>1, <3>2
  <2>2. \A j \in DOMAIN e.locals : BlockOf(e, j) = b => j \in DOMAIN c.locals /\ BlockOf(c, j) = b
    BY <1>1, <1>2
  <2>3. Distinct(c) /\ Distinct(e)
    BY <1>1, <1>3
  <2> QED BY <2>1, <2>2, <2>3, SameSlots
<1>5. BlocksOf(e) = [b \in 1..s |-> BlockAt(e, b - 1)] /\ B = [b \in 1..s + 1 |-> BlockAt(c, b - 1)]
  <2>1. (s - 1) + 1 = s
    BY <1>1
  <2> QED BY <2>1 DEF BlocksOf
<1>6. /\ \A b \in 1..s : b \in 1..s + 1 /\ b - 1 \in 0..s - 1
      /\ s + 1 \in Nat \ {0} /\ (s + 1) - 1 = s
  BY <1>1
<1>7. B = [b \in 1..s + 1 |-> B[b]] /\ \A b \in 1..s + 1 : B[b] = BlockAt(c, b - 1)
  <2> HIDE DEF s
  <2> QED BY <1>5
<1>8. Front(B) = [b \in 1..s |-> B[b]]
  <2> HIDE DEF s, B
  <2>1. Front(B) = [b \in 1..(s + 1) - 1 |-> B[b]]
    BY <1>6, <1>7, ListedLess
  <2> QED BY <1>6, <2>1
<1>9. BlocksOf(e) = [b \in 1..s |-> B[b]]
  <2> HIDE DEF s, B
  <2> QED BY <1>4, <1>5, <1>6, <1>7
<1> QED BY <1>3, <1>8, <1>9

\* The arrays c become e when local i is used.
Touches(c, i, inside, e) ==
  /\ DOMAIN e.locals = 1..Len(c.locals) /\ e.scopeDepth = c.scopeDepth
  /\ \A j \in 1..Len(c.locals) : j # i => e.locals[j] = c.locals[j]
  /\ e.locals[i].name = c.locals[i].name /\ e.locals[i].depth = c.locals[i].depth
  /\ e.locals[i].read = TRUE /\ e.locals[i].isCaptured = (c.locals[i].isCaptured \/ inside)

\* The same in Lexical's words
BlocksTouched(c, i, inside) ==
  [BlocksOf(c) EXCEPT ![BlockOf(c, i) + 1][c.locals[i].name] = Promise!Used(@, inside)]

\* A variable is used: inside says whether by another function than its own.
LEMMA TouchedBlocks ==
  ASSUME NEW c, Plain(c), NEW i \in 1..Len(c.locals), NEW inside, NEW e, Touches(c, i, inside, e)
  PROVE  /\ BlocksOf(e) = BlocksTouched(c, i, inside)
         /\ Distinct(e) /\ \A j \in 1..Len(c.locals) : BlockOf(e, j) = BlockOf(c, j)
<1> USE DEF Touches, BlocksTouched
<1> DEFINE s == c.scopeDepth
           d == BlockOf(c, i)
           n == c.locals[i].name
           B == BlockAt(c, d)
           u == Promise!Used(Flags(c.locals[i]), inside)
<1>1. /\ Len(c.locals) \in Nat \ {0} /\ DOMAIN c.locals = 1..Len(c.locals) /\ s \in Nat /\ Distinct(c)
      /\ \A j \in 1..Len(c.locals) : BlockOf(c, j) \in 0..s
  BY DEF Plain
<1>2. \A j \in 1..Len(c.locals) : BlockOf(e, j) = BlockOf(c, j) /\ e.locals[j].name = c.locals[j].name
  BY DEF BlockOf
<1>3. Distinct(e)
  BY <1>1, <1>2 DEF Distinct
<1>4. ASSUME NEW b \in 0..s, b # d PROVE BlockAt(c, b) = BlockAt(e, b)
  <2>1. \A j \in DOMAIN c.locals : BlockOf(c, j) = b =>
          /\ j \in DOMAIN e.locals /\ BlockOf(e, j) = b /\ e.locals[j].name = c.locals[j].name
          /\ Flags(e.locals[j]) = Flags(c.locals[j])
    <3> SUFFICES ASSUME NEW j \in 1..Len(c.locals), BlockOf(c, j) = b
                 PROVE  Flags(e.locals[j]) = Flags(c.locals[j])
      BY <1>1, <1>2
    <3>1. j # i
      BY <1>4
    <3> QED BY <3>1
  <2>2. \A j \in DOMAIN e.locals : BlockOf(e, j) = b => j \in DOMAIN c.locals /\ BlockOf(c, j) = b
    BY <1>1, <1>2
  <2>3. Distinct(c) /\ Distinct(e)
    BY <1>1, <1>3
  <2> QED BY <2>1, <2>2, <2>3, SameSlots
<1>5. Flags(e.locals[i]) = u
  <2>1. (e.locals[i].depth # -1) = (c.locals[i].depth # -1)
    OBVIOUS
  <2>2. Flags(e.locals[i]) = [ready |-> c.locals[i].depth # -1, read |-> TRUE,
                              captured |-> c.locals[i].isCaptured \/ inside]
    BY <2>1, Zenon DEF Flags
  <2> QED BY <2>2, UsedFlags
<1>6. n \in DOMAIN B /\ B[n] = Flags(c.locals[i])
  BY <1>1, BlockIs
<1>7. BlockAt(e, d) = [B EXCEPT ![n] = u]
  <2>1. \A m : m \in DOMAIN BlockAt(e, d) <=> m \in DOMAIN B
    <3> TAKE m
    <3>1. m \in DOMAIN B <=> \E j \in DOMAIN c.locals : BlockOf(c, j) = d /\ c.locals[j].name = m
      BY <1>1, BlockIs
    <3>2. m \in DOMAIN BlockAt(e, d) <=> \E j \in DOMAIN e.locals : BlockOf(e, j) = d /\ e.locals[j].name = m
      BY <1>3, BlockIs
    <3> QED BY <1>1, <1>2, <3>1, <3>2
  <2>2. ASSUME NEW m \in DOMAIN B PROVE BlockAt(e, d)[m] = IF m = n THEN u ELSE B[m]
    <3>1. PICK j \in DOMAIN c.locals : BlockOf(c, j) = d /\ c.locals[j].name = m
      BY <1>1, BlockIs
    <3>2. B[m] = Flags(c.locals[j])
      BY <1>1, <3>1, BlockIs
    <3>3. j \in DOMAIN e.locals /\ BlockOf(e, j) = d /\ e.locals[j].name = m
      BY <1>1, <1>2, <3>1
    <3>4. BlockAt(e, d)[m] = Flags(e.locals[j])
      BY <1>3, <3>3, BlockIs
    <3>5. m = n <=> j = i
      BY <1>1, <3>1 DEF Distinct
    <3>6. j # i => e.locals[j] = c.locals[j]
      BY <1>1, <3>1
    <3> HIDE DEF B, u, n
    <3> QED BY <1>5, <3>2, <3>4, <3>5, <3>6
  <2>3. /\ BlockAt(e, d) = [m \in DOMAIN BlockAt(e, d) |-> BlockAt(e, d)[m]]
        /\ B = [m \in DOMAIN B |-> B[m]]
    BY <1>1, <1>3, BlockIs
  <2>4. DOMAIN BlockAt(e, d) = DOMAIN B
    BY <2>1
  <2> HIDE DEF B, u, n
  <2>5. [B EXCEPT ![n] = u] = [m \in DOMAIN B |-> IF m = n THEN u ELSE B[m]]
    BY <2>3
  <2> QED BY <2>2, <2>3, <2>4, <2>5
<1>8. BlocksOf(e) = [b \in 1..s + 1 |-> BlockAt(e, b - 1)] /\ BlocksOf(c) = [b \in 1..s + 1 |-> BlockAt(c, b - 1)]
  BY DEF BlocksOf
<1>9. /\ \A b \in 1..s + 1 : b - 1 \in 0..s /\ (b # d + 1 => b - 1 # d)
      /\ d + 1 \in 1..s + 1 /\ (d + 1) - 1 = d
  BY <1>1
<1>10. BlocksOf(c)[d + 1] = B
  BY <1>8, <1>9
<1> DEFINE A == [B EXCEPT ![n] = u]
<1>11. BlocksOf(e) = [b \in 1..s + 1 |-> IF b = d + 1 THEN A ELSE BlocksOf(c)[b]]
  <2>1. BlockAt(e, d) = A
    BY <1>7
  <2> HIDE DEF A, B, s, d, n, u
  <2>2. ASSUME NEW b \in 1..s + 1 PROVE BlockAt(e, b - 1) = IF b = d + 1 THEN A ELSE BlocksOf(c)[b]
    <3>1. CASE b = d + 1
      BY <2>1, <3>1, <1>9
    <3>2. CASE b # d + 1
      BY <1>4, <1>8, <1>9, <3>2
    <3> QED BY <3>1, <3>2
  <2> QED BY <1>8, <2>2
<1>12. [BlocksOf(c) EXCEPT ![d + 1][n] = Promise!Used(@, inside)]
         = [b \in 1..s + 1 |-> IF b = d + 1 THEN A ELSE BlocksOf(c)[b]]
  <2>1. DOMAIN BlocksOf(c) = 1..s + 1
    BY <1>8
  <2>2. [BlocksOf(c) EXCEPT ![d + 1][n] = Promise!Used(@, inside)] = [BlocksOf(c) EXCEPT ![d + 1] = A]
    <3>1. Promise!Used(BlocksOf(c)[d + 1][n], inside) = u
      BY <1>6, <1>10
    <3> HIDE DEF u, s, B, d, n
    <3> QED BY <1>10, <3>1
  <2> HIDE DEF s, B, A, d, n, u
  <2> QED BY <2>1, <2>2
<1> QED BY <1>2, <1>3, <1>11, <1>12

\* What a function begins with.
LEMMA NewBlocks ==
  ASSUME NEW slot0, NEW d \in {0, 1}
  PROVE  /\ BlocksOf(Compiler(slot0, d)) = IF d = 0 THEN <<Promise!Block({slot0})>>
                                           ELSE <<Promise!Block({slot0}), Promise!Block({})>>
         /\ Distinct(Compiler(slot0, d))
<1> DEFINE c == Compiler(slot0, d)
<1>1. /\ DOMAIN c.locals = {1} /\ c.locals[1] = Local(slot0, 0) /\ c.scopeDepth = d
  BY DEF Compiler
<1>2. c.locals[1].name = slot0 /\ Flags(c.locals[1]) = Promise!Fresh(TRUE) /\ BlockOf(c, 1) = 0
  <2>1. (0 # -1) = TRUE
    OBVIOUS
  <2>2. /\ c.locals[1].name = slot0 /\ c.locals[1].depth = 0
        /\ c.locals[1].read = FALSE /\ c.locals[1].isCaptured = FALSE
    BY <1>1 DEF Local
  <2>3. Flags(c.locals[1]) = Promise!Fresh(TRUE)
    BY <2>1, <2>2, Zenon DEF Flags, Promise!Fresh
  <2> QED BY <2>2, <2>3 DEF BlockOf
<1>3. Distinct(c)
  BY <1>1 DEF Distinct
<1>4. BlockAt(c, 0) = Promise!Block({slot0})
  <2>1. \A m : m \in DOMAIN BlockAt(c, 0) <=> m = slot0
    <3> TAKE m
    <3>1. m \in DOMAIN BlockAt(c, 0) <=> \E i \in DOMAIN c.locals : BlockOf(c, i) = 0 /\ c.locals[i].name = m
      BY <1>3, BlockIs
    <3> QED BY <1>1, <1>2, <3>1
  <2>2. BlockAt(c, 0)[slot0] = Promise!Fresh(TRUE)
    <3>1. 1 \in DOMAIN c.locals
      BY <1>1
    <3> HIDE DEF c
    <3>2. \A i \in DOMAIN c.locals : BlockOf(c, i) = 0 => BlockAt(c, 0)[c.locals[i].name] = Flags(c.locals[i])
      BY <1>3, BlockIs
    <3> HIDE DEF BlockAt
    <3> QED BY <1>2, <3>1, <3>2
  <2>3. BlockAt(c, 0) = [m \in DOMAIN BlockAt(c, 0) |-> BlockAt(c, 0)[m]]
    BY <1>3, BlockIs
  <2>4. DOMAIN BlockAt(c, 0) = {slot0}
    BY <2>1
  <2> HIDE DEF c
  <2> QED BY <2>2, <2>3, <2>4 DEF Promise!Block
<1>5. BlockAt(c, 1) = Promise!Block({})
  <2>1. \A m : m \notin DOMAIN BlockAt(c, 1)
    <3> TAKE m
    <3>1. m \in DOMAIN BlockAt(c, 1) <=> \E i \in DOMAIN c.locals : BlockOf(c, i) = 1 /\ c.locals[i].name = m
      BY <1>3, BlockIs
    <3> QED BY <1>1, <1>2, <3>1
  <2>2. BlockAt(c, 1) = [m \in DOMAIN BlockAt(c, 1) |-> BlockAt(c, 1)[m]]
    BY <1>3, BlockIs
  <2>3. DOMAIN BlockAt(c, 1) = {}
    BY <2>1
  <2> QED BY <2>2, <2>3 DEF Promise!Block
<1>6. BlocksOf(c) = [b \in 1..d + 1 |-> BlockAt(c, b - 1)]
  BY <1>1 DEF BlocksOf
<1> HIDE DEF c
<1>7. CASE d = 0
  <2>1. BlocksOf(c) = [b \in 1..1 |-> BlockAt(c, b - 1)]
    BY <1>6, <1>7
  <2>2. BlocksOf(c) = [b \in 1..1 |-> Promise!Block({slot0})]
    BY <2>1, <1>4
  <2> QED BY <1>3, <1>7, <2>2 DEF c
<1>8. CASE d = 1
  <2>1. BlocksOf(c) = [b \in 1..2 |-> BlockAt(c, b - 1)]
    BY <1>6, <1>8
  <2>2. BlocksOf(c) = [b \in 1..2 |-> IF b = 1 THEN Promise!Block({slot0}) ELSE Promise!Block({})]
    BY <2>1, <1>4, <1>5
  <2> QED BY <1>3, <1>8, <2>2 DEF c
<1> QED BY <1>7, <1>8

\* A block begins with one variable, its own, as a superclass's does.
LEMMA InheritBlocks ==
  ASSUME NEW c, Plain(c), Settled(c), NEW m, m.locals = c.locals, m.scopeDepth = c.scopeDepth + 1,
         NEW n, NEW e, Distinct(e), NEW x, x = Len(c.locals) + 1, DOMAIN e.locals = 1..x,
         \A i \in 1..Len(c.locals) : e.locals[i] = c.locals[i],
         e.locals[x] = Local(n, m.scopeDepth), e.scopeDepth = m.scopeDepth
  PROVE  BlocksOf(e) = Append(BlocksOf(c), Promise!Block({n}))
<1> DEFINE s == c.scopeDepth
           B == BlocksOf(c)
<1>1. /\ Len(c.locals) \in Nat \ {0} /\ DOMAIN c.locals = 1..Len(c.locals) /\ s \in Nat /\ Distinct(c)
      /\ \A i \in 1..Len(c.locals) : /\ c.locals[i].depth \in Int /\ c.locals[i].depth <= s
                                     /\ BlockOf(c, i) \in 0..s
  BY DEF Plain
<1>2. BlocksOf(m) = Append(B, Promise!Block({})) /\ Distinct(m)
  BY DeeperBlocks
<1>3. Plain(m)
  <2>1. \A i \in 1..Len(c.locals) : BlockOf(m, i) = BlockOf(c, i)
    BY DEF BlockOf, Settled
  <2> QED BY <1>1, <1>2, <2>1 DEF Plain
<1>4. B = [b \in 1..s + 1 |-> B[b]]
  BY DEF BlocksOf
<1>5. s + 1 \in Nat /\ s + 1 + 1 \in 1..s + 1 + 1 /\ \A b \in 1..s + 1 : b # s + 1 + 1
  BY <1>1
<1>6. \A p : Append(B, p) = [b \in 1..s + 1 + 1 |-> IF b = s + 1 + 1 THEN p ELSE B[b]]
  <2> HIDE DEF B, s
  <2> QED BY <1>4, <1>5, ListedMore
<1>7. n \notin DOMAIN BlockAt(m, s + 1)
  <2>1. n \in DOMAIN BlockAt(m, s + 1) <=>
          \E i \in DOMAIN m.locals : BlockOf(m, i) = s + 1 /\ m.locals[i].name = n
    BY <1>2, BlockIs
  <2>2. \A i \in DOMAIN m.locals : BlockOf(m, i) # s + 1
    BY <1>1 DEF BlockOf, Settled
  <2> QED BY <2>1, <2>2
<1>8. BlocksOf(e) = [BlocksOf(m) EXCEPT ![m.scopeDepth + 1] = Promise!Adding(@, n, TRUE)]
  <2>1. m.scopeDepth # -1
    BY <1>1
  <2>2. BlocksOf(e) = [BlocksOf(m) EXCEPT ![m.scopeDepth + 1] = Promise!Adding(@, n, m.scopeDepth # -1)]
    <3>1. /\ x = Len(m.locals) + 1 /\ \A i \in 1..Len(m.locals) : e.locals[i] = m.locals[i]
          /\ n \notin DOMAIN BlockAt(m, m.scopeDepth)
      BY <1>7
    <3> QED BY <1>3, <3>1, AddedBlocks, SMTT(40)
  <2>3. (m.scopeDepth # -1) = TRUE
    BY <2>1
  <2> HIDE DEF BlocksOf
  <2> QED BY <2>2, <2>3, Zenon
<1>9. Promise!Adding(Promise!Block({}), n, TRUE) = Promise!Block({n})
  BY DEF Promise!Adding, Promise!Block
<1>10. BlocksOf(m) = [b \in 1..s + 1 + 1 |-> IF b = s + 1 + 1 THEN Promise!Block({}) ELSE B[b]]
  BY <1>2, <1>6
<1>11. BlocksOf(e) = [b \in 1..s + 1 + 1 |-> IF b = s + 1 + 1 THEN Promise!Block({n}) ELSE B[b]]
  <2>1. BlocksOf(m)[s + 1 + 1] = Promise!Block({}) /\ DOMAIN BlocksOf(m) = 1..s + 1 + 1
    BY <1>5, <1>10
  <2> HIDE DEF B, s, BlocksOf
  <2>2. [BlocksOf(m) EXCEPT ![s + 1 + 1] = Promise!Adding(@, n, TRUE)]
          = [b \in 1..s + 1 + 1 |-> IF b = s + 1 + 1 THEN Promise!Block({n}) ELSE BlocksOf(m)[b]]
    BY <1>9, <2>1, <1>10
  <2>3. \A b \in 1..s + 1 + 1 : b # s + 1 + 1 => BlocksOf(m)[b] = B[b]
    BY <1>10
  <2>4. m.scopeDepth + 1 = s + 1 + 1
    BY DEF s
  <2> QED BY <1>8, <2>2, <2>3, <2>4
<1> QED BY <1>6, <1>11

\* What two lists hold when they are put in one.
LEMMA Joined ==
  ASSUME NEW T, NEW p \in Seq(T), NEW q \in Seq(T)
  PROVE  p \o q \in Seq(T) /\ Range(p \o q) = Range(p) \cup Range(q)
<1>1. /\ p \o q \in Seq(T) /\ Len(p \o q) = Len(p) + Len(q)
      /\ \A k \in 1..Len(p) + Len(q) : (p \o q)[k] = IF k <= Len(p) THEN p[k] ELSE q[k - Len(p)]
  BY ConcatProperties
<1>2. DOMAIN (p \o q) = 1..Len(p) + Len(q) /\ DOMAIN p = 1..Len(p) /\ DOMAIN q = 1..Len(q)
      /\ Len(p) \in Nat /\ Len(q) \in Nat
  BY <1>1, LenProperties
<1>3. \A k \in 1..Len(p) : k \in 1..Len(p) + Len(q) /\ k <= Len(p)
  BY <1>2
<1>4. \A k \in 1..Len(q) : Len(p) + k \in 1..Len(p) + Len(q) /\ ~ (Len(p) + k <= Len(p))
                           /\ Len(p) + k - Len(p) = k
  BY <1>2
<1>5. \A k \in 1..Len(p) + Len(q) : k <= Len(p) => k \in 1..Len(p)
  BY <1>2
<1>6. \A k \in 1..Len(p) + Len(q) : ~ (k <= Len(p)) => k - Len(p) \in 1..Len(q)
  BY <1>2
<1>7. Range(p \o q) \subseteq Range(p) \cup Range(q)
  BY <1>1, <1>2, <1>5, <1>6 DEF Range
<1>8. Range(p) \subseteq Range(p \o q)
  BY <1>1, <1>2, <1>3 DEF Range
<1>9. Range(q) \subseteq Range(p \o q)
  <2> SUFFICES ASSUME NEW k \in 1..Len(q) PROVE q[k] \in Range(p \o q)
    BY <1>2 DEF Range
  <2>1. (p \o q)[Len(p) + k] = q[k] /\ Len(p) + k \in DOMAIN (p \o q)
    BY <1>1, <1>2, <1>4
  <2> QED BY <2>1 DEF Range
<1> QED BY <1>1, <1>7, <1>8, <1>9

\* What a list of lists holds when they are put in one.
LEMMA Flattened ==
  ASSUME NEW T, NEW n \in Nat, NEW s \in [1..n -> Seq(T)]
  PROVE  /\ FlattenSeq(s) \in Seq(T)
         /\ \A x : x \in Range(FlattenSeq(s)) <=> \E i \in 1..n : x \in Range(s[i])
<1> DEFINE Of(g, m) == g = [i \in 1..m |-> IF i = 1 THEN s[i] ELSE g[i - 1] \o s[i]]
<1>1. Len(s) = n /\ s \in Seq(Seq(T))
  BY LenProperties
<1>2. CASE n = 0
  <2>1. s = <<>>
    BY <1>1, <1>2
  <2>2. FlattenSeq(s) = <<>>
    BY <2>1 DEF FlattenSeq
  <2> QED BY <1>2, <2>2 DEF Range
<1>3. CASE n # 0
  <2>1. \E g : Of(g, n)
    <3> DEFINE Bad == {m \in Nat : ~ \E g : Of(g, m)}
    <3>1. SUFFICES ASSUME Bad # {} PROVE FALSE
      OBVIOUS
    <3>2. PICK m \in Bad : \A y \in Bad : m <= y
      BY <3>1, LeastNat
    <3>3. 0 \notin Bad
      <4>1. Of(<<>>, 0)
        OBVIOUS
      <4> QED BY <4>1
    <3>4. m \in Nat /\ m # 0 /\ m - 1 \in Nat /\ ~ (m <= m - 1)
      <4>1. m \in Nat /\ m # 0
        <5>1. Bad \subseteq Nat
          OBVIOUS
        <5> HIDE DEF Bad
        <5> QED BY <3>2, <3>3, <5>1
      <4> QED BY <4>1
    <3>5. PICK g : Of(g, m - 1)
      <4>1. m - 1 \notin Bad
        <5> HIDE DEF Bad
        <5> QED BY <3>2, <3>4
      <4> QED BY <3>4, <4>1
    <3> DEFINE h == [i \in 1..m |-> IF i = m THEN IF m = 1 THEN s[1] ELSE g[m - 1] \o s[m] ELSE g[i]]
    <3>6. ASSUME NEW i \in 1..m PROVE h[i] = IF i = 1 THEN s[i] ELSE h[i - 1] \o s[i]
      <4>1. CASE i = m
        BY <3>4, <4>1
      <4>2. CASE i # m
        <5>1. i \in 1..m - 1 /\ i - 1 # m
          BY <3>4, <4>2
        <5>2. g[i] = IF i = 1 THEN s[i] ELSE g[i - 1] \o s[i]
          BY <3>5, <5>1
        <5>3. i # 1 => i - 1 \in 1..m
          BY <3>4
        <5> QED BY <4>2, <5>1, <5>2, <5>3
      <4> QED BY <4>1, <4>2
    <3>7. Of(h, m)
      BY <3>6
    <3> QED BY <3>2, <3>7
  <2> DEFINE g == CHOOSE g : Of(g, n)
  <2>2. FlattenSeq(s) = g[n]
    BY <1>1, <1>3 DEF FlattenSeq
  <2>3. Of(g, n)
    BY <2>1
  <2> HIDE DEF g
  <2> DEFINE P(i) == g[i] \in Seq(T) /\ \A x : x \in Range(g[i]) <=> \E j \in 1..i : x \in Range(s[j])
             Bad == {i \in 1..n : ~P(i)}
  <2>4. \A i \in 1..n : g[i] = IF i = 1 THEN s[i] ELSE g[i - 1] \o s[i]
    BY <2>3
  <2>5. \A i \in 1..n : P(i)
    <3>1. SUFFICES ASSUME Bad # {} PROVE FALSE
      OBVIOUS
    <3>2. PICK i \in Bad : \A y \in Bad : i <= y
      <4>1. Bad \in SUBSET Nat
        OBVIOUS
      <4> HIDE DEF Bad
      <4> QED BY <3>1, <4>1, LeastNat
    <3>3. CASE i = 1
      <4>1. g[1] = s[1] /\ \A j \in 1..1 : j = 1
        BY <2>4, <3>2, <3>3
      <4> QED BY <3>2, <3>3, <4>1
    <3>4. CASE i # 1
      <4>1. /\ i \in 1..n /\ i - 1 \in 1..n /\ ~ (i <= i - 1)
            /\ \A j \in 1..i : j = i \/ j \in 1..i - 1
            /\ \A j \in 1..i - 1 : j \in 1..i
        BY <3>2, <3>4
      <4>2. P(i - 1)
        BY <3>2, <4>1
      <4>3. g[i] = g[i - 1] \o s[i] /\ s[i] \in Seq(T)
        BY <2>4, <3>4, <4>1
      <4>4. g[i] \in Seq(T) /\ Range(g[i]) = Range(g[i - 1]) \cup Range(s[i])
        <5> HIDE DEF Of
        <5>1. g[i - 1] \in Seq(T)
          BY <4>2
        <5> QED BY <4>3, <5>1, Joined
      <4>5. P(i)
        <5>1. ASSUME NEW x PROVE x \in Range(g[i]) <=> \E j \in 1..i : x \in Range(s[j])
          <6>1. x \in Range(g[i - 1]) <=> \E j \in 1..i - 1 : x \in Range(s[j])
            BY <4>2
          <6>2. x \in Range(g[i]) <=> x \in Range(g[i - 1]) \/ x \in Range(s[i])
            BY <4>4
          <6>3. i \in 1..i
            BY <4>1
          <6> HIDE DEF Of, P
          <6> QED BY <4>1, <6>1, <6>2, <6>3
        <5> QED BY <4>4, <5>1
      <4> HIDE DEF P
      <4> QED BY <3>2, <4>5
    <3> QED BY <3>3, <3>4
  <2>6. P(n)
    <3>1. n \in 1..n
      BY <1>3
    <3> HIDE DEF P
    <3> QED BY <2>5, <3>1
  <2> QED BY <2>2, <2>6
<1> QED BY <1>2, <1>3

\* The instructions and warnings at the end of a block are those of its locals.
LEMMA EndCode ==
  ASSUME NEW c, Len(c.locals) \in Nat, NEW k \in 0..Len(c.locals)
  PROVE  \A x : x \in Range(EndScopeCode(c, k)) <=>
           \E i \in k + 1..Len(c.locals) :
             \/ x = Instruction(EndOp(c.locals[i]), 0, c.locals[i].name)
             \/ /\ ~ c.locals[i].read /\ c.locals[i].name \notin SuperNames
                /\ x = Instruction("warning", 0, c.locals[i].name)
<1> DEFINE L == Len(c.locals)
           A(i) == Instruction(EndOp(c.locals[i]), 0, c.locals[i].name)
           W(i) == Instruction("warning", 0, c.locals[i].name)
           T == {A(i) : i \in 1..L} \cup {W(i) : i \in 1..L}
           m == L - k
           s == [i \in 1..m |-> Leaves(c.locals[k + i])]
           r == Reverse(s)
<1>1. m \in Nat /\ L \in Nat /\ k \in Nat
  OBVIOUS
<1>2. ASSUME NEW i \in 1..L
      PROVE  /\ Leaves(c.locals[i]) \in Seq(T)
             /\ Range(Leaves(c.locals[i])) = {A(i)} \cup IF c.locals[i].read \/ c.locals[i].name \in SuperNames
                                                         THEN {} ELSE {W(i)}
  <2>1. A(i) \in T /\ W(i) \in T
    OBVIOUS
  <2> HIDE DEF T, A, W
  <2>2. Leaves(c.locals[i]) = <<A(i)>> \o (IF c.locals[i].read \/ c.locals[i].name \in SuperNames THEN <<>>
                                           ELSE <<W(i)>>)
    BY DEF Leaves, A, W
  <2>3. CASE c.locals[i].read \/ c.locals[i].name \in SuperNames
    <3>1. Leaves(c.locals[i]) = <<A(i)>>
      <4>1. \A a : <<a>> \o <<>> = <<a>>
        OBVIOUS
      <4> QED BY <2>2, <2>3, <4>1
    <3> QED BY <2>1, <2>3, <3>1 DEF Range
  <2>4. CASE ~ (c.locals[i].read \/ c.locals[i].name \in SuperNames)
    <3>1. <<A(i)>> \in Seq(T) /\ <<W(i)>> \in Seq(T) /\ Range(<<A(i)>>) = {A(i)} /\ Range(<<W(i)>>) = {W(i)}
      BY <2>1 DEF Range
    <3>2. Leaves(c.locals[i]) = <<A(i)>> \o <<W(i)>>
      BY <2>2, <2>4
    <3>3. Leaves(c.locals[i]) \in Seq(T) /\ Range(Leaves(c.locals[i])) = {A(i)} \cup {W(i)}
      <4>1. PICK a \in Seq(T), b \in Seq(T) : a = <<A(i)>> /\ b = <<W(i)>>
        BY <3>1
      <4>2. a \o b \in Seq(T) /\ Range(a \o b) = Range(a) \cup Range(b)
        BY Joined
      <4> QED BY <3>1, <3>2, <4>1, <4>2, Zenon
    <3> QED BY <2>4, <3>3
  <2> QED BY <2>3, <2>4
<1>3. \A i \in 1..m : k + i \in 1..L /\ (m - i) + 1 \in 1..m
  BY <1>1
<1>4. s \in [1..m -> Seq(T)] /\ Len(s) = m
  <2> HIDE DEF T, m, L
  <2>1. s \in [1..m -> Seq(T)]
    BY <1>2, <1>3
  <2> HIDE DEF s
  <2>2. s \in Seq(Seq(T))
    BY <1>1, <2>1
  <2>3. Len(s) \in Nat /\ DOMAIN s = 1..Len(s) /\ DOMAIN s = 1..m
    BY <2>1, <2>2, LenProperties
  <2> QED BY <1>1, <2>1, <2>3
<1>5. r \in [1..m -> Seq(T)] /\ \A i \in 1..m : r[i] = Leaves(c.locals[k + ((m - i) + 1)])
  <2>1. r = [i \in 1..m |-> s[(m - i) + 1]]
    BY <1>4 DEF Reverse
  <2>2. \A i \in 1..m : s[(m - i) + 1] \in Seq(T)
    <3> HIDE DEF T, m, s
    <3> QED BY <1>3, <1>4
  <2>3. \A i \in 1..m : s[(m - i) + 1] = Leaves(c.locals[k + ((m - i) + 1)])
    <3> HIDE DEF T, m
    <3> QED BY <1>3
  <2> HIDE DEF r, s, T, m
  <2> QED BY <2>1, <2>2, <2>3
<1>6. \A x : x \in Range(EndScopeCode(c, k)) <=> \E i \in 1..m : x \in Range(r[i])
  <2>1. EndScopeCode(c, k) = FlattenSeq(r)
    BY DEF EndScopeCode
  <2> HIDE DEF r, m, T
  <2> QED BY <1>1, <1>5, <2>1, Flattened
<1>7. ASSUME NEW x
      PROVE  (\E i \in 1..m : x \in Range(r[i])) <=> \E i \in k + 1..L : x \in Range(Leaves(c.locals[i]))
  <2>1. ASSUME NEW i \in 1..m, x \in Range(r[i])
        PROVE  \E j \in k + 1..L : x \in Range(Leaves(c.locals[j]))
    <3>1. k + ((m - i) + 1) \in k + 1..L
      BY <1>1
    <3> QED BY <1>5, <2>1, <3>1
  <2>2. ASSUME NEW j \in k + 1..L, x \in Range(Leaves(c.locals[j]))
        PROVE  \E i \in 1..m : x \in Range(r[i])
    <3>1. L - j + 1 \in 1..m /\ k + ((m - (L - j + 1)) + 1) = j
      BY <1>1
    <3> HIDE DEF r, m
    <3> QED BY <1>5, <2>2, <3>1
  <2> QED BY <2>1, <2>2
<1>8. \A i \in k + 1..L : i \in 1..L
  BY <1>1
<1> QED
  <2> TAKE x
  <2>1. x \in Range(EndScopeCode(c, k)) <=> \E i \in k + 1..L : x \in Range(Leaves(c.locals[i]))
    BY <1>6, <1>7
  <2>2. \A i \in k + 1..L : x \in Range(Leaves(c.locals[i])) <=>
          x = A(i) \/ (~ c.locals[i].read /\ c.locals[i].name \notin SuperNames /\ x = W(i))
    <3> SUFFICES ASSUME NEW i \in k + 1..L
                 PROVE  x \in Range(Leaves(c.locals[i])) <=>
                          x = A(i) \/ (~ c.locals[i].read /\ c.locals[i].name \notin SuperNames /\ x = W(i))
      OBVIOUS
    <3>1. Range(Leaves(c.locals[i])) = {A(i)} \cup IF c.locals[i].read \/ c.locals[i].name \in SuperNames
                                                   THEN {} ELSE {W(i)}
      BY <1>2, <1>8
    <3> HIDE DEF A, W, L
    <3> QED BY <3>1
  <2> QED BY <2>1, <2>2

\* What endScope emits, in Lexical's words.
Tells(e, p) ==
  <<CASE e.op = "OP_POP" -> "drop" [] e.op = "OP_CLOSE_UPVALUE" -> "close" [] e.op = "warning" -> "unused",
    <<p[1], p[2], e.name>>>>

Ends(b, p) ==
  {<<IF b[n].captured THEN "close" ELSE "drop", <<p[1], p[2], n>>>> : n \in DOMAIN b}
    \cup {<<"unused", <<p[1], p[2], n>>>> : n \in Promise!Unused(b)}

\* Each local of the innermost block is dropped, or closed, and warned about if unused.
LEMMA EndTold ==
  ASSUME NEW c, Plain(c), NEW k \in 0..Len(c.locals),
         \A i \in 1..Len(c.locals) : i \in k + 1..Len(c.locals) <=> BlockOf(c, i) = c.scopeDepth,
         NEW p
  PROVE  {Tells(x, p) : x \in Range(EndScopeCode(c, k))} = Ends(BlockAt(c, c.scopeDepth), p)
<1> DEFINE B == BlockAt(c, c.scopeDepth)
           R == Range(EndScopeCode(c, k))
           I == k + 1..Len(c.locals)
<1>1. Len(c.locals) \in Nat /\ DOMAIN c.locals = 1..Len(c.locals) /\ Distinct(c)
  BY DEF Plain
<1>2. \A x : x \in R <=> \E i \in I :
             \/ x = Instruction(EndOp(c.locals[i]), 0, c.locals[i].name)
             \/ /\ ~ c.locals[i].read /\ c.locals[i].name \notin SuperNames
                /\ x = Instruction("warning", 0, c.locals[i].name)
  BY <1>1, EndCode
<1>3. \A n : n \in DOMAIN B <=> \E i \in I : c.locals[i].name = n
  <2> TAKE n
  <2>1. n \in DOMAIN B <=> \E i \in DOMAIN c.locals : BlockOf(c, i) = c.scopeDepth /\ c.locals[i].name = n
    BY <1>1, BlockIs
  <2>2. \A i \in I : i \in 1..Len(c.locals)
    BY <1>1
  <2> HIDE DEF B
  <2> QED BY <1>1, <2>1, <2>2
<1>4. \A i \in I : B[c.locals[i].name].read = c.locals[i].read /\ B[c.locals[i].name].captured = c.locals[i].isCaptured
  <2> TAKE i \in I
  <2>1. i \in DOMAIN c.locals /\ BlockOf(c, i) = c.scopeDepth
    BY <1>1
  <2>2. B[c.locals[i].name] = Flags(c.locals[i])
    BY <1>1, <2>1, BlockIs
  <2> HIDE DEF B
  <2> QED BY <2>2 DEF Flags
<1>5. \A i \in I : Tells(Instruction(EndOp(c.locals[i]), 0, c.locals[i].name), p)
                     = <<IF c.locals[i].isCaptured THEN "close" ELSE "drop", <<p[1], p[2], c.locals[i].name>>>>
  BY DEF Tells, Instruction, EndOp
<1>6. \A n : Tells(Instruction("warning", 0, n), p) = <<"unused", <<p[1], p[2], n>>>>
  BY DEF Tells, Instruction
<1> HIDE DEF B, R, I
<1>7. ASSUME NEW x \in R PROVE Tells(x, p) \in Ends(B, p)
  <2>1. PICK i \in I :
             \/ x = Instruction(EndOp(c.locals[i]), 0, c.locals[i].name)
             \/ /\ ~ c.locals[i].read /\ c.locals[i].name \notin SuperNames
                /\ x = Instruction("warning", 0, c.locals[i].name)
    BY <1>2
  <2> DEFINE n == c.locals[i].name
  <2>2. n \in DOMAIN B
    BY <1>3
  <2>3. CASE x = Instruction(EndOp(c.locals[i]), 0, n)
    <3>1. Tells(x, p) = <<IF B[n].captured THEN "close" ELSE "drop", <<p[1], p[2], n>>>>
      BY <1>4, <1>5, <2>3
    <3> QED BY <2>2, <3>1 DEF Ends
  <2>4. CASE ~ c.locals[i].read /\ n \notin SuperNames /\ x = Instruction("warning", 0, n)
    <3>1. n \in Promise!Unused(B)
      BY <1>4, <2>2, <2>4 DEF Promise!Unused
    <3>2. Tells(x, p) = <<"unused", <<p[1], p[2], n>>>>
      BY <1>6, <2>4
    <3> QED BY <3>1, <3>2 DEF Ends
  <2> QED BY <2>1, <2>3, <2>4
<1>8. ASSUME NEW n \in DOMAIN B
      PROVE  \E x \in R : Tells(x, p) = <<IF B[n].captured THEN "close" ELSE "drop", <<p[1], p[2], n>>>>
  <2>1. PICK i \in I : c.locals[i].name = n
    BY <1>3
  <2>2. Instruction(EndOp(c.locals[i]), 0, c.locals[i].name) \in R
    BY <1>2
  <2> QED BY <1>4, <1>5, <2>1, <2>2
<1>9. ASSUME NEW n \in Promise!Unused(B)
      PROVE  \E x \in R : Tells(x, p) = <<"unused", <<p[1], p[2], n>>>>
  <2>1. n \in DOMAIN B /\ ~ B[n].read /\ n \notin SuperNames
    BY DEF Promise!Unused
  <2>2. PICK i \in I : c.locals[i].name = n
    BY <1>3, <2>1
  <2>3. Instruction("warning", 0, n) \in R
    BY <1>2, <1>4, <2>1, <2>2
  <2> QED BY <1>6, <2>3
<1>10. {Tells(x, p) : x \in R} \subseteq Ends(B, p)
  BY <1>7
<1>11. Ends(B, p) \subseteq {Tells(x, p) : x \in R}
  <2> SUFFICES ASSUME NEW y \in Ends(B, p) PROVE \E x \in R : y = Tells(x, p)
    OBVIOUS
  <2>1. \/ \E n \in DOMAIN B : y = <<IF B[n].captured THEN "close" ELSE "drop", <<p[1], p[2], n>>>>
        \/ \E n \in Promise!Unused(B) : y = <<"unused", <<p[1], p[2], n>>>>
    BY Zenon DEF Ends
  <2> QED BY <1>8, <1>9, <2>1
<1> QED BY <1>10, <1>11 DEF B, R

-----------------------------------------------------------------------------
(* What the helpers of Scopes do to a function's arrays, local by local *)

\* The records of locals differ only where they are assigned to.
LEMMA LocalParts ==
  ASSUME NEW l \in LocalType
  PROVE  /\ \A d : /\ [l EXCEPT !.depth = d].name = l.name /\ [l EXCEPT !.depth = d].depth = d
                   /\ [l EXCEPT !.depth = d].read = l.read
                   /\ [l EXCEPT !.depth = d].isCaptured = l.isCaptured
         /\ CapturedOnlyRead(l).name = l.name /\ CapturedOnlyRead(l).depth = l.depth
         /\ CapturedOnlyRead(l).read = TRUE /\ CapturedOnlyRead(l).isCaptured = l.isCaptured
         /\ Captured(l).name = l.name /\ Captured(l).depth = l.depth
         /\ Captured(l).read = TRUE /\ Captured(l).isCaptured = TRUE
         /\ CapturedOnlyRead(l) \in LocalType /\ Captured(l) \in LocalType
BY DEF LocalType, CapturedOnlyRead, Captured

\* A new local after markInitialized.
LEMMA LocalMarked ==
  ASSUME NEW n, NEW d, NEW x
  PROVE  [Local(n, d) EXCEPT !.depth = x] = Local(n, x)
<1>1. PICK l : l = Local(n, d)
  OBVIOUS
<1>2. l \in [name : {n}, depth : {d}, read : {FALSE}, isCaptured : {FALSE}]
  BY <1>1 DEF Local
<1>3. PICK m : m = [l EXCEPT !.depth = x]
  OBVIOUS
<1>4. m \in [name : {n}, depth : {x}, read : {FALSE}, isCaptured : {FALSE}]
  BY <1>2, <1>3
<1>5. m = [name |-> m.name, depth |-> m.depth, read |-> m.read, isCaptured |-> m.isCaptured]
  BY <1>4
<1>6. m.name = n /\ m.depth = x /\ m.read = FALSE /\ m.isCaptured = FALSE
  BY <1>4
<1> QED BY <1>1, <1>3, <1>5, <1>6 DEF Local

\* The arrays after addLocal: one more local, at the end.
LEMMA AddShape ==
  ASSUME NEW c, Fits(c), Len(c.locals) # UINT8_COUNT, NEW n
  PROVE  LET e == AddLocal(c, n)
         IN /\ Len(e.locals) = Len(c.locals) + 1 /\ DOMAIN e.locals = 1..Len(c.locals) + 1
            /\ \A i \in 1..Len(c.locals) : e.locals[i] = c.locals[i]
            /\ e.locals[Len(c.locals) + 1] = Local(n, -1)
            /\ e.scopeDepth = c.scopeDepth /\ e.upvalues = c.upvalues
<1> DEFINE l == Local(n, -1)
           ls == Append(c.locals, l)
<1>1. c \in CompilerType
  BY DEF Fits
<1>2. c.locals \in Seq(LocalType) /\ Len(c.locals) \in Nat
  BY <1>1, Parts
<1>3. c.locals \in Seq(LocalType \cup {l}) /\ l \in LocalType \cup {l}
  <2>1. LocalType \subseteq LocalType \cup {l}
    OBVIOUS
  <2> HIDE DEF l, LocalType
  <2> QED BY <1>2, <2>1
<1>4. /\ Len(ls) = Len(c.locals) + 1 /\ DOMAIN ls = 1..Len(c.locals) + 1
      /\ \A i \in 1..Len(c.locals) : ls[i] = c.locals[i]
      /\ ls[Len(c.locals) + 1] = l
  <2> HIDE DEF l, LocalType
  <2> QED BY <1>2, <1>3
<1>5. AddLocal(c, n) = [c EXCEPT !.locals = ls]
  BY DEF AddLocal
<1>6. /\ AddLocal(c, n).locals = ls /\ AddLocal(c, n).scopeDepth = c.scopeDepth
      /\ AddLocal(c, n).upvalues = c.upvalues
  <2> HIDE DEF ls
  <2> QED BY <1>1, <1>5 DEF CompilerType
<1> QED BY <1>4, <1>6

\* The arrays after markInitialized: the last local has the depth of its block.
LEMMA MarkShape ==
  ASSUME NEW c, Fits(c), c.scopeDepth > 0
  PROVE  LET e == MarkInitialized(c)
             x == Len(c.locals)
         IN /\ Len(e.locals) = x /\ DOMAIN e.locals = 1..x
            /\ \A i \in 1..x : /\ e.locals[i].name = c.locals[i].name /\ e.locals[i].read = c.locals[i].read
                               /\ e.locals[i].isCaptured = c.locals[i].isCaptured
                               /\ i # x => e.locals[i] = c.locals[i]
            /\ e.locals[x].depth = c.scopeDepth /\ e.locals[x] = [c.locals[x] EXCEPT !.depth = c.scopeDepth]
            /\ e.scopeDepth = c.scopeDepth /\ e.upvalues = c.upvalues
<1> DEFINE x == Len(c.locals)
           l == [c.locals[x] EXCEPT !.depth = c.scopeDepth]
           ls == [c.locals EXCEPT ![x] = l]
<1>1. c \in CompilerType /\ x \in Nat \ {0}
  BY ScopesAssumption DEF Fits
<1>2. c.locals \in Seq(LocalType) /\ DOMAIN c.locals = 1..x /\ x \in 1..x /\ c.locals[x] \in LocalType
  BY <1>1, Parts
<1>3. /\ l.name = c.locals[x].name /\ l.depth = c.scopeDepth /\ l.read = c.locals[x].read
      /\ l.isCaptured = c.locals[x].isCaptured
  BY <1>2, LocalParts
<1>4. Len(ls) = x /\ DOMAIN ls = 1..x /\ \A i \in 1..x : ls[i] = IF i = x THEN l ELSE c.locals[i]
  <2> HIDE DEF l, LocalType
  <2>1. \A i \in 1..x : ls[i] = IF i = x THEN l ELSE c.locals[i]
    BY <1>2
  <2>2. DOMAIN ls = 1..x
    BY <1>2
  <2>3. ls \in Seq(LocalType \cup {l})
    BY <1>2
  <2>4. Len(ls) \in Nat /\ DOMAIN ls = 1..Len(ls)
    BY <2>3, LenProperties
  <2> HIDE DEF ls
  <2> QED BY <1>1, <2>1, <2>2, <2>4
<1>5. MarkInitialized(c) = [c EXCEPT !.locals = ls]
  BY DEF MarkInitialized
<1>6. /\ MarkInitialized(c).locals = ls /\ MarkInitialized(c).scopeDepth = c.scopeDepth
      /\ MarkInitialized(c).upvalues = c.upvalues
  <2> HIDE DEF ls
  <2> QED BY <1>1, <1>5 DEF CompilerType
<1> HIDE DEF ls, l
<1> QED BY <1>2, <1>3, <1>4, <1>6 DEF l

\* The arrays after endScope: the locals of the outer blocks.
LEMMA EndShape ==
  ASSUME NEW c, Fits(c), Settled(c), c.scopeDepth > 0, NEW k \in 0..Len(c.locals), Keeps(c, k)
  PROVE  LET e == Ended(c, k)
         IN /\ k \in 1..Len(c.locals) /\ k < Len(c.locals) + 1
            /\ Len(e.locals) = k /\ DOMAIN e.locals = 1..k
            /\ \A i \in 1..k : e.locals[i] = c.locals[i]
            /\ e.scopeDepth = c.scopeDepth - 1 /\ e.upvalues = c.upvalues
            /\ \A i \in 1..k : c.locals[i].depth <= c.scopeDepth - 1
            /\ \A i \in k + 1..Len(c.locals) : c.locals[i].depth > c.scopeDepth - 1
<1> DEFINE n  == Len(c.locals)
           d  == c.scopeDepth - 1
           ls == SubSeq(c.locals, 1, k)
<1>1. c \in CompilerType
  BY DEF Fits
<1>2. /\ c.locals \in Seq(LocalType) /\ c.scopeDepth \in 1..MaxScope /\ n \in 1..UINT8_COUNT
      /\ d \in Int /\ 0 <= d /\ DOMAIN c.locals = 1..n /\ UINT8_COUNT \in Nat
      /\ \A i \in 1..n : c.locals[i].depth \in Int
  BY <1>1, Parts, ScopesAssumption DEF Fits
<1>3. c.locals[1].depth = 0 /\ \A i \in 1..n : c.locals[i].depth # -1
  BY <1>2 DEF Fits, Ordered, Settled
<1>4. k >= 1
  <2>1. k = 0 => c.locals[1].depth > d
    BY <1>2 DEF Keeps
  <2> QED BY <1>2, <1>3, <2>1
<1>5. Ended(c, k) = [[c EXCEPT !.scopeDepth = d] EXCEPT !.locals = ls]
  BY <1>1 DEF Ended, CompilerType
<1>6. Len(ls) = k /\ DOMAIN ls = 1..k /\ \A i \in 1..k : ls[i] = c.locals[i]
  BY <1>2, <1>4
<1>7. Ended(c, k).locals = ls /\ Ended(c, k).upvalues = c.upvalues /\ Ended(c, k).scopeDepth = d
  <2> HIDE DEF ls, d
  <2> QED BY <1>1, <1>5 DEF CompilerType
<1>8. \A i \in 1..k : c.locals[i].depth <= d
  <2>1. c.locals[k].depth <= d
    BY <1>4 DEF Keeps
  <2>2. \A i \in 1..k : i < k => c.locals[i].depth <= c.locals[k].depth
    BY <1>2, <1>3, <1>4, SMTT(30) DEF Fits, Ordered
  <2> QED BY <2>1, <2>2, <1>2, <1>4, SMTT(30)
<1>9. \A i \in k + 1..n : c.locals[i].depth > d
  BY DEF Keeps
<1>10. k \in 1..n /\ k < n + 1
  BY <1>2, <1>4
<1> HIDE DEF ls
<1> QED BY <1>6, <1>7, <1>8, <1>9, <1>10

\* The arrays after resolveLocal: one local changed in place.
LEMMA TouchShape ==
  ASSUME NEW c, Fits(c), NEW i \in 1..Len(c.locals), NEW l
  PROVE  LET e == [c EXCEPT !.locals[i] = l]
         IN /\ Len(e.locals) = Len(c.locals) /\ DOMAIN e.locals = 1..Len(c.locals)
            /\ \A j \in 1..Len(c.locals) : e.locals[j] = IF j = i THEN l ELSE c.locals[j]
            /\ e.scopeDepth = c.scopeDepth /\ e.upvalues = c.upvalues
<1> DEFINE n  == Len(c.locals)
           ls == [c.locals EXCEPT ![i] = l]
<1>1. c \in CompilerType /\ n \in Nat \ {0}
  BY ScopesAssumption DEF Fits
<1>2. c.locals \in Seq(LocalType) /\ DOMAIN c.locals = 1..n
  BY <1>1, Parts
<1>3. Len(ls) = n /\ DOMAIN ls = 1..n /\ \A j \in 1..n : ls[j] = IF j = i THEN l ELSE c.locals[j]
  <2> HIDE DEF LocalType
  <2>1. \A j \in 1..n : ls[j] = IF j = i THEN l ELSE c.locals[j]
    BY <1>2
  <2>2. DOMAIN ls = 1..n
    BY <1>2
  <2>3. ls \in Seq(LocalType \cup {l})
    BY <1>2
  <2>4. Len(ls) \in Nat /\ DOMAIN ls = 1..Len(ls)
    BY <2>3, LenProperties
  <2> HIDE DEF ls
  <2> QED BY <1>1, <2>1, <2>2, <2>4
<1>4. [c EXCEPT !.locals[i] = l] = [c EXCEPT !.locals = ls]
  BY <1>1 DEF CompilerType
<1>5. /\ [c EXCEPT !.locals = ls].locals = ls /\ [c EXCEPT !.locals = ls].scopeDepth = c.scopeDepth
      /\ [c EXCEPT !.locals = ls].upvalues = c.upvalues
  <2> HIDE DEF ls
  <2> QED BY <1>1 DEF CompilerType
<1> HIDE DEF ls
<1> QED BY <1>3, <1>4, <1>5

-----------------------------------------------------------------------------
(* While there is no error, the arrays are as the rules of the language say *)

\* declareVariable finds a clash exactly when the block has the name.
LEMMA ClashIs ==
  ASSUME NEW c, Fits(c), Settled(c), Scoped(c), NEW n
  PROVE  Clashes(c, n) <=> n \in DOMAIN BlockAt(c, c.scopeDepth)
<1> DEFINE s == c.scopeDepth
<1>1. Plain(c)
  BY ArePlain
<1>2. /\ Distinct(c) /\ Len(c.locals) \in Nat \ {0} /\ DOMAIN c.locals = 1..Len(c.locals) /\ s \in Nat
      /\ \A i \in 1..Len(c.locals) : /\ c.locals[i].depth \in Int /\ c.locals[i].depth <= s
                                     /\ BlockOf(c, i) = c.locals[i].depth
  BY <1>1 DEF Plain, BlockOf, Settled
<1>3. n \in DOMAIN BlockAt(c, s) <=> \E i \in DOMAIN c.locals : BlockOf(c, i) = s /\ c.locals[i].name = n
  BY <1>2, BlockIs
<1>4. ASSUME NEW i \in DOMAIN c.locals, c.locals[i].name = n,
             \A j \in i..Len(c.locals) : c.locals[j].depth = -1 \/ c.locals[j].depth >= s
      PROVE  BlockOf(c, i) = s
  <2>1. i \in i..Len(c.locals) /\ c.locals[i].depth # -1
    BY <1>2 DEF Settled
  <2>2. c.locals[i].depth >= s
    BY <1>4, <2>1
  <2> QED BY <1>2, <2>2
<1>5. ASSUME NEW i \in DOMAIN c.locals, BlockOf(c, i) = s, NEW j \in i..Len(c.locals)
      PROVE  c.locals[j].depth >= s
  <2>1. i \in 1..Len(c.locals) /\ j \in 1..Len(c.locals) /\ (i = j \/ i < j)
    BY <1>2
  <2>2. c.locals[i].depth = s /\ c.locals[j].depth # -1
    BY <1>2, <1>5, <2>1 DEF Settled
  <2>3. i < j => c.locals[i].depth <= c.locals[j].depth
    BY <2>1, <2>2 DEF Fits, Ordered
  <2> QED BY <1>2, <2>1, <2>2, <2>3
<1> QED BY <1>3, <1>4, <1>5 DEF Clashes

\* A variable that does not clash leaves the function's blocks in order.
LEMMA AddScoped ==
  ASSUME NEW c, Plain(c), Scoped(c), c.scopeDepth > 0, NEW n \in Name \cup {"super"},
         NEW e, NEW d, d = -1 \/ d = c.scopeDepth, NEW x, x = Len(c.locals) + 1,
         Len(e.locals) = x, DOMAIN e.locals = 1..x,
         \A i \in 1..Len(c.locals) : e.locals[i] = c.locals[i],
         e.locals[x] = Local(n, d), e.scopeDepth = c.scopeDepth,
         n \notin DOMAIN BlockAt(c, c.scopeDepth)
  PROVE  Scoped(e) /\ EndsHere(e) /\ e.locals[x].name = n /\ e.locals[1] = c.locals[1] /\ Distinct(e)
<1>1. /\ Len(c.locals) \in Nat \ {0} /\ DOMAIN c.locals = 1..Len(c.locals) /\ Distinct(c) /\ c.scopeDepth \in Nat
  BY DEF Plain
<1>2. \A i \in 1..Len(c.locals) : BlockOf(e, i) = BlockOf(c, i) /\ e.locals[i].name = c.locals[i].name
  BY DEF BlockOf
<1>3. e.locals[x].name = n /\ BlockOf(e, x) = c.scopeDepth
  BY DEF BlockOf, Local
<1>4. \A i \in 1..Len(c.locals) : BlockOf(c, i) = c.scopeDepth => c.locals[i].name # n
  <2>1. n \in DOMAIN BlockAt(c, c.scopeDepth) <=>
          \E i \in DOMAIN c.locals : BlockOf(c, i) = c.scopeDepth /\ c.locals[i].name = n
    BY <1>1, BlockIs
  <2> QED BY <1>1, <2>1
<1>5. \A i \in 1..x : i = x \/ i \in 1..Len(c.locals)
  BY <1>1
<1>6. Distinct(e)
  BY <1>1, <1>2, <1>3, <1>4, <1>5, SMTT(40) DEF Distinct
<1>7. \A i \in 2..x : BlockOf(e, i) > 0 /\ e.locals[i].name \in Name \cup {"super"}
  <2>1. \A i \in 2..x : i = x \/ (i \in 2..Len(c.locals) /\ i \in 1..Len(c.locals))
    BY <1>1
  <2> QED BY <1>2, <1>3, <2>1 DEF Scoped
<1>8. 1 \in 1..Len(c.locals)
  BY <1>1
<1> QED BY <1>3, <1>6, <1>7, <1>8 DEF Scoped, Distinct, EndsHere

\* Two sets of arrays that differ in no name and no block
Alike(c, d) ==
  /\ Len(d.locals) = Len(c.locals) /\ DOMAIN d.locals = DOMAIN c.locals
  /\ 1 \in DOMAIN c.locals /\ Len(c.locals) \in DOMAIN c.locals
  /\ \A i \in DOMAIN c.locals : d.locals[i].name = c.locals[i].name /\ BlockOf(d, i) = BlockOf(c, i)
  /\ d.scopeDepth = c.scopeDepth

\* What is accepted of arrays is of the names and the blocks in them.
LEMMA AcceptsAlike ==
  ASSUME NEW f, NEW c, NEW d, NEW v, NEW w, NEW s, Accepts(f, c, v, s), w => v, Alike(c, d),
         DOMAIN c.locals = 1..Len(c.locals), d.upvalues = c.upvalues
  PROVE  Accepts(f, d, w, s) /\ Scoped(d)
<1>1. Scoped(d)
  BY DEF Scoped, Accepts, Alike
<1>2. EndsHere(c) => EndsHere(d)
  BY DEF EndsHere, Alike
<1>3. Last(d.locals).name = Last(c.locals).name
  BY DEF Alike, Last
<1> QED BY <1>1, <1>2, <1>3 DEF Accepts, Alike

\* The functions after one of them changed.
LEMMA EditView ==
  ASSUME IInv, NEW f \in 1..Top, NEW d, Fits(d), compilers' = [compilers EXCEPT ![f] = d]
  PROVE  /\ Top' = Top /\ current' = (IF f = Top THEN d ELSE current)
         /\ \A g \in 1..Top : compilers'[g] = IF g = f THEN d ELSE compilers[g]
<1>1. /\ compilers \in Seq(CompilerType) /\ Top \in Nat \ {0} /\ d \in CompilerType
      /\ current = compilers[Top]
  BY Unfold DEF Bounded, Fits
<1>2. Len(compilers') = Len(compilers) /\ \A g \in 1..Top : compilers'[g] = IF g = f THEN d ELSE compilers[g]
  <2> HIDE DEF CompilerType
  <2> QED BY <1>1, ExceptElement DEF Top
<1>3. Top' = Top
  BY <1>2 DEF Top
<1> QED BY <1>1, <1>2, <1>3 DEF current

SupersDue == \A j \in DOMAIN todo : todo[j] = "super" => classes # <<>> /\ Last(classes).hasSuperclass

NoSuperYet == pc \in {"class", "inherits", "inherits_itself"} => ~Last(classes).hasSuperclass

\* The three parts of what is relied on before an error.
LEMMA AcceptedIs ==
  Accepted <=> /\ \A f \in 1..Top : Accepts(f, compilers[f], Waits(f), Supered(f))
               /\ SupersDue /\ NoSuperYet
BY DEF Accepted, SupersDue, NoSuperYet

\* A step that changes one function
LEMMA AcceptedEdit ==
  ASSUME Accepted, NEW f \in 1..Top, NEW d, Top' = Top,
         \A g \in 1..Top : compilers'[g] = IF g = f THEN d ELSE compilers[g],
         Accepts(f, d, Waits(f)', Supered(f)'),
         \A g \in 1..Top : g # f => (Waits(g)' => Waits(g)) /\ (Supered(g)' <=> Supered(g)),
         SupersDue', NoSuperYet'
  PROVE  Accepted'
<1>1. ASSUME NEW g \in 1..Top PROVE Accepts(g, compilers'[g], Waits(g)', Supered(g)')
  <2>1. CASE g = f
    BY <2>1
  <2>2. CASE g # f
    <3>1. Accepts(g, compilers[g], Waits(g), Supered(g))
      BY AcceptedIs
    <3>2. compilers'[g] = compilers[g] /\ (Waits(g)' => Waits(g)) /\ (Supered(g)' <=> Supered(g))
      BY <2>2
    <3> HIDE DEF Waits, Supered
    <3> QED BY <3>1, <3>2 DEF Accepts
  <2> QED BY <2>1, <2>2
<1> QED BY <1>1 DEF Accepted, SupersDue, NoSuperYet

\* No class begins or ends.
LEMMA ClassesKept ==
  ASSUME classes' = classes, Top' = Top
  PROVE  /\ \A g : (Supered(g)' <=> Supered(g)) /\ (Classed(g)' <=> Classed(g))
         /\ \A g : g # Top => (Waits(g)' <=> Waits(g))
         /\ Waits(Top)' <=> pc' = "initializer"
         /\ Waits(Top) <=> pc = "initializer"
BY DEF Supered, Classed, Waits

\* What the steps use of the invariant
LEMMA Open ==
  ASSUME LexicalInv, ~hadError
  PROVE  /\ IInv /\ Accepted /\ SupersDue /\ NoSuperYet
         /\ Top \in Nat \ {0} /\ Top \in 1..Top /\ current = compilers[Top] /\ DOMAIN compilers = 1..Top
         /\ \A f \in 1..Top : /\ Fits(compilers[f]) /\ Scoped(compilers[f]) /\ Plain(compilers[f])
                              /\ Accepts(f, compilers[f], Waits(f), Supered(f))
                              /\ DOMAIN compilers[f].locals = 1..Len(compilers[f].locals)
         /\ pc # "initializer" => Settled(current)
         /\ \A f \in 1..(Top - 1) : Settled(compilers[f])
<1>1. IInv /\ Accepted /\ SupersDue /\ NoSuperYet
  BY AcceptedIs DEF LexicalInv
<1>2. /\ Top \in Nat \ {0} /\ current = compilers[Top] /\ DOMAIN compilers = 1..Top
      /\ \A f \in 1..Top : Fits(compilers[f])
      /\ pc # "initializer" => Settled(current)
      /\ \A f \in 1..(Top - 1) : Settled(compilers[f])
  BY <1>1, Unfold DEF Bounded
<1>3. ASSUME NEW f \in 1..Top
      PROVE  /\ Accepts(f, compilers[f], Waits(f), Supered(f)) /\ Scoped(compilers[f]) /\ Plain(compilers[f])
             /\ DOMAIN compilers[f].locals = 1..Len(compilers[f].locals)
  <2>1. Accepts(f, compilers[f], Waits(f), Supered(f))
    BY <1>1, AcceptedIs
  <2>2. Scoped(compilers[f])
    BY <2>1 DEF Accepts
  <2>3. Plain(compilers[f])
    BY <1>2, <2>2, ArePlain
  <2>4. DOMAIN compilers[f].locals = 1..Len(compilers[f].locals)
    BY <2>3, SMTT(40) DEF Plain
  <2> QED BY <2>1, <2>2, <2>3, <2>4
<1> QED BY <1>1, <1>2, <1>3

\* A name is resolved to local i of function f.
Found(n, f, i) ==
  /\ \A g \in (f + 1)..Top : Lacks(compilers[g], n)
  /\ Resolves(compilers[f], n, i)

\* namedVariable as a change of the one local it finds, if it finds one
LEMMA NamedView ==
  ASSUME IInv, NEW n, NEW rest, NEW e, NamedVariable(n, rest, e)
  PROVE  /\ todo' = rest
         /\ \/ \E f \in 1..Top : \E i \in 1..Len(compilers[f].locals) :
                 LET c == compilers[f]
                     l == IF f = Top THEN CapturedOnlyRead(c.locals[i]) ELSE Captured(c.locals[i])
                 IN /\ Found(n, f, i) /\ compilers' = [compilers EXCEPT ![f] = [c EXCEPT !.locals[i] = l]]
                    /\ Finish(First(e, OwnInitializer(c.locals[i])),
                              IF f = Top THEN <<Instruction("OP_GET_LOCAL", i, n)>> ELSE <<>>)
                    /\ work' = IF f = Top THEN work
                               ELSE [level |-> f + 1, index |-> i, isLocal |-> TRUE, name |-> n]
                    /\ l \in LocalType /\ l.name = c.locals[i].name /\ l.depth = c.locals[i].depth
                    /\ l.read = TRUE /\ l.isCaptured = (c.locals[i].isCaptured \/ f # Top)
                    /\ Fits([c EXCEPT !.locals[i] = l])
            \/ /\ \A f \in 1..Top : Lacks(compilers[f], n)
               /\ Finish(e, <<Instruction("OP_GET_GLOBAL", 0, n)>>)
               /\ UNCHANGED <<compilers, work>>
<1>1. /\ Top \in Nat \ {0} /\ current = compilers[Top] /\ DOMAIN compilers = 1..Top
      /\ \A f \in 1..Top : Fits(compilers[f])
  BY Unfold DEF Bounded
<1>2. \A f \in 1..Top : /\ DOMAIN compilers[f].locals = 1..Len(compilers[f].locals)
                        /\ \A i \in 1..Len(compilers[f].locals) : compilers[f].locals[i] \in LocalType
  <2> SUFFICES ASSUME NEW f \in 1..Top
               PROVE  /\ DOMAIN compilers[f].locals = 1..Len(compilers[f].locals)
                      /\ \A i \in 1..Len(compilers[f].locals) : compilers[f].locals[i] \in LocalType
    OBVIOUS
  <2>1. compilers[f] \in CompilerType
    BY <1>1 DEF Fits
  <2> QED BY <2>1, Parts
<1> DEFINE L(f, i) == IF f = Top THEN CapturedOnlyRead(compilers[f].locals[i]) ELSE Captured(compilers[f].locals[i])
<1>3. ASSUME NEW f \in 1..Top, NEW i \in 1..Len(compilers[f].locals)
      PROVE  /\ L(f, i) \in LocalType /\ L(f, i).name = compilers[f].locals[i].name
             /\ L(f, i).depth = compilers[f].locals[i].depth /\ L(f, i).read = TRUE
             /\ L(f, i).isCaptured = (compilers[f].locals[i].isCaptured \/ f # Top)
             /\ Fits([compilers[f] EXCEPT !.locals[i] = L(f, i)])
  <2>1. compilers[f].locals[i] \in LocalType
    BY <1>2
  <2>2. /\ L(f, i) \in LocalType /\ L(f, i).name = compilers[f].locals[i].name
        /\ L(f, i).depth = compilers[f].locals[i].depth /\ L(f, i).read = TRUE
        /\ L(f, i).isCaptured = IF f = Top THEN compilers[f].locals[i].isCaptured ELSE TRUE
    BY <2>1, LocalParts
  <2>3. compilers[f].locals[i].isCaptured \in BOOLEAN
    BY <2>1 DEF LocalType
  <2>4. L(f, i).isCaptured = (compilers[f].locals[i].isCaptured \/ f # Top)
    BY <2>2, <2>3
  <2>5. Fits([compilers[f] EXCEPT !.locals[i] = L(f, i)])
    <3>1. Fits(compilers[f]) /\ (compilers[f].locals[i].isCaptured => L(f, i).isCaptured)
      BY <1>1, <2>4
    <3> HIDE DEF L
    <3> QED BY <2>2, <3>1, TouchFacts
  <2> QED BY <2>2, <2>4, <2>5
<1>4. todo' = rest
  BY DEF NamedVariable
<1>5. CASE \E i \in DOMAIN current.locals :
             /\ Resolves(current, n, i)
             /\ compilers' = [compilers EXCEPT ![Top].locals[i].read = TRUE]
             /\ Finish(First(e, OwnInitializer(current.locals[i])), <<Instruction("OP_GET_LOCAL", i, n)>>)
             /\ UNCHANGED work
  <2>1. PICK i \in DOMAIN current.locals :
             /\ Resolves(current, n, i)
             /\ compilers' = [compilers EXCEPT ![Top].locals[i].read = TRUE]
             /\ Finish(First(e, OwnInitializer(current.locals[i])), <<Instruction("OP_GET_LOCAL", i, n)>>)
             /\ UNCHANGED work
    BY <1>5
  <2>2. Top \in 1..Top /\ i \in 1..Len(compilers[Top].locals)
    BY <1>1, <1>2
  <2>3. Found(n, Top, i)
    BY <1>1, <2>1 DEF Found
  <2>4. compilers' = [compilers EXCEPT ![Top] = [compilers[Top] EXCEPT !.locals[i] = L(Top, i)]]
    BY <2>1, SMTT(40) DEF CapturedOnlyRead
  <2> HIDE DEF L
  <2> QED BY <1>1, <1>3, <1>4, <2>1, <2>2, <2>3, <2>4 DEF L
<1>6. CASE \E f \in 1..(Top - 1) : \E i \in DOMAIN compilers[f].locals :
             /\ \A g \in (f + 1)..Top : Lacks(compilers[g], n)
             /\ Resolves(compilers[f], n, i)
             /\ compilers' = [compilers EXCEPT ![f].locals[i] = Captured(@)]
             /\ Finish(First(e, OwnInitializer(compilers[f].locals[i])), <<>>)
             /\ work' = [level |-> f + 1, index |-> i, isLocal |-> TRUE, name |-> n]
  <2>0. PICK f \in 1..(Top - 1) : \E i \in DOMAIN compilers[f].locals :
             /\ \A g \in (f + 1)..Top : Lacks(compilers[g], n)
             /\ Resolves(compilers[f], n, i)
             /\ compilers' = [compilers EXCEPT ![f].locals[i] = Captured(@)]
             /\ Finish(First(e, OwnInitializer(compilers[f].locals[i])), <<>>)
             /\ work' = [level |-> f + 1, index |-> i, isLocal |-> TRUE, name |-> n]
    BY <1>6
  <2>1. PICK i \in DOMAIN compilers[f].locals :
             /\ \A g \in (f + 1)..Top : Lacks(compilers[g], n)
             /\ Resolves(compilers[f], n, i)
             /\ compilers' = [compilers EXCEPT ![f].locals[i] = Captured(@)]
             /\ Finish(First(e, OwnInitializer(compilers[f].locals[i])), <<>>)
             /\ work' = [level |-> f + 1, index |-> i, isLocal |-> TRUE, name |-> n]
    BY <2>0
  <2>2. f \in 1..Top /\ f # Top
    BY <1>1
  <2>3. i \in 1..Len(compilers[f].locals)
    BY <1>2, <2>2
  <2>4. Found(n, f, i)
    BY <2>1 DEF Found
  <2>5. compilers' = [compilers EXCEPT ![f] = [compilers[f] EXCEPT !.locals[i] = L(f, i)]]
    BY <2>1, <2>2
  <2> HIDE DEF L
  <2> QED BY <1>3, <1>4, <2>1, <2>2, <2>3, <2>4, <2>5 DEF L
<1>7. CASE /\ \A f \in 1..Top : Lacks(compilers[f], n)
           /\ Finish(e, <<Instruction("OP_GET_GLOBAL", 0, n)>>)
           /\ UNCHANGED <<compilers, work>>
  BY <1>4, <1>7
<1> QED BY <1>5, <1>6, <1>7 DEF NamedVariable

\* A use of a name changes no name and no block.
LEMMA AcceptedNamed ==
  ASSUME LexicalInv, ~hadError, NEW n, NEW rest, NEW e, NamedVariable(n, rest, e), classes' = classes,
         pc' = "initializer" => pc = "initializer", SupersDue', NoSuperYet'
  PROVE  Accepted'
<1>1. /\ IInv /\ Accepted /\ Top \in Nat \ {0} /\ Top \in 1..Top
      /\ \A f \in 1..Top : /\ Fits(compilers[f]) /\ Plain(compilers[f])
                           /\ Accepts(f, compilers[f], Waits(f), Supered(f))
                           /\ DOMAIN compilers[f].locals = 1..Len(compilers[f].locals)
  BY Open
<1>2. ASSUME NEW f \in 1..Top, NEW i \in 1..Len(compilers[f].locals), NEW l,
             l.name = compilers[f].locals[i].name, l.depth = compilers[f].locals[i].depth,
             compilers' = [compilers EXCEPT ![f] = [compilers[f] EXCEPT !.locals[i] = l]],
             Fits([compilers[f] EXCEPT !.locals[i] = l])
      PROVE  Accepted'
  <2> DEFINE c == compilers[f]
             d == [c EXCEPT !.locals[i] = l]
  <2>1. /\ Len(d.locals) = Len(c.locals) /\ DOMAIN d.locals = 1..Len(c.locals)
        /\ \A j \in 1..Len(c.locals) : d.locals[j] = IF j = i THEN l ELSE c.locals[j]
        /\ d.scopeDepth = c.scopeDepth /\ d.upvalues = c.upvalues
    BY <1>1, TouchShape
  <2>2. Top' = Top /\ \A g \in 1..Top : compilers'[g] = IF g = f THEN d ELSE compilers[g]
    <3>1. Fits(d) /\ compilers' = [compilers EXCEPT ![f] = d]
      BY <1>2
    <3> HIDE DEF d
    <3> QED BY ONLY <1>1, <3>1, f \in 1..Top, EditView
  <2> HIDE DEF d
  <2>3. Alike(c, d)
    <3>1. \A j \in 1..Len(c.locals) : d.locals[j].name = c.locals[j].name /\ BlockOf(d, j) = BlockOf(c, j)
      BY <1>2, <2>1 DEF BlockOf
    <3>2. DOMAIN c.locals = 1..Len(c.locals) /\ Len(c.locals) \in Nat \ {0}
      BY <1>1 DEF Plain
    <3> QED BY <2>1, <3>1, <3>2 DEF Alike
  <2>4. \A g \in 1..Top : (Waits(g)' => Waits(g)) /\ (Supered(g)' <=> Supered(g))
    BY <2>2, ClassesKept
  <2>5. Accepts(f, c, Waits(f), Supered(f)') /\ (Waits(f)' => Waits(f))
    <3> HIDE DEF Waits, Supered
    <3> QED BY <1>1, <2>4 DEF Accepts
  <2>6. Accepts(f, d, Waits(f)', Supered(f)')
    <3>1. DOMAIN c.locals = 1..Len(c.locals)
      BY <1>1
    <3> HIDE DEF c
    <3> QED BY <2>1, <2>3, <2>5, <3>1, AcceptsAlike
  <2> HIDE DEF c
  <2> QED BY <1>1, <2>2, <2>4, <2>6, AcceptedEdit
<1>3. ASSUME compilers' = compilers PROVE Accepted'
  <2>1. Top' = Top /\ \A g \in 1..Top : compilers'[g] = compilers[g]
    BY <1>3 DEF Top
  <2>2. \A g \in 1..Top : (Waits(g)' => Waits(g)) /\ (Supered(g)' <=> Supered(g))
    BY <2>1, ClassesKept
  <2>3. \A g \in 1..Top : Accepts(g, compilers'[g], Waits(g)', Supered(g)')
    <3> HIDE DEF Waits, Supered
    <3> QED BY <1>1, <2>1, <2>2 DEF Accepts
  <2> QED BY <2>1, <2>3 DEF Accepted, SupersDue, NoSuperYet
<1> QED BY <1>1, <1>2, <1>3, NamedView, ZenonT(60)

\* What markInitialized does to the last local when it is of the innermost block.
LEMMA MarkAlike ==
  ASSUME NEW c, Fits(c), Scoped(c), EndsHere(c)
  PROVE  /\ Alike(c, MarkInitialized(c)) /\ MarkInitialized(c).upvalues = c.upvalues
         /\ BlocksOf(MarkInitialized(c)) = [BlocksOf(c) EXCEPT ![c.scopeDepth + 1] = Promise!Readied(@)]
         /\ Settled(c) => BlocksOf(MarkInitialized(c)) = BlocksOf(c)
<1> DEFINE e == MarkInitialized(c)
           x == Len(c.locals)
           s == c.scopeDepth
<1>1. Plain(c)
  BY ArePlain
<1>2. /\ Distinct(c) /\ x \in Nat \ {0} /\ DOMAIN c.locals = 1..x /\ s \in Nat
      /\ \A i \in 1..x : c.locals[i].depth = -1 => i = x /\ s > 0
  BY <1>1 DEF Plain, Fits, Ordered
<1>3. CASE s = 0
  <2>1. e = c
    BY <1>3 DEF MarkInitialized
  <2>2. Alike(c, c)
    BY <1>2 DEF Alike
  <2>3. BlocksOf(c) = [b \in 1..1 |-> BlockAt(c, b - 1)]
    BY <1>3 DEF BlocksOf
  <2> DEFINE B == BlockAt(c, 0)
  <2>4. BlocksOf(c)[1] = B /\ DOMAIN BlocksOf(c) = 1..1
    BY <2>3
  <2>5. Promise!Readied(B) = B
    <3>1. ASSUME NEW m \in DOMAIN B PROVE [B[m] EXCEPT !.ready = TRUE] = B[m]
      <4>1. PICK i \in DOMAIN c.locals : BlockOf(c, i) = 0 /\ c.locals[i].name = m
        BY <1>2, BlockIs
      <4>2. B[m] = Flags(c.locals[i])
        BY <1>2, <4>1, BlockIs
      <4>3. c.locals[i].depth # -1
        BY <1>2, <1>3, <4>1
      <4>4. Flags(c.locals[i]) = [ready |-> TRUE, read |-> c.locals[i].read, captured |-> c.locals[i].isCaptured]
        <5>1. (c.locals[i].depth # -1) = TRUE
          BY <4>3
        <5> QED BY <5>1, Zenon DEF Flags
      <4> QED BY <4>2, <4>4, ReadiedFlags
    <3>2. B = [m \in DOMAIN B |-> B[m]]
      BY <1>2, BlockIs
    <3> HIDE DEF B
    <3> QED BY <3>1, <3>2 DEF Promise!Readied
  <2>6. [BlocksOf(c) EXCEPT ![1] = Promise!Readied(@)] = BlocksOf(c)
    <3> HIDE DEF B
    <3> QED BY <2>3, <2>4, <2>5
  <2> QED BY <1>3, <2>1, <2>2, <2>6
<1>4. CASE s # 0
  <2>1. s > 0
    BY <1>2, <1>4
  <2>2. /\ Len(e.locals) = x /\ DOMAIN e.locals = 1..x
        /\ \A i \in 1..x : /\ e.locals[i].name = c.locals[i].name /\ e.locals[i].read = c.locals[i].read
                           /\ e.locals[i].isCaptured = c.locals[i].isCaptured
                           /\ i # x => e.locals[i] = c.locals[i]
        /\ e.locals[x].depth = s /\ e.scopeDepth = s /\ e.upvalues = c.upvalues
    BY <2>1, MarkShape
  <2> HIDE DEF e
  <2>3. \A i \in 1..x : i # x => e.locals[i].depth = c.locals[i].depth /\ c.locals[i].depth # -1
    BY <1>2, <2>2
  <2>4. /\ BlocksOf(e) = [BlocksOf(c) EXCEPT ![s + 1] = Promise!Readied(@)]
        /\ \A i \in 1..x : BlockOf(e, i) = BlockOf(c, i)
    BY <1>1, <2>2, <2>3, MarkedBlocks
  <2>5. Alike(c, e)
    BY <1>2, <2>2, <2>4 DEF Alike
  <2>6. Settled(c) => BlocksOf(e) = BlocksOf(c)
    <3> SUFFICES ASSUME Settled(c) PROVE BlocksOf(e) = BlocksOf(c)
      OBVIOUS
    <3>1. c.locals[x].depth = s
      BY <1>2 DEF Settled, EndsHere, BlockOf
    <3>2. \A i \in 1..x : Flags(e.locals[i]) = Flags(c.locals[i])
      <4> SUFFICES ASSUME NEW i \in 1..x PROVE Flags(e.locals[i]) = Flags(c.locals[i])
        OBVIOUS
      <4>1. e.locals[i].depth = c.locals[i].depth
        BY <2>2, <2>3, <3>1
      <4> QED BY <2>2, <4>1 DEF Flags
    <3> QED BY <1>2, <2>2, <2>4, <3>2, UnchangedBlocks
  <2> QED BY <2>2, <2>4, <2>5, <2>6 DEF e
<1> QED BY <1>3, <1>4

\* A variable, a function or a class is declared where that is allowed.
LEMMA Declares ==
  ASSUME NEW c, Fits(c), Settled(c), NEW f, Accepts(f, c, FALSE, FALSE), NEW n \in Name,
         DeclareError(c, n) = NoError
  PROVE  LET e == DeclareVariable(c, n)
             m == MarkInitialized(e)
             s == c.scopeDepth
         IN /\ Accepts(f, e, TRUE, FALSE) /\ Accepts(f, m, TRUE, FALSE)
            /\ e.upvalues = c.upvalues /\ m.upvalues = c.upvalues
            /\ e.scopeDepth = s /\ m.scopeDepth = s
            /\ s = 0 => e = c /\ m = c
            /\ s # 0 => /\ n \notin DOMAIN BlockAt(c, s)
                        /\ BlocksOf(e) = [BlocksOf(c) EXCEPT ![s + 1] = Promise!Adding(@, n, FALSE)]
                        /\ BlocksOf(m) = [BlocksOf(c) EXCEPT ![s + 1] = Promise!Adding(@, n, TRUE)]
<1> DEFINE e == DeclareVariable(c, n)
           m == MarkInitialized(e)
           s == c.scopeDepth
           x == Len(c.locals) + 1
<1>1. Scoped(c) /\ Plain(c) /\ n # "super"
  BY ArePlain, ScopesAssumption DEF Accepts
<1>2. /\ Distinct(c) /\ Len(c.locals) \in Nat \ {0} /\ DOMAIN c.locals = 1..Len(c.locals) /\ s \in Nat
      /\ \A i \in 1..Len(c.locals) : BlockOf(c, i) \in 0..s
  BY <1>1 DEF Plain
<1>3. CASE s = 0
  <2>1. e = c /\ m = c
    BY <1>3 DEF DeclareVariable, MarkInitialized
  <2>2. EndsHere(c)
    BY <1>2, <1>3 DEF EndsHere
  <2>3. Accepts(f, c, TRUE, FALSE)
    BY <2>2 DEF Accepts
  <2> HIDE DEF e, m
  <2> QED BY <1>3, <2>1, <2>3 DEF e, m
<1>4. CASE s # 0
  <2>1. s > 0 /\ e = AddLocal(c, n) /\ ~Clashes(c, n) /\ Len(c.locals) # UINT8_COUNT
    BY <1>2, <1>4 DEF DeclareVariable, DeclareError, NoError, Report
  <2>2. n \notin DOMAIN BlockAt(c, s)
    BY <1>1, <2>1, ClashIs
  <2>3. /\ Len(e.locals) = x /\ DOMAIN e.locals = 1..x
        /\ \A i \in 1..Len(c.locals) : e.locals[i] = c.locals[i]
        /\ e.locals[x] = Local(n, -1) /\ e.scopeDepth = s /\ e.upvalues = c.upvalues
    BY <2>1, AddShape
  <2>4. Fits(e)
    BY <2>1, AddFacts
  <2> HIDE DEF e
  <2>5. /\ Len(m.locals) = x /\ DOMAIN m.locals = 1..x
        /\ \A i \in 1..x : i # x => m.locals[i] = e.locals[i]
        /\ m.locals[x] = [e.locals[x] EXCEPT !.depth = s] /\ m.scopeDepth = s /\ m.upvalues = c.upvalues
    BY <2>1, <2>3, <2>4, MarkShape
  <2>6. m.locals[x] = Local(n, s) /\ \A i \in 1..Len(c.locals) : m.locals[i] = c.locals[i]
    <3>1. \A i \in 1..Len(c.locals) : i # x /\ i \in 1..x
      BY <1>2
    <3> HIDE DEF m
    <3> QED BY <2>3, <2>5, <3>1, LocalMarked
  <2> HIDE DEF m
  <2>7. ASSUME NEW a, NEW d, d = -1 \/ d = s, Len(a.locals) = x, DOMAIN a.locals = 1..x,
               \A i \in 1..Len(c.locals) : a.locals[i] = c.locals[i],
               a.locals[x] = Local(n, d), a.scopeDepth = s, a.upvalues = c.upvalues
        PROVE  /\ Accepts(f, a, TRUE, FALSE)
               /\ BlocksOf(a) = [BlocksOf(c) EXCEPT ![s + 1] = Promise!Adding(@, n, d # -1)]
    <3>1. Scoped(a) /\ EndsHere(a) /\ a.locals[x].name = n /\ a.locals[1] = c.locals[1] /\ Distinct(a)
      BY <1>1, <2>1, <2>2, <2>7, AddScoped
    <3>2. BlocksOf(a) = [BlocksOf(c) EXCEPT ![s + 1] = Promise!Adding(@, n, d # -1)]
      BY <1>1, <2>2, <2>7, <3>1, AddedBlocks
    <3>3. \A i \in DOMAIN a.locals : a.locals[i].name # "super"
      <4> SUFFICES ASSUME NEW i \in 1..x PROVE a.locals[i].name # "super"
        BY <2>7
      <4>1. i = x \/ i \in 1..Len(c.locals)
        BY <1>2
      <4>2. i \in 1..Len(c.locals) => c.locals[i].name # "super"
        BY <1>2 DEF Accepts
      <4> QED BY <1>1, <2>7, <3>1, <4>1, <4>2
    <3> QED BY <2>7, <3>1, <3>2, <3>3 DEF Accepts
  <2>8. Accepts(f, e, TRUE, FALSE) /\ BlocksOf(e) = [BlocksOf(c) EXCEPT ![s + 1] = Promise!Adding(@, n, FALSE)]
    <3>1. /\ Accepts(f, e, TRUE, FALSE)
          /\ BlocksOf(e) = [BlocksOf(c) EXCEPT ![s + 1] = Promise!Adding(@, n, -1 # -1)]
      BY <2>3, <2>7
    <3>2. (-1 # -1) = FALSE
      OBVIOUS
    <3> QED BY <3>1, <3>2, Zenon
  <2>9. Accepts(f, m, TRUE, FALSE) /\ BlocksOf(m) = [BlocksOf(c) EXCEPT ![s + 1] = Promise!Adding(@, n, TRUE)]
    <3>1. /\ Accepts(f, m, TRUE, FALSE)
          /\ BlocksOf(m) = [BlocksOf(c) EXCEPT ![s + 1] = Promise!Adding(@, n, s # -1)]
      BY <2>5, <2>6, <2>7
    <3>2. (s # -1) = TRUE
      BY <1>2
    <3> QED BY <3>1, <3>2, Zenon
  <2> QED BY <1>4, <2>2, <2>3, <2>5, <2>8, <2>9 DEF e, m
<1> QED BY <1>3, <1>4

-----------------------------------------------------------------------------
(* The variables that upvalues stand for *)

\* Upvalues of f when those of the functions around it are g
UpvaluesFrom(g, f) ==
  [j \in DOMAIN compilers[f].upvalues |->
     LET u == compilers[f].upvalues[j]
     IN IF u.isLocal THEN LocalVariable(f - 1, u.index) ELSE g[f - 1][u.index]]

\* They are found from the script inward: an upvalue's variable is that of the
\* operand it was made from.
LEMMA UpvaluesAre ==
  ASSUME Top \in Nat \ {0}, compilers[1].upvalues = <<>>
  PROVE  UpvalueVariables = [f \in 1..Top |-> UpvaluesFrom(UpvalueVariables, f)]
<1> DEFINE Of(g, m) == g = [f \in 1..m |-> UpvaluesFrom(g, f)]
<1>1. \E g : Of(g, Top)
  <2> DEFINE Bad == {m \in Nat : ~ \E g : Of(g, m)}
  <2>1. SUFFICES ASSUME Bad # {} PROVE FALSE
    OBVIOUS
  <2>2. PICK m \in Bad : \A y \in Bad : m <= y
    BY <2>1, LeastNat
  <2>3. 0 \notin Bad
    <3>1. Of(<<>>, 0)
      OBVIOUS
    <3> QED BY <3>1
  <2>4. m \in Nat /\ m # 0 /\ m - 1 \in Nat /\ ~ (m <= m - 1)
    <3>1. m \in Nat /\ m # 0
      <4>1. Bad \subseteq Nat
        OBVIOUS
      <4> HIDE DEF Bad
      <4> QED BY <2>2, <2>3, <4>1
    <3> QED BY <3>1
  <2>5. PICK g : Of(g, m - 1)
    <3>1. m - 1 \notin Bad
      <4> HIDE DEF Bad
      <4> QED BY <2>2, <2>4
    <3> QED BY <2>4, <3>1
  <2> DEFINE h == [f \in 1..m |-> IF f = m THEN UpvaluesFrom(g, m) ELSE g[f]]
  <2>6. ASSUME NEW f \in 1..m PROVE UpvaluesFrom(h, f) = UpvaluesFrom(g, f)
    <3>1. ASSUME NEW j \in DOMAIN compilers[f].upvalues PROVE h[f - 1] = g[f - 1]
      <4>1. f # 1
        <5>1. DOMAIN <<>> = {}
          OBVIOUS
        <5> QED BY <5>1
      <4>2. f - 1 \in 1..m /\ f - 1 # m
        BY <2>4, <4>1
      <4> QED BY <4>2
    <3> HIDE DEF h
    <3> QED BY <3>1 DEF UpvaluesFrom
  <2>7. ASSUME NEW f \in 1..m PROVE h[f] = UpvaluesFrom(h, f)
    <3>1. h[f] = UpvaluesFrom(g, f)
      <4>1. CASE f = m
        BY <4>1
      <4>2. CASE f # m
        <5>1. f \in 1..m - 1
          BY <2>4, <4>2
        <5>2. g[f] = UpvaluesFrom(g, f)
          BY <2>5, <5>1
        <5> QED BY <4>2, <5>2
      <4> QED BY <4>1, <4>2
    <3> HIDE DEF h
    <3> QED BY <2>6, <3>1
  <2>8. Of(h, m)
    BY <2>7
  <2> QED BY <2>2, <2>8
<1>2. UpvalueVariables = CHOOSE g : Of(g, Top)
  BY DEF UpvalueVariables, UpvaluesFrom
<1> QED BY <1>1, <1>2

\* The variables of all upvalues, and where they lie
Resolved ==
  /\ DOMAIN UpvalueVariables = 1..Top
  /\ \A f \in 1..Top :
       /\ DOMAIN compilers[f].upvalues = 1..Len(compilers[f].upvalues)
       /\ Len(compilers[f].upvalues) \in Nat /\ Len(compilers[f].upvalues) <= UINT8_COUNT
       /\ UpvalueVariables[f] = [j \in 1..Len(compilers[f].upvalues) |->
                                   OperandVariable(f - 1, compilers[f].upvalues[j])]

\* In every state of the compiler, also after an error.
LEMMA UpvaluesResolved == IInv => Resolved
<1> SUFFICES ASSUME IInv PROVE Resolved
  OBVIOUS
<1>1. /\ Top \in Nat \ {0} /\ compilers[1].upvalues = <<>>
      /\ \A f \in 1..Top : Fits(compilers[f])
  BY Unfold DEF Bounded, Operands
<1>2. UpvalueVariables = [f \in 1..Top |-> UpvaluesFrom(UpvalueVariables, f)]
  BY <1>1, UpvaluesAre
<1>3. ASSUME NEW f \in 1..Top
      PROVE  /\ DOMAIN compilers[f].upvalues = 1..Len(compilers[f].upvalues)
             /\ Len(compilers[f].upvalues) \in Nat /\ Len(compilers[f].upvalues) <= UINT8_COUNT
  BY <1>1, Parts, SMTT(40) DEF Fits
<1> HIDE DEF UpvalueVariables
<1>4. ASSUME NEW f \in 1..Top
      PROVE  UpvalueVariables[f] = [j \in DOMAIN compilers[f].upvalues |->
                                      OperandVariable(f - 1, compilers[f].upvalues[j])]
  BY <1>2 DEF UpvaluesFrom, OperandVariable
<1>5. DOMAIN UpvalueVariables = 1..Top
  BY <1>2
<1> QED BY <1>3, <1>4, <1>5 DEF Resolved

\* And in the next one.
LEMMA UpvaluesResolvedNext == IInv' => Resolved'
BY UpvaluesResolved, PTL

\* An upvalue goes on standing for the same variable while the functions around
\* it keep their locals in their blocks.
LEMMA UpvaluesKept ==
  ASSUME IInv, IInv', NEW n \in Nat, n <= Top, n <= Top',
         \A f \in 1..n : /\ Len(compilers[f].upvalues) <= Len(compilers'[f].upvalues)
                         /\ \A j \in 1..Len(compilers[f].upvalues) :
                              compilers'[f].upvalues[j] = compilers[f].upvalues[j],
         \A f \in 1..n - 1 : \A i \in 1..Len(compilers[f].locals) : LocalVariable(f, i)' = LocalVariable(f, i)
  PROVE  \A f \in 1..n : \A j \in 1..Len(compilers[f].upvalues) : UpvalueVariables'[f][j] = UpvalueVariables[f][j]
<1> DEFINE Kept(f) == \A j \in 1..Len(compilers[f].upvalues) : UpvalueVariables'[f][j] = UpvalueVariables[f][j]
           Bad == {f \in 1..n : ~Kept(f)}
<1>1. Resolved /\ Resolved' /\ Top \in Nat /\ Top' \in Nat
  BY UpvaluesResolved, UpvaluesResolvedNext, Unfold DEF IInv, TypeOK
<1>2. compilers[1].upvalues = <<>>
  BY Unfold DEF Operands
<1>3. \A f \in 2..Top : \A j \in DOMAIN compilers[f].upvalues : Reaches(compilers[f - 1], compilers[f].upvalues[j])
  BY Unfold DEF Operands
<1>4. SUFFICES ASSUME Bad # {} PROVE FALSE
  OBVIOUS
<1>5. PICK f \in Bad : \A y \in Bad : f <= y
  <2>1. Bad \in SUBSET Nat
    OBVIOUS
  <2> HIDE DEF Bad
  <2> QED BY <1>4, <2>1, LeastNat
<1>6. f \in 1..n /\ f \in 1..Top /\ f \in 1..Top'
  BY <1>1
<1>7. f # 1
  <2> SUFFICES ASSUME f = 1 PROVE Kept(f)
    BY <1>5
  <2>1. Len(compilers[f].upvalues) = 0
    BY <1>2
  <2> QED BY <2>1
<1>8. f \in 2..Top /\ f - 1 \in 1..n - 1 /\ f - 1 \in 1..n /\ ~ (f <= f - 1) /\ f - 1 \in 1..Top
  BY <1>1, <1>6, <1>7
<1>9. Kept(f - 1)
  BY <1>5, <1>8
<1>10. ASSUME NEW j \in 1..Len(compilers[f].upvalues) PROVE UpvalueVariables'[f][j] = UpvalueVariables[f][j]
  <2>0. PICK u : u = compilers[f].upvalues[j]
    OBVIOUS
  <2>1. UpvalueVariables[f][j] = OperandVariable(f - 1, u)
    BY <1>1, <1>6, <2>0 DEF Resolved
  <2>2. j \in 1..Len(compilers'[f].upvalues) /\ compilers'[f].upvalues[j] = u
    <3>1. Len(compilers[f].upvalues) <= Len(compilers'[f].upvalues) /\ compilers'[f].upvalues[j] = u
      BY <1>6, <2>0
    <3>2. Len(compilers[f].upvalues) \in Nat /\ Len(compilers'[f].upvalues) \in Nat
      BY <1>1, <1>6 DEF Resolved
    <3> QED BY <3>1, <3>2
  <2>3. UpvalueVariables'[f][j]
          = IF u.isLocal THEN LocalVariable(f - 1, u.index)' ELSE UpvalueVariables'[f - 1][u.index]
    <3>1. UpvalueVariables'[f][j] = OperandVariable(f - 1, compilers[f].upvalues[j])'
      BY <1>1, <1>6, <2>2 DEF Resolved
    <3> QED BY <2>2, <3>1 DEF OperandVariable, LocalVariable
  <2>4. Reaches(compilers[f - 1], u)
    BY <1>1, <1>3, <1>6, <1>8, <2>0 DEF Resolved
  <2>5. CASE u.isLocal
    <3>1. u.index \in 1..Len(compilers[f - 1].locals)
      <4>1. compilers[f - 1] \in CompilerType
        BY <1>8, Unfold DEF Bounded, Fits
      <4> QED BY <2>4, <2>5, <4>1, Parts DEF Reaches
    <3>2. LocalVariable(f - 1, u.index)' = LocalVariable(f - 1, u.index)
      BY <1>8, <3>1
    <3> QED BY <2>1, <2>3, <2>5, <3>2 DEF OperandVariable
  <2>6. CASE ~u.isLocal
    <3>1. u.index \in 1..Len(compilers[f - 1].upvalues)
      BY <1>1, <1>8, <2>4, <2>6 DEF Reaches, Resolved
    <3>2. UpvalueVariables'[f - 1][u.index] = UpvalueVariables[f - 1][u.index]
      BY <1>9, <3>1
    <3> QED BY <2>1, <2>3, <2>6, <3>2 DEF OperandVariable
  <2> QED BY <2>5, <2>6
<1> QED BY <1>5, <1>10

\* What an operand means depends on nothing else.
LEMMA OperandKept ==
  ASSUME NEW f, NEW u, Reaches(compilers[f], u), DOMAIN compilers[f].locals = 1..Len(compilers[f].locals),
         DOMAIN compilers[f].upvalues = 1..Len(compilers[f].upvalues),
         \A i \in 1..Len(compilers[f].locals) : LocalVariable(f, i)' = LocalVariable(f, i),
         \A j \in 1..Len(compilers[f].upvalues) : UpvalueVariables'[f][j] = UpvalueVariables[f][j]
  PROVE  OperandVariable(f, u)' = OperandVariable(f, u)
<1>1. OperandVariable(f, u)' = IF u.isLocal THEN LocalVariable(f, u.index)' ELSE UpvalueVariables'[f][u.index]
  BY DEF OperandVariable, LocalVariable
<1>2. CASE u.isLocal
  <2>1. u.index \in 1..Len(compilers[f].locals)
    BY <1>2 DEF Reaches
  <2> QED BY <1>1, <1>2, <2>1 DEF OperandVariable
<1>3. CASE ~u.isLocal
  <2>1. u.index \in 1..Len(compilers[f].upvalues)
    BY <1>3 DEF Reaches
  <2> QED BY <1>1, <1>3, <2>1 DEF OperandVariable
<1> QED BY <1>2, <1>3

\* No upvalue is added to the outermost n functions.
LEMMA RowsKept ==
  ASSUME IInv, IInv', NEW n \in Nat, n <= Top, n <= Top',
         \A f \in 1..n : compilers'[f].upvalues = compilers[f].upvalues,
         \A f \in 1..n - 1 : Alike(compilers[f], compilers'[f])
  PROVE  \A f \in 1..n : UpvalueVariables'[f] = UpvalueVariables[f]
<1>1. Resolved /\ Resolved' /\ Top \in Nat /\ Top' \in Nat
  BY UpvaluesResolved, UpvaluesResolvedNext, Unfold DEF IInv, TypeOK
<1>2. ASSUME NEW f \in 1..n
      PROVE  /\ Len(compilers[f].upvalues) <= Len(compilers'[f].upvalues)
             /\ \A j \in 1..Len(compilers[f].upvalues) : compilers'[f].upvalues[j] = compilers[f].upvalues[j]
  <2>1. f \in 1..Top
    BY <1>1
  <2> QED BY <1>1, <2>1 DEF Resolved
<1>3. ASSUME NEW f \in 1..n - 1, NEW i \in 1..Len(compilers[f].locals)
      PROVE  LocalVariable(f, i)' = LocalVariable(f, i)
  <2>1. f \in 1..Top
    BY <1>1
  <2>2. DOMAIN compilers[f].locals = 1..Len(compilers[f].locals)
    <3>1. compilers[f] \in CompilerType
      BY <2>1, Unfold DEF Bounded, Fits
    <3> QED BY <3>1, Parts
  <2>3. compilers'[f].locals[i].name = compilers[f].locals[i].name /\ BlockOf(compilers'[f], i) = BlockOf(compilers[f], i)
    BY <2>2 DEF Alike
  <2> QED BY <2>3 DEF LocalVariable
<1>4. \A f \in 1..n : \A j \in 1..Len(compilers[f].upvalues) : UpvalueVariables'[f][j] = UpvalueVariables[f][j]
  BY <1>2, <1>3, UpvaluesKept
<1>5. ASSUME NEW f \in 1..n PROVE UpvalueVariables'[f] = UpvalueVariables[f]
  <2>1. f \in 1..Top /\ f \in 1..Top'
    BY <1>1
  <2>2. /\ UpvalueVariables[f] = [j \in 1..Len(compilers[f].upvalues) |-> UpvalueVariables[f][j]]
        /\ UpvalueVariables'[f] = [j \in 1..Len(compilers'[f].upvalues) |-> UpvalueVariables'[f][j]]
    BY <1>1, <2>1 DEF Resolved
  <2>3. compilers'[f].upvalues = compilers[f].upvalues
    OBVIOUS
  <2> QED BY <1>4, <2>2, <2>3
<1> QED BY <1>5

\* What functions capture when no upvalue is on its way.
CapturesNow == Captures = [f \in 1..Top |-> Range(UpvalueVariables[f])]

\* Captures, when resolveUpvalue is not on its way back.
LEMMA CapturesAre == work = NoWork /\ ~hadError => CapturesNow
BY DEF Captures, CapturesNow, Pending

\* The same after a step.
LEMMA CapturesAreNext == work' = NoWork /\ ~hadError' => CapturesNow'
BY DEF Captures, CapturesNow, Pending

\* A step that neither enters nor leaves a function nor adds an upvalue.
LEMMA CapturesKept ==
  ASSUME IInv, IInv', ~hadError, ~hadError', work = NoWork, work' = NoWork, Top' = Top,
         \A f \in 1..Top : compilers'[f].upvalues = compilers[f].upvalues,
         \A f \in 1..Top - 1 : Alike(compilers[f], compilers'[f])
  PROVE  Captures' = Captures
<1>1. Top \in Nat /\ Top <= Top /\ Top <= Top'
  BY Unfold
<1>2. \A f \in 1..Top : UpvalueVariables'[f] = UpvalueVariables[f]
  BY <1>1, RowsKept
<1>3. CapturesNow /\ CapturesNow'
  BY CapturesAre, CapturesAreNext
<1> QED BY <1>2, <1>3 DEF CapturesNow

\* Each upvalue of f stands for another variable, of a function around f.
Told(f) ==
  \A i, j \in 1..Len(compilers[f].upvalues) :
    /\ UpvalueVariables[f][i] = UpvalueVariables[f][j] => i = j
    /\ UpvalueVariables[f][i][1] \in 1..f - 1

\* Operands for the same variable are the same.
LEMMA OperandsDiffer ==
  ASSUME NEW f \in Nat \ {0}, Told(f), Plain(compilers[f]),
         DOMAIN compilers[f].upvalues = 1..Len(compilers[f].upvalues)
  PROVE  \A u, v : /\ Reaches(compilers[f], u) => OperandVariable(f, u)[1] \in 1..f
                   /\ /\ Reaches(compilers[f], u) /\ Reaches(compilers[f], v)
                      /\ u.isLocal \in BOOLEAN /\ v.isLocal \in BOOLEAN
                      /\ OperandVariable(f, u) = OperandVariable(f, v)
                      => Same(u, v)
<1>1. \A i, j \in DOMAIN compilers[f].locals : LocalVariable(f, i) = LocalVariable(f, j) => i = j
  <2> SUFFICES ASSUME NEW i \in DOMAIN compilers[f].locals, NEW j \in DOMAIN compilers[f].locals,
                      LocalVariable(f, i) = LocalVariable(f, j), i # j
               PROVE  FALSE
    OBVIOUS
  <2>1. /\ BlockOf(compilers[f], i) + 1 = BlockOf(compilers[f], j) + 1
        /\ compilers[f].locals[i].name = compilers[f].locals[j].name
    BY DEF LocalVariable
  <2>2. BlockOf(compilers[f], i) \in Int /\ BlockOf(compilers[f], j) \in Int
    BY DEF Plain
  <2>3. BlockOf(compilers[f], i) = BlockOf(compilers[f], j)
    BY <2>1, <2>2
  <2> QED BY <2>1, <2>3 DEF Distinct, Plain
<1>2. \A i : LocalVariable(f, i)[1] = f
  BY DEF LocalVariable
<1>3. ASSUME NEW u, Reaches(compilers[f], u)
      PROVE  /\ u.isLocal => OperandVariable(f, u) = LocalVariable(f, u.index) /\ u.index \in DOMAIN compilers[f].locals
             /\ ~u.isLocal => /\ OperandVariable(f, u) = UpvalueVariables[f][u.index]
                              /\ u.index \in 1..Len(compilers[f].upvalues)
                              /\ UpvalueVariables[f][u.index][1] \in 1..f - 1
  BY <1>3 DEF OperandVariable, Reaches, Told
<1>4. f \in 1..f /\ f \notin 1..f - 1 /\ \A x \in 1..f - 1 : x \in 1..f
  OBVIOUS
<1>5. ASSUME NEW u, Reaches(compilers[f], u) PROVE OperandVariable(f, u)[1] \in 1..f
  BY <1>2, <1>3, <1>4, <1>5
<1>6. ASSUME NEW u, NEW v, Reaches(compilers[f], u), Reaches(compilers[f], v),
             u.isLocal \in BOOLEAN, v.isLocal \in BOOLEAN, OperandVariable(f, u) = OperandVariable(f, v)
      PROVE  Same(u, v)
  <2>1. CASE u.isLocal /\ v.isLocal
    BY <1>1, <1>3, <1>6, <2>1 DEF Same
  <2>2. CASE ~u.isLocal /\ ~v.isLocal
    BY <1>3, <1>6, <2>2 DEF Same, Told
  <2>3. CASE u.isLocal /\ ~v.isLocal
    BY <1>2, <1>3, <1>4, <1>6, <2>3
  <2>4. CASE ~u.isLocal /\ v.isLocal
    BY <1>2, <1>3, <1>4, <1>6, <2>4
  <2> QED BY <2>1, <2>2, <2>3, <2>4
<1> QED BY <1>5, <1>6

\* So it is for every function while there is no error.
LEMMA AllTold ==
  ASSUME LexicalInv, ~hadError
  PROVE  \A f \in 1..Top : Told(f)
<1> DEFINE Bad == {f \in 1..Top : ~Told(f)}
<1>1. /\ Resolved /\ IInv /\ Top \in Nat \ {0}
      /\ \A f \in 1..Top : /\ Fits(compilers[f]) /\ Plain(compilers[f])
                           /\ Accepts(f, compilers[f], Waits(f), Supered(f))
  BY Open, UpvaluesResolved
<1>2. /\ compilers[1].upvalues = <<>>
      /\ \A f \in 2..Top : \A j \in DOMAIN compilers[f].upvalues : Reaches(compilers[f - 1], compilers[f].upvalues[j])
  BY <1>1, Unfold DEF Operands
<1>3. SUFFICES ASSUME Bad # {} PROVE FALSE
  OBVIOUS
<1>4. PICK f \in Bad : \A y \in Bad : f <= y
  <2>1. Bad \in SUBSET Nat
    OBVIOUS
  <2> HIDE DEF Bad
  <2> QED BY <1>3, <2>1, LeastNat
<1>5. f \in 1..Top /\ ~Told(f)
  BY <1>4
<1>6. f # 1
  <2> SUFFICES ASSUME f = 1 PROVE Told(f)
    BY <1>5
  <2>1. Len(compilers[f].upvalues) = 0
    BY <1>2
  <2> QED BY <2>1 DEF Told
<1>7. /\ f \in 2..Top /\ f - 1 \in 1..Top /\ ~ (f <= f - 1) /\ f - 1 \in Nat \ {0}
  BY <1>1, <1>5, <1>6
<1>8. Told(f - 1)
  BY <1>4, <1>7
<1> DEFINE u(j) == compilers[f].upvalues[j]
<1>9. \A j \in 1..Len(compilers[f].upvalues) :
        /\ Reaches(compilers[f - 1], u(j)) /\ u(j).isLocal \in BOOLEAN
        /\ UpvalueVariables[f][j] = OperandVariable(f - 1, u(j))
  <2> SUFFICES ASSUME NEW j \in 1..Len(compilers[f].upvalues)
               PROVE  /\ Reaches(compilers[f - 1], u(j)) /\ u(j).isLocal \in BOOLEAN
                      /\ UpvalueVariables[f][j] = OperandVariable(f - 1, u(j))
    OBVIOUS
  <2>1. /\ compilers[f].upvalues \in Seq(UpvalueType) /\ DOMAIN compilers[f].upvalues = 1..Len(compilers[f].upvalues)
    BY <1>1, <1>7, Parts DEF Fits
  <2>2. u(j) \in UpvalueType
    BY <2>1
  <2>3. UpvalueVariables[f][j] = OperandVariable(f - 1, u(j))
    BY <1>1, <1>5 DEF Resolved
  <2> QED BY <1>2, <1>7, <2>1, <2>2, <2>3 DEF UpvalueType
<1>10. \A x, y : /\ Reaches(compilers[f - 1], x) => OperandVariable(f - 1, x)[1] \in 1..f - 1
                 /\ /\ Reaches(compilers[f - 1], x) /\ Reaches(compilers[f - 1], y)
                    /\ x.isLocal \in BOOLEAN /\ y.isLocal \in BOOLEAN
                    /\ OperandVariable(f - 1, x) = OperandVariable(f - 1, y)
                    => Same(x, y)
  <2>1. Plain(compilers[f - 1]) /\ DOMAIN compilers[f - 1].upvalues = 1..Len(compilers[f - 1].upvalues)
    BY <1>1, <1>7 DEF Resolved
  <2> QED BY <1>7, <1>8, <2>1, OperandsDiffer
<1>11. \A i, j \in 1..Len(compilers[f].upvalues) : i # j => ~Same(u(i), u(j))
  BY <1>1, <1>5 DEF Accepts, Resolved
<1>12. Told(f)
  <2> SUFFICES ASSUME NEW i \in 1..Len(compilers[f].upvalues), NEW j \in 1..Len(compilers[f].upvalues)
               PROVE  /\ UpvalueVariables[f][i] = UpvalueVariables[f][j] => i = j
                      /\ UpvalueVariables[f][i][1] \in 1..f - 1
    BY DEF Told
  <2> HIDE DEF u
  <2> QED BY <1>9, <1>10, <1>11
<1> QED BY <1>5, <1>12

-----------------------------------------------------------------------------
(* The state in terms of Lexical *)

\* The blocks, and where the parser is in them
BlocksNow ==
  /\ Blocks = [f \in 1..Top |-> BlocksOf(compilers[f])] /\ DOMAIN Blocks = 1..Top
  /\ \A f \in 1..Top : /\ Blocks[f] = BlocksOf(compilers[f])
                       /\ DOMAIN Blocks[f] = 1..compilers[f].scopeDepth + 1
                       /\ \A b \in 1..compilers[f].scopeDepth + 1 : Blocks[f][b] = BlockAt(compilers[f], b - 1)
  /\ Promise!Fn = Top /\ Promise!Depth = current.scopeDepth + 1
  /\ Promise!Here = BlockAt(current, current.scopeDepth)
  /\ Promise!Global <=> Top = 1 /\ current.scopeDepth = 0

\* Blocks, read from the arrays of the functions.
LEMMA BlocksAre ==
  ASSUME IInv, ~hadError
  PROVE  BlocksNow
<1>1. /\ Top \in Nat \ {0} /\ Top \in 1..Top /\ current = compilers[Top]
      /\ \A f \in 1..Top : compilers[f].scopeDepth \in Nat
  <2>1. Top \in Nat \ {0} /\ current = compilers[Top] /\ \A f \in 1..Top : Fits(compilers[f])
    BY Unfold DEF Bounded
  <2>2. \A f \in 1..Top : compilers[f].scopeDepth \in Nat
    BY <2>1, Parts, ScopesAssumption DEF Fits
  <2> QED BY <2>1, <2>2
<1>2. Blocks = [f \in 1..Top |-> BlocksOf(compilers[f])]
  BY DEF Blocks
<1>3. \A f \in 1..Top : Blocks[f] = BlocksOf(compilers[f])
  BY <1>2
<1>4. ASSUME NEW f \in 1..Top
      PROVE  /\ DOMAIN Blocks[f] = 1..compilers[f].scopeDepth + 1 /\ Len(Blocks[f]) = compilers[f].scopeDepth + 1
             /\ \A b \in 1..compilers[f].scopeDepth + 1 : Blocks[f][b] = BlockAt(compilers[f], b - 1)
  <2>1. Blocks[f] = [b \in 1..compilers[f].scopeDepth + 1 |-> BlockAt(compilers[f], b - 1)]
    BY <1>3 DEF BlocksOf
  <2>2. PICK n \in Nat : n = compilers[f].scopeDepth + 1
    BY <1>1
  <2>3. PICK s : s = Blocks[f]
    OBVIOUS
  <2>4. s = [b \in 1..n |-> BlockAt(compilers[f], b - 1)]
    BY <2>1, <2>2, <2>3
  <2>5. s = [b \in 1..n |-> s[b]] /\ DOMAIN s = 1..n /\ \A b \in 1..n : s[b] = BlockAt(compilers[f], b - 1)
    BY <2>4
  <2>6. Len(s) = n
    BY <2>5, Listed
  <2> QED BY <2>2, <2>3, <2>5, <2>6
<1>5. Len(Blocks) = Top /\ DOMAIN Blocks = 1..Top
  <2>1. PICK s : s = Blocks
    OBVIOUS
  <2>2. s = [f \in 1..Top |-> BlocksOf(compilers[f])]
    BY <1>2, <2>1
  <2>3. s = [f \in 1..Top |-> s[f]] /\ DOMAIN s = 1..Top
    BY <2>2
  <2>4. Len(s) = Top
    BY <1>1, <2>3, Listed
  <2> QED BY <2>1, <2>3, <2>4
<1> HIDE DEF Blocks
<1>6. Promise!Fn = Top
  BY <1>5 DEF Promise!Fn
<1>7. Promise!Depth = current.scopeDepth + 1
  BY <1>1, <1>4, <1>6 DEF Promise!Depth
<1>8. Promise!Here = BlockAt(current, current.scopeDepth)
  <2>1. current.scopeDepth + 1 \in 1..current.scopeDepth + 1 /\ (current.scopeDepth + 1) - 1 = current.scopeDepth
    BY <1>1
  <2> QED BY <1>1, <1>4, <1>6, <1>7, <2>1 DEF Promise!Here
<1>9. Promise!Global <=> Top = 1 /\ current.scopeDepth = 0
  BY <1>1, <1>6, <1>7 DEF Promise!Global
<1> QED BY <1>2, <1>3, <1>4, <1>5, <1>6, <1>7, <1>8, <1>9 DEF BlocksNow

\* One function's blocks change.
LEMMA BlocksEdited ==
  ASSUME IInv, ~hadError, ~hadError', NEW f \in 1..Top, NEW d, Top' = Top,
         \A g \in 1..Top : compilers'[g] = IF g = f THEN d ELSE compilers[g]
  PROVE  Blocks' = [Blocks EXCEPT ![f] = BlocksOf(d)]
<1>1. Blocks' = [g \in 1..Top |-> BlocksOf(compilers'[g])]
  BY DEF Blocks
<1>2. BlocksNow
  BY BlocksAre
<1>3. [Blocks EXCEPT ![f] = BlocksOf(d)] = [g \in 1..Top |-> IF g = f THEN BlocksOf(d) ELSE BlocksOf(compilers[g])]
  BY <1>2 DEF BlocksNow
<1> QED BY <1>1, <1>3

\* The classes, and the places of their superclasses
ClassesNow ==
  Classes = [k \in 1..Len(classes) |-> [name |-> classes[k].name, super |-> SuperPlace(classes[k])]]

\* Classes, read from the chain of ClassCompilers.
LEMMA ClassesAre ==
  ASSUME IInv, ~hadError
  PROVE  ClassesNow /\ Len(Classes) = Len(classes) /\ (Classes = <<>> <=> classes = <<>>)
         /\ Last(Classes) = Classes[Len(classes)] /\ Len(classes) \in Nat
         /\ \A k \in 1..Len(classes) : Classes[k] = [name |-> classes[k].name, super |-> SuperPlace(classes[k])]
<1>1. DOMAIN classes = 1..Len(classes) /\ Len(classes) \in Nat /\ classes \in Seq(ClassType)
  BY ClassFacts
<1>2. ClassesNow
  BY <1>1 DEF Classes, ClassesNow
<1>3. PICK s : s = Classes
  OBVIOUS
<1>4. s = [k \in 1..Len(classes) |-> s[k]]
  BY <1>2, <1>3 DEF ClassesNow
<1>5. Len(s) = Len(classes) /\ s \in Seq({s[k] : k \in 1..Len(classes)})
  BY <1>1, <1>4, Listed
<1>6. s = <<>> <=> Len(s) = 0
  <2> DEFINE S == {s[k] : k \in 1..Len(classes)}
  <2>1. s \in Seq(S)
    BY <1>5
  <2> HIDE DEF S
  <2> QED BY <2>1
<1>7. classes = <<>> <=> Len(classes) = 0
  <2> HIDE DEF ClassType
  <2> QED BY <1>1
<1>8. Last(s) = s[Len(s)]
  BY DEF Last
<1>9. \A k \in 1..Len(classes) : s[k] = [name |-> classes[k].name, super |-> SuperPlace(classes[k])]
  BY <1>2, <1>3 DEF ClassesNow
<1> HIDE DEF Classes
<1> QED BY <1>1, <1>2, <1>3, <1>5, <1>6, <1>7, <1>8, <1>9

\* The classes keep their places.
LEMMA ClassesSame ==
  ASSUME ~hadError, ~hadError', classes' = classes,
         \A k \in DOMAIN classes : classes[k].hasSuperclass =>
           compilers'[classes[k].fn].scopeDepth = compilers[classes[k].fn].scopeDepth
  PROVE  Classes' = Classes
<1>1. Classes' = [k \in DOMAIN classes |-> [name |-> classes[k].name, super |-> SuperPlace(classes[k])']]
  BY DEF Classes, SuperPlace
<1>2. ASSUME NEW k \in DOMAIN classes PROVE SuperPlace(classes[k])' = SuperPlace(classes[k])
  <2>1. PICK c : c = classes[k]
    OBVIOUS
  <2>2. c.hasSuperclass => compilers'[c.fn].scopeDepth = compilers[c.fn].scopeDepth
    BY <2>1
  <2>3. SuperPlace(classes[k])' = IF c.hasSuperclass THEN <<c.fn, compilers'[c.fn].scopeDepth + 1>> ELSE <<0, 0>>
    BY <2>1 DEF SuperPlace
  <2> QED BY <2>1, <2>2, <2>3 DEF SuperPlace
<1>3. Classes = [k \in DOMAIN classes |-> [name |-> classes[k].name, super |-> SuperPlace(classes[k])]]
  BY DEF Classes
<1> QED BY <1>1, <1>2, <1>3

\* A step that emits nothing decides nothing.
LEMMA NothingSaid ==
  ASSUME ~hadError', work' = NoWork, emitted' = <<>>
  PROVE  Answer' = {}
<1>1. Answer' = {Means(emitted[k])' : k \in DOMAIN emitted'}
  BY DEF Answer
<1>2. DOMAIN emitted' = {}
  OBVIOUS
<1> QED BY <1>1, <1>2

\* What Finish means when it reports nothing, and when it reports an error.
LEMMA Finished ==
  ASSUME ~hadError, NEW e, NEW code, Finish(e, code), hadError \in BOOLEAN
  PROVE  /\ ~hadError' => e = NoError /\ emitted' = code
         /\ hadError' => e # NoError /\ emitted' = <<Instruction(e.rule, 0, e.name)>>
BY DEF Finish

\* A step that changes the blocks of the function being compiled, no others
LEMMA TopEdited ==
  ASSUME LexicalInv, IInv', ~hadError, ~hadError', work = NoWork, work' = NoWork,
         NEW d, Fits(d), compilers' = With(d), d.upvalues = current.upvalues
  PROVE  /\ Blocks' = [Blocks EXCEPT ![Top] = BlocksOf(d)] /\ BlocksNow
         /\ Captures' = Captures /\ (emitted' = <<>> => Answer' = {})
         /\ Top' = Top /\ Top \in 1..Top /\ \A g \in 1..Top : compilers'[g] = IF g = Top THEN d ELSE compilers[g]
<1>1. /\ IInv /\ Top \in Nat \ {0} /\ current = compilers[Top]
      /\ \A f \in 1..Top : Plain(compilers[f])
  BY Open
<1>2. /\ Top' = Top /\ Top \in 1..Top
      /\ \A g \in 1..Top : compilers'[g] = IF g = Top THEN d ELSE compilers[g]
  BY <1>1, TopKept
<1>3. Blocks' = [Blocks EXCEPT ![Top] = BlocksOf(d)] /\ BlocksNow
  BY <1>1, <1>2, BlocksEdited, BlocksAre
<1>4. Captures' = Captures
  <2>1. \A f \in 1..Top : compilers'[f].upvalues = compilers[f].upvalues
    BY <1>1, <1>2
  <2>2. \A f \in 1..Top - 1 : Alike(compilers[f], compilers'[f])
    <3> SUFFICES ASSUME NEW f \in 1..Top - 1 PROVE Alike(compilers[f], compilers'[f])
      OBVIOUS
    <3>1. compilers'[f] = compilers[f] /\ Plain(compilers[f])
      BY <1>1, <1>2
    <3> QED BY <3>1 DEF Alike, Plain
  <2> QED BY <1>1, <1>2, <2>1, <2>2, CapturesKept
<1>5. emitted' = <<>> => Answer' = {}
  BY NothingSaid
<1> HIDE DEF Captures, Answer, Blocks
<1> QED BY <1>2, <1>3, <1>4, <1>5

\* The same, when the classes keep their places
LEMMA PlainStep ==
  ASSUME LexicalInv, IInv', ~hadError, ~hadError', work = NoWork, work' = NoWork,
         classes' = classes, NEW d, Fits(d), compilers' = With(d), d.upvalues = current.upvalues,
         \/ d.scopeDepth = current.scopeDepth
         \/ \A k \in DOMAIN classes : classes[k].fn < Top
  PROVE  /\ Blocks' = [Blocks EXCEPT ![Top] = BlocksOf(d)] /\ BlocksNow
         /\ Captures' = Captures /\ Classes' = Classes /\ (emitted' = <<>> => Promise!Plain)
         /\ Top' = Top /\ Top \in 1..Top /\ \A g \in 1..Top : compilers'[g] = IF g = Top THEN d ELSE compilers[g]
<1>1. IInv /\ Top \in Nat \ {0} /\ current = compilers[Top]
  BY Open
<1>2. /\ Blocks' = [Blocks EXCEPT ![Top] = BlocksOf(d)] /\ BlocksNow
      /\ Captures' = Captures /\ (emitted' = <<>> => Answer' = {})
      /\ Top' = Top /\ Top \in 1..Top /\ \A g \in 1..Top : compilers'[g] = IF g = Top THEN d ELSE compilers[g]
  BY TopEdited
<1>3. Classes' = Classes
  <2>1. ASSUME NEW k \in DOMAIN classes
        PROVE  compilers'[classes[k].fn].scopeDepth = compilers[classes[k].fn].scopeDepth
    <3>1. classes[k].fn \in 1..Top
      BY <1>1, ClassFacts
    <3> QED BY <1>1, <1>2, <3>1
  <2> QED BY <2>1, ClassesSame
<1> HIDE DEF Captures, Classes, Answer, Blocks
<1> QED BY <1>2, <1>3 DEF Promise!Plain

-----------------------------------------------------------------------------
(* Declarations and blocks *)

\* Outside of class bodies, the function being compiled
LEMMA AtHome ==
  ASSUME LexicalInv, ~hadError, ~InClassBody
  PROVE  /\ IInv /\ Fits(current) /\ Plain(current) /\ Scoped(current)
         /\ current = compilers[Top] /\ Top \in 1..Top /\ Top \in Nat \ {0}
         /\ ~Supered(Top) /\ ~Classed(Top) /\ \A k \in DOMAIN classes : classes[k].fn < Top
         /\ pc # "initializer" => Accepts(Top, current, FALSE, FALSE) /\ Settled(current)
         /\ pc = "initializer" => Accepts(Top, current, TRUE, FALSE) /\ EndsHere(current)
         /\ current.scopeDepth = 0 => Top = 1
<1>1. /\ IInv /\ Fits(current) /\ Plain(current) /\ Scoped(current)
      /\ current = compilers[Top] /\ Top \in 1..Top /\ Top \in Nat \ {0}
      /\ Accepts(Top, current, Waits(Top), Supered(Top))
      /\ pc # "initializer" => Settled(current)
  BY Open
<1>2. \A k \in DOMAIN classes : classes[k].fn < Top
  BY <1>1, NoClassHere
<1>3. ~Supered(Top) /\ ~Classed(Top)
  BY <1>1, <1>2 DEF Supered, Classed
<1>4. Waits(Top) <=> pc = "initializer"
  BY DEF Waits
<1> HIDE DEF Waits, Supered
<1>5. pc # "initializer" => Accepts(Top, current, FALSE, FALSE)
  BY <1>1, <1>3, <1>4 DEF Accepts
<1>6. pc = "initializer" => Accepts(Top, current, TRUE, FALSE) /\ EndsHere(current)
  BY <1>1, <1>3, <1>4 DEF Accepts
<1>7. current.scopeDepth = 0 => Top = 1
  BY <1>1 DEF Accepts
<1> QED BY <1>1, <1>2, <1>3, <1>5, <1>6, <1>7

\* A step that changes the function being compiled, and no class
LEMMA AcceptedTop ==
  ASSUME LexicalInv, ~hadError, ~InClassBody, NEW d, Fits(d), compilers' = With(d), UNCHANGED <<classes, todo>>,
         NEW w \in BOOLEAN, pc' = "initializer" => w, Accepts(Top, d, w, FALSE),
         pc' \in {"statement", "initializer"}
  PROVE  Accepted'
<1>1. IInv /\ Accepted /\ SupersDue /\ NoSuperYet /\ ~Supered(Top) /\ Top \in 1..Top
  BY Open, AtHome
<1>2. Top' = Top /\ \A g \in 1..Top : compilers'[g] = IF g = Top THEN d ELSE compilers[g]
  BY <1>1, TopKept
<1>3. SupersDue' /\ NoSuperYet'
  BY <1>1 DEF SupersDue, NoSuperYet
<1>4. /\ \A g : (Supered(g)' <=> Supered(g))
      /\ \A g : g # Top => (Waits(g)' <=> Waits(g))
      /\ Waits(Top)' <=> pc' = "initializer"
  BY <1>2, ClassesKept
<1>5. PICK f \in 1..Top : f = Top
  BY <1>1
<1>6. (Waits(f)' => w) /\ ~Supered(f)'
  <2>1. Waits(f)' <=> pc' = "initializer"
    BY <1>2, <1>5 DEF Waits
  <2> HIDE DEF Waits, Supered
  <2> QED BY <1>1, <1>4, <1>5, <2>1
<1>7. Accepts(f, d, Waits(f)', Supered(f)')
  <2> HIDE DEF Waits, Supered
  <2> QED BY <1>5, <1>6 DEF Accepts
<1> QED BY <1>1, <1>2, <1>3, <1>4, <1>5, <1>7, AcceptedEdit

\* Lexical's declaration, as a change of the innermost block
LEMMA DeclaredIs ==
  ASSUME BlocksNow, NEW n, NEW ready, NEW B, Top \in 1..Top, current = compilers[Top],
         current.scopeDepth \in Nat, current.scopeDepth = 0 => Top = 1,
         current.scopeDepth = 0 => B = BlocksOf(current),
         current.scopeDepth # 0 =>
           B = [BlocksOf(current) EXCEPT ![current.scopeDepth + 1] = Promise!Adding(@, n, ready)]
  PROVE  [Blocks EXCEPT ![Top] = B] = Promise!Declared(n, ready)
<1>1. CASE current.scopeDepth = 0
  <2>1. Promise!Global /\ B = Blocks[Top]
    BY <1>1 DEF BlocksNow
  <2>2. Blocks = [f \in 1..Top |-> Blocks[f]]
    BY DEF BlocksNow
  <2> HIDE DEF Blocks
  <2>3. [Blocks EXCEPT ![Top] = B] = Blocks
    BY <2>1, <2>2
  <2> QED BY <2>1, <2>3 DEF Promise!Declared
<1>2. CASE current.scopeDepth # 0
  <2>1. /\ ~Promise!Global /\ Promise!Fn = Top /\ Promise!Depth = current.scopeDepth + 1
        /\ Blocks[Top] = BlocksOf(current)
    BY <1>2 DEF BlocksNow
  <2>2. Promise!Declared(n, ready)
          = [Blocks EXCEPT ![Top][current.scopeDepth + 1] = Promise!Adding(@, n, ready)]
    BY <2>1 DEF Promise!Declared
  <2> HIDE DEF Blocks
  <2>3. [Blocks EXCEPT ![Top][current.scopeDepth + 1] = Promise!Adding(@, n, ready)] = [Blocks EXCEPT ![Top] = B]
    BY <1>2, <2>1
  <2> QED BY <2>2, <2>3
<1> QED BY <1>1, <1>2

\* declareVariable and its error, of the function being compiled
LEMMA MayDeclareIs ==
  ASSUME LexicalInv, ~hadError, ~InClassBody, pc # "initializer", NEW n \in Name, DeclareError(current, n) = NoError
  PROVE  Promise!MayDeclare(n)
<1>1. BlocksNow
  BY Open, BlocksAre
<1>2. CASE current.scopeDepth = 0
  BY <1>1, <1>2, AtHome DEF Promise!MayDeclare, BlocksNow
<1>3. CASE current.scopeDepth # 0
  <2>1. n \notin DOMAIN BlockAt(current, current.scopeDepth)
    BY <1>3, AtHome, Declares
  <2> QED BY <1>1, <2>1 DEF Promise!MayDeclare, BlocksNow
<1> QED BY <1>2, <1>3

\* varDeclaration declares a variable that is not ready.
LEMMA VarDeclarationFollows ==
  ASSUME LexicalInv, IInv', ~hadError, ~hadError', NEW n \in Name, VarDeclaration(n)
  PROVE  Accepted' /\ Promise!Declare(n, FALSE)
<1> DEFINE d == DeclareVariable(current, n)
<1>1. /\ work = NoWork /\ work' = NoWork /\ pc = "statement" /\ ~InClassBody /\ compilers' = With(d)
      /\ UNCHANGED <<classes, todo>> /\ pc' = "initializer"
      /\ Finish(DeclareError(current, n), <<>>)
  BY DEF VarDeclaration, AtStatement, Ready
<1>2. /\ IInv /\ Fits(current) /\ Plain(current) /\ current = compilers[Top] /\ Top \in 1..Top
      /\ Accepts(Top, current, FALSE, FALSE) /\ Settled(current)
      /\ (current.scopeDepth = 0 => Top = 1) /\ hadError \in BOOLEAN
  BY <1>1, AtHome, Unfold DEF Control
<1>3. DeclareError(current, n) = NoError /\ emitted' = <<>>
  BY <1>1, <1>2, Finished
<1>4. /\ Accepts(Top, d, TRUE, FALSE) /\ d.upvalues = current.upvalues /\ d.scopeDepth = current.scopeDepth
      /\ current.scopeDepth = 0 => d = current
      /\ current.scopeDepth # 0 =>
           BlocksOf(d) = [BlocksOf(current) EXCEPT ![current.scopeDepth + 1] = Promise!Adding(@, n, FALSE)]
  BY <1>2, <1>3, Declares
<1>5. Fits(d)
  BY <1>2, DeclareFacts
<1>6. current.scopeDepth \in Nat
  BY <1>2 DEF Plain
<1> HIDE DEF d
<1>7. Accepted'
  BY <1>1, <1>4, <1>5, AcceptedTop
<1>8. Promise!Plain /\ Blocks' = [Blocks EXCEPT ![Top] = BlocksOf(d)] /\ BlocksNow
  BY <1>1, <1>3, <1>4, <1>5, PlainStep
<1>9. Blocks' = Promise!Declared(n, FALSE)
  <2>1. PICK B : B = BlocksOf(d)
    OBVIOUS
  <2>2. PICK r : r = FALSE
    OBVIOUS
  <2>3. /\ current.scopeDepth = 0 => B = BlocksOf(current)
        /\ current.scopeDepth # 0 =>
             B = [BlocksOf(current) EXCEPT ![current.scopeDepth + 1] = Promise!Adding(@, n, r)]
    BY <1>4, <2>1, <2>2, Zenon
  <2>4. [Blocks EXCEPT ![Top] = B] = Promise!Declared(n, r)
    BY <1>2, <1>6, <1>8, <2>3, DeclaredIs
  <2> QED BY <1>8, <2>1, <2>2, <2>4, Zenon
<1>10. Promise!MayDeclare(n)
  BY <1>1, <1>3, MayDeclareIs
<1> QED BY <1>7, <1>8, <1>9, <1>10 DEF Promise!Declare

\* defineVariable makes it ready, and with it the block.
LEMMA DefineFollows ==
  ASSUME LexicalInv, IInv', ~hadError, ~hadError', DefineVariable
  PROVE  Accepted' /\ Promise!Define
<1> DEFINE d == MarkInitialized(current)
<1>1. /\ work = NoWork /\ work' = NoWork /\ pc = "initializer" /\ compilers' = With(d)
      /\ UNCHANGED <<classes, todo>> /\ pc' = "statement" /\ Finish(NoError, <<>>)
  BY DEF DefineVariable, Ready
<1>2. IInv /\ NamesWait /\ ClassesNest /\ hadError \in BOOLEAN
  BY Open, Unfold DEF Control
<1>3. /\ Fits(current) /\ Plain(current) /\ Scoped(current) /\ current = compilers[Top] /\ Top \in 1..Top
      /\ Accepts(Top, current, Waits(Top), Supered(Top)) /\ DOMAIN compilers = 1..Top
  BY Open
<1>4. Waits(Top)
  BY <1>1 DEF Waits
<1>5. Accepts(Top, current, TRUE, Supered(Top)) /\ EndsHere(current)
  <2> HIDE DEF Waits, Supered
  <2> QED BY <1>3, <1>4 DEF Accepts
<1>6. /\ Alike(current, d) /\ d.upvalues = current.upvalues
      /\ BlocksOf(d) = [BlocksOf(current) EXCEPT ![current.scopeDepth + 1] = Promise!Readied(@)]
  BY <1>3, <1>5, MarkAlike
<1>7. Fits(d) /\ d.scopeDepth = current.scopeDepth
  BY <1>1, <1>2, <1>3, MarkFacts DEF NamesWait
<1>8. emitted' = <<>>
  BY <1>1, <1>2, Finished
<1> HIDE DEF d
<1>9. Accepted'
  <2>1. Top' = Top /\ \A g \in 1..Top : compilers'[g] = IF g = Top THEN d ELSE compilers[g]
    BY <1>1, <1>2, <1>7, TopKept
  <2>2. PICK f \in 1..Top : f = Top
    BY <1>3
  <2>3. SupersDue' /\ NoSuperYet' /\ Accepted
    BY <1>1, Open DEF SupersDue, NoSuperYet
  <2>4. /\ \A g : (Supered(g)' <=> Supered(g))
        /\ \A g : g # Top => (Waits(g)' <=> Waits(g))
    BY <1>1, <2>1, ClassesKept
  <2>5. ~Waits(f)'
    BY <1>1, <2>1, <2>2 DEF Waits
  <2>6. Accepts(f, d, Waits(f)', Supered(f)')
    <3>1. Accepts(f, current, TRUE, Supered(f)')
      <4> HIDE DEF Supered
      <4> QED BY <1>5, <2>2, <2>4 DEF Accepts
    <3>2. DOMAIN current.locals = 1..Len(current.locals)
      BY <1>3 DEF Plain
    <3> HIDE DEF Waits, Supered
    <3> QED BY <1>6, <3>1, <3>2, AcceptsAlike
  <2> QED BY <2>1, <2>2, <2>3, <2>4, <2>6, AcceptedEdit
<1>10. /\ Blocks' = [Blocks EXCEPT ![Top] = BlocksOf(d)] /\ BlocksNow /\ Promise!Plain
  BY <1>1, <1>6, <1>7, <1>8, PlainStep
<1>11. Blocks' = [Blocks EXCEPT ![Promise!Fn][Promise!Depth] = Promise!Readied(@)]
  <2>1. Promise!Fn = Top /\ Promise!Depth = current.scopeDepth + 1 /\ Blocks[Top] = BlocksOf(current)
    BY <1>3, <1>10 DEF BlocksNow
  <2> HIDE DEF Blocks
  <2> QED BY <1>6, <1>10, <2>1
<1> QED BY <1>9, <1>10, <1>11 DEF Promise!Define

\* beginScope
LEMMA BeginFollows ==
  ASSUME LexicalInv, IInv', ~hadError, ~hadError', BeginScope
  PROVE  Accepted' /\ Promise!Begin
<1> DEFINE d == [current EXCEPT !.scopeDepth = @ + 1]
<1>1. /\ work = NoWork /\ work' = NoWork /\ pc = "statement" /\ ~InClassBody /\ compilers' = With(d)
      /\ UNCHANGED <<classes, todo>> /\ pc' = "statement" /\ Finish(NoError, <<>>)
      /\ current.scopeDepth < MaxScope
  BY DEF BeginScope, AtStatement, Ready
<1>2. /\ IInv /\ Fits(current) /\ Plain(current) /\ Scoped(current) /\ current = compilers[Top] /\ Top \in 1..Top
      /\ Accepts(Top, current, FALSE, FALSE) /\ Settled(current)
      /\ \A k \in DOMAIN classes : classes[k].fn < Top
      /\ hadError \in BOOLEAN
  BY <1>1, AtHome, Unfold DEF Control
<1>3. emitted' = <<>>
  BY <1>1, <1>2, Finished
<1>4. /\ Fits(d) /\ d.upvalues = current.upvalues /\ d.scopeDepth = current.scopeDepth + 1
      /\ d.locals = current.locals /\ d.scopeDepth > 0
  BY <1>1, <1>2, DeeperFacts
<1> HIDE DEF d
<1>5. BlocksOf(d) = Append(BlocksOf(current), Promise!Block({})) /\ Distinct(d)
  BY <1>2, <1>4, DeeperBlocks
<1>6. Accepts(Top, d, FALSE, FALSE)
  <2>1. \A i \in DOMAIN current.locals : BlockOf(d, i) = BlockOf(current, i)
    BY <1>2, <1>4 DEF BlockOf, Settled, Plain
  <2>2. \A i \in 2..Len(current.locals) : i \in DOMAIN current.locals
    BY <1>2 DEF Plain
  <2>3. Scoped(d)
    BY <1>2, <1>4, <1>5, <2>1, <2>2 DEF Scoped, Distinct
  <2> QED BY <1>2, <1>4, <2>3 DEF Accepts
<1>7. Accepted'
  BY <1>1, <1>4, <1>6, AcceptedTop
<1>8. /\ Blocks' = [Blocks EXCEPT ![Top] = BlocksOf(d)] /\ BlocksNow /\ Promise!Plain
  BY <1>1, <1>2, <1>3, <1>4, PlainStep
<1>9. Blocks' = [Blocks EXCEPT ![Promise!Fn] = Append(@, Promise!Block({}))]
  <2>1. Promise!Fn = Top /\ Blocks[Top] = BlocksOf(current)
    BY <1>2, <1>8 DEF BlocksNow
  <2> HIDE DEF Blocks
  <2> QED BY <1>5, <1>8, <2>1
<1> QED BY <1>7, <1>8, <1>9 DEF Promise!Begin

\* What the compiler emits at the end of a block tells what Lexical says of it.
LEMMA EndAnswer ==
  ASSUME ~hadError', work' = NoWork, NEW c, Plain(c), Settled(c), NEW k \in 1..Len(c.locals),
         emitted' = EndScopeCode(c, k), current'.scopeDepth + 2 = c.scopeDepth + 1,
         \A i \in 1..k : c.locals[i].depth <= c.scopeDepth - 1,
         \A i \in k + 1..Len(c.locals) : c.locals[i].depth > c.scopeDepth - 1
  PROVE  Answer' = Ends(BlockAt(c, c.scopeDepth), <<Top', c.scopeDepth + 1>>)
<1> DEFINE p == <<Top', c.scopeDepth + 1>>
           R == Range(EndScopeCode(c, k))
<1>1. /\ Len(c.locals) \in Nat /\ DOMAIN c.locals = 1..Len(c.locals) /\ c.scopeDepth \in Nat
      /\ \A i \in 1..Len(c.locals) : /\ c.locals[i].depth \in Int /\ c.locals[i].depth <= c.scopeDepth
                                     /\ BlockOf(c, i) = c.locals[i].depth
  BY DEF Plain, BlockOf, Settled
<1>2. Answer' = {Means(x)' : x \in R}
  <2>1. Answer' = {Means(emitted[j])' : j \in DOMAIN emitted'}
    BY DEF Answer
  <2>2. Answer' = {Means(x)' : x \in Range(emitted')}
    BY <2>1 DEF Range
  <2> QED BY <2>2
<1>3. ASSUME NEW x \in R PROVE Means(x)' = Tells(x, p)
  <2>1. \E i \in k + 1..Len(c.locals) :
             \/ x = Instruction(EndOp(c.locals[i]), 0, c.locals[i].name)
             \/ /\ ~ c.locals[i].read /\ c.locals[i].name \notin SuperNames
                /\ x = Instruction("warning", 0, c.locals[i].name)
    BY <1>1, EndCode, SMTT(40)
  <2>2. x.op \in {"OP_POP", "OP_CLOSE_UPVALUE", "warning"}
    BY <2>1 DEF Instruction, EndOp
  <2> QED BY <2>2 DEF Means, Tells
<1>4. \A i \in 1..Len(c.locals) : i \in k + 1..Len(c.locals) <=> BlockOf(c, i) = c.scopeDepth
  <2> SUFFICES ASSUME NEW i \in 1..Len(c.locals)
               PROVE  i \in k + 1..Len(c.locals) <=> BlockOf(c, i) = c.scopeDepth
    OBVIOUS
  <2>1. i \in 1..k \/ i \in k + 1..Len(c.locals)
    BY <1>1
  <2>2. i \in k + 1..Len(c.locals) => i \notin 1..k
    BY <1>1
  <2>3. BlockOf(c, i) = c.locals[i].depth /\ c.locals[i].depth \in Int /\ c.locals[i].depth <= c.scopeDepth
    BY <1>1
  <2> QED BY <1>1, <2>1, <2>2, <2>3, SMTT(40)
<1>5. k \in 0..Len(c.locals)
  BY <1>1
<1>6. {Tells(x, p) : x \in R} = Ends(BlockAt(c, c.scopeDepth), p)
  BY <1>4, <1>5, EndTold
<1> HIDE DEF R, p
<1>7. {Means(x)' : x \in R} = {Tells(x, p) : x \in R}
  BY <1>3
<1> QED BY <1>2, <1>6, <1>7 DEF p

\* endScope, of a block of the function being compiled
LEMMA EndFacts ==
  ASSUME LexicalInv, ~hadError, pc # "initializer", current.scopeDepth > 0,
         NEW k \in 0..Len(current.locals), Keeps(current, k)
  PROVE  LET d == Ended(current, k)
         IN /\ Fits(d) /\ Settled(d) /\ d.upvalues = current.upvalues /\ d.scopeDepth = current.scopeDepth - 1
            /\ k \in 1..Len(current.locals) /\ Len(d.locals) = k /\ DOMAIN d.locals = 1..k
            /\ \A i \in 1..k : d.locals[i] = current.locals[i]
            /\ \A i \in 1..k : current.locals[i].depth <= current.scopeDepth - 1
            /\ \A i \in k + 1..Len(current.locals) : current.locals[i].depth > current.scopeDepth - 1
            /\ BlocksOf(d) = Front(BlocksOf(current)) /\ Scoped(d)
<1> DEFINE d == Ended(current, k)
<1>1. Fits(current) /\ Settled(current) /\ Plain(current) /\ Scoped(current)
  BY Open
<1>2. Fits(d) /\ Settled(d) /\ d.upvalues = current.upvalues /\ d.scopeDepth = current.scopeDepth - 1
  BY <1>1, EndedFacts
<1>3. /\ k \in 1..Len(current.locals) /\ Len(d.locals) = k /\ DOMAIN d.locals = 1..k
      /\ \A i \in 1..k : d.locals[i] = current.locals[i]
      /\ \A i \in 1..k : current.locals[i].depth <= current.scopeDepth - 1
      /\ \A i \in k + 1..Len(current.locals) : current.locals[i].depth > current.scopeDepth - 1
  BY <1>1, EndShape
<1> HIDE DEF d
<1>4. BlocksOf(d) = Front(BlocksOf(current)) /\ Distinct(d)
  BY <1>1, <1>2, <1>3, EndedBlocks
<1>5. Scoped(d)
  <2>1. \A i \in 2..k : i \in 1..k /\ i \in 2..Len(current.locals)
    BY <1>1, <1>3 DEF Plain
  <2>2. \A i \in 1..k : BlockOf(d, i) = BlockOf(current, i)
    BY <1>1, <1>3 DEF BlockOf, Settled
  <2> QED BY <1>1, <1>3, <1>4, <2>1, <2>2 DEF Scoped, Distinct
<1> QED BY <1>2, <1>3, <1>4, <1>5 DEF d

\* Lexical's words for the end of the innermost block
LEMMA EndedHere ==
  ASSUME BlocksNow
  PROVE  Promise!Ended(Promise!Here) = Ends(BlockAt(current, current.scopeDepth), <<Top, current.scopeDepth + 1>>)
<1>1. /\ Promise!Fn = Top /\ Promise!Depth = current.scopeDepth + 1
      /\ Promise!Here = BlockAt(current, current.scopeDepth)
  BY DEF BlocksNow
<1> DEFINE p == <<Top, current.scopeDepth + 1>>
<1>2. p[1] = Top /\ p[2] = current.scopeDepth + 1
  OBVIOUS
<1> HIDE DEF p
<1>3. Promise!Ended(Promise!Here) = Ends(BlockAt(current, current.scopeDepth), p)
  BY <1>1, <1>2 DEF Promise!Ended, Ends
<1> QED BY <1>3 DEF p

\* endScope, whether it ends a block or a class with a superclass
LEMMA EndsBlock ==
  ASSUME LexicalInv, IInv', ~hadError, ~hadError', work = NoWork, work' = NoWork, pc # "initializer",
         current.scopeDepth > 0, NEW k \in 0..Len(current.locals), Keeps(current, k),
         compilers' = With(Ended(current, k)), Finish(NoError, EndScopeCode(current, k))
  PROVE  /\ Blocks' = [Blocks EXCEPT ![Promise!Fn] = Promise!Front(@)] /\ Captures' = Captures
         /\ Answer' = Promise!Ended(Promise!Here) /\ BlocksNow
<1> DEFINE d == Ended(current, k)
<1>1. compilers' = With(d)
  OBVIOUS
<1>2. /\ IInv /\ Fits(current) /\ Plain(current) /\ current = compilers[Top] /\ Top \in 1..Top
      /\ Settled(current) /\ hadError \in BOOLEAN
  BY Open, Unfold DEF Control
<1>3. emitted' = EndScopeCode(current, k)
  BY <1>2, Finished
<1>4. current.scopeDepth \in Nat
  BY <1>2 DEF Plain
<1>5. /\ Fits(d) /\ Settled(d) /\ d.upvalues = current.upvalues /\ d.scopeDepth = current.scopeDepth - 1
      /\ k \in 1..Len(current.locals)
      /\ \A i \in 1..k : current.locals[i].depth <= current.scopeDepth - 1
      /\ \A i \in k + 1..Len(current.locals) : current.locals[i].depth > current.scopeDepth - 1
      /\ BlocksOf(d) = Front(BlocksOf(current))
  BY EndFacts
<1> HIDE DEF d
<1>6. /\ Blocks' = [Blocks EXCEPT ![Top] = BlocksOf(d)] /\ BlocksNow /\ Captures' = Captures
  BY <1>1, <1>2, <1>5, TopEdited
<1>7. \A s : Promise!Front(s) = Front(s)
  BY DEF Promise!Front, Front
<1>8. Blocks' = [Blocks EXCEPT ![Promise!Fn] = Promise!Front(@)]
  <2>1. Promise!Fn = Top /\ Blocks[Top] = BlocksOf(current)
    BY <1>2, <1>6 DEF BlocksNow
  <2> HIDE DEF Blocks
  <2> QED BY <1>5, <1>6, <1>7, <2>1
<1>9. Answer' = Promise!Ended(Promise!Here)
  <2>1. Top' = Top /\ current' = d
    BY <1>1, <1>2, <1>5, TopKept
  <2>2. current'.scopeDepth + 2 = current.scopeDepth + 1
    BY <1>4, <1>5, <2>1
  <2>3. PICK c : c = current
    OBVIOUS
  <2>4. /\ Plain(c) /\ Settled(c) /\ k \in 1..Len(c.locals) /\ emitted' = EndScopeCode(c, k)
        /\ current'.scopeDepth + 2 = c.scopeDepth + 1
        /\ \A i \in 1..k : c.locals[i].depth <= c.scopeDepth - 1
        /\ \A i \in k + 1..Len(c.locals) : c.locals[i].depth > c.scopeDepth - 1
    BY <1>2, <1>3, <1>5, <2>2, <2>3
  <2>5. Answer' = Ends(BlockAt(c, c.scopeDepth), <<Top', c.scopeDepth + 1>>)
    BY <2>4, EndAnswer
  <2> QED BY <1>6, <2>1, <2>3, <2>5, EndedHere
<1> HIDE DEF Captures, Blocks, Answer
<1> QED BY <1>6, <1>8, <1>9

\* endScope
LEMMA EndFollows ==
  ASSUME LexicalInv, IInv', ~hadError, ~hadError', EndScope
  PROVE  Accepted' /\ Promise!End
<1>1. PICK k \in 0..Len(current.locals) :
        Keeps(current, k) /\ compilers' = With(Ended(current, k)) /\ Finish(NoError, EndScopeCode(current, k))
  BY DEF EndScope
<1> DEFINE d == Ended(current, k)
<1>2. /\ work = NoWork /\ work' = NoWork /\ pc = "statement" /\ ~InClassBody /\ compilers' = With(d)
      /\ UNCHANGED <<classes, todo>> /\ pc' = "statement"
      /\ current.scopeDepth > IF Top = 1 THEN 0 ELSE 1
  BY <1>1 DEF EndScope, AtStatement, Ready
<1>3. /\ IInv /\ Fits(current) /\ Plain(current) /\ current = compilers[Top] /\ Top \in 1..Top
      /\ Accepts(Top, current, FALSE, FALSE)
      /\ \A j \in DOMAIN classes : classes[j].fn < Top
  BY <1>2, AtHome
<1>4. current.scopeDepth > 0 /\ current.scopeDepth \in Nat
  BY <1>2, <1>3 DEF Plain
<1>5. /\ Blocks' = [Blocks EXCEPT ![Promise!Fn] = Promise!Front(@)] /\ Captures' = Captures
      /\ Answer' = Promise!Ended(Promise!Here) /\ BlocksNow
  BY <1>1, <1>2, <1>4, EndsBlock
<1>6. /\ Fits(d) /\ Settled(d) /\ d.upvalues = current.upvalues /\ d.scopeDepth = current.scopeDepth - 1
      /\ k \in 1..Len(current.locals) /\ Len(d.locals) = k /\ DOMAIN d.locals = 1..k
      /\ \A i \in 1..k : d.locals[i] = current.locals[i] /\ Scoped(d)
  BY <1>1, <1>2, <1>4, EndFacts
<1> HIDE DEF d
<1>7. Accepts(Top, d, FALSE, FALSE)
  <2>1. Top # 1 => d.scopeDepth > 0
    BY <1>2, <1>4, <1>6
  <2>2. \A i \in 1..k : i \in DOMAIN current.locals
    BY <1>3, <1>6 DEF Plain
  <2>3. d.locals[1] = current.locals[1] /\ Scoped(d)
    BY <1>6
  <2>4. \A i \in DOMAIN d.locals : d.locals[i].name # "super"
    BY <1>3, <1>6, <2>2 DEF Accepts
  <2> QED BY <1>3, <1>6, <2>1, <2>3, <2>4 DEF Accepts
<1>8. Accepted'
  BY <1>2, <1>6, <1>7, AcceptedTop
<1>9. Classes' = Classes
  BY <1>2, <1>3, <1>6, PlainStep
<1>10. Promise!Depth > IF Promise!Fn = 1 THEN 1 ELSE 2
  <2>1. Promise!Fn = Top /\ Promise!Depth = current.scopeDepth + 1
    BY <1>5 DEF BlocksNow
  <2> QED BY <1>2, <1>4, <2>1
<1> HIDE DEF Captures, Classes, Blocks, Answer
<1> QED BY <1>5, <1>8, <1>9, <1>10 DEF Promise!End

-----------------------------------------------------------------------------
(* Functions *)

\* What initCompiler makes
LEMMA NewAccepted ==
  ASSUME NEW f, NEW slot0 \in {"none", "this"}, NEW d \in {0, 1}, f = 1 => slot0 = "this", f # 1 => d = 1
  PROVE  /\ Accepts(f, Compiler(slot0, d), FALSE, FALSE)
         /\ Compiler(slot0, d).upvalues = <<>> /\ Compiler(slot0, d).scopeDepth = d
<1> DEFINE c == Compiler(slot0, d)
<1>1. /\ DOMAIN c.locals = {1} /\ c.locals[1] = Local(slot0, 0) /\ c.scopeDepth = d /\ Len(c.locals) = 1
      /\ c.upvalues = <<>>
  BY DEF Compiler
<1>2. c.locals[1].name = slot0 /\ slot0 # "super"
  BY <1>1 DEF Local
<1> HIDE DEF c
<1>3. Scoped(c)
  <2>1. \A i \in 2..1 : FALSE
    OBVIOUS
  <2> QED BY <1>1, <2>1 DEF Scoped
<1>4. DOMAIN c.upvalues = {}
  BY <1>1
<1> QED BY <1>1, <1>2, <1>3, <1>4 DEF Accepts, c

\* A function begins, inside the one whose arrays are now d.
LEMMA PushFollows ==
  ASSUME LexicalInv, IInv', ~hadError, ~hadError', work = NoWork, work' = NoWork, pc = "statement",
         emitted' = <<>>, UNCHANGED <<classes, pc, todo>>, NEW d, Fits(d), d.upvalues = current.upvalues,
         d.scopeDepth = current.scopeDepth, NEW slot0 \in {"none", "this"},
         compilers' = Append(With(d), Compiler(slot0, 1)),
         NEW w \in BOOLEAN, w <=> ~Classed(Top), NEW s \in BOOLEAN, s <=> Supered(Top), Accepts(Top, d, w, s)
  PROVE  /\ Accepted' /\ Captures' = Append(Captures, {}) /\ Classes' = Classes /\ Answer' = {}
         /\ Blocks' = Append([Blocks EXCEPT ![Top] = BlocksOf(d)],
                             <<Promise!Block({slot0}), Promise!Block({})>>)
<1> DEFINE e == Compiler(slot0, 1)
<1>1. /\ IInv /\ Accepted /\ SupersDue /\ NoSuperYet /\ Top \in Nat \ {0} /\ Top \in 1..Top
      /\ current = compilers[Top]
      /\ \A f \in 1..Top : Plain(compilers[f]) /\ Accepts(f, compilers[f], Waits(f), Supered(f))
  BY Open
<1>2. Fits(e) /\ e.upvalues = <<>> /\ Top + 1 # 1
  BY <1>1, NewFacts
<1>3. Accepts(Top + 1, e, FALSE, FALSE) /\ BlocksOf(e) = <<Promise!Block({slot0}), Promise!Block({})>>
  <2>1. PICK f, b : f = Top + 1 /\ b = 1
    OBVIOUS
  <2>2. b \in {0, 1} /\ f # 1
    BY ONLY <2>1, <1>2
  <2>3. Accepts(f, Compiler(slot0, b), FALSE, FALSE)
    BY ONLY slot0 \in {"none", "this"}, <2>1, <2>2, NewAccepted
  <2>4. BlocksOf(Compiler(slot0, b)) = IF b = 0 THEN <<Promise!Block({slot0})>>
                                       ELSE <<Promise!Block({slot0}), Promise!Block({})>>
    BY ONLY <2>2, NewBlocks
  <2>5. e = Compiler(slot0, b) /\ b # 0
    BY <2>1
  <2> HIDE DEF e
  <2> QED BY ONLY <2>1, <2>3, <2>4, <2>5
<1> HIDE DEF e
<1>4. /\ Top' = Top + 1 /\ \A g \in 1..Top : compilers'[g] = IF g = Top THEN d ELSE compilers[g]
      /\ compilers'[Top + 1] = e
  BY <1>1, <1>2, PushKept DEF e
<1>5. \A k \in DOMAIN classes : classes[k].fn \in 1..Top
  BY <1>1, ClassFacts
<1>6. Accepted'
  <2>1. SupersDue' /\ NoSuperYet'
    BY <1>1 DEF SupersDue, NoSuperYet
  <2>2. \A g : (Supered(g)' <=> Supered(g)) /\ (Classed(g)' <=> Classed(g))
    BY DEF Supered, Classed
  <2>3. ASSUME NEW g \in 1..Top' PROVE Accepts(g, compilers'[g], Waits(g)', Supered(g)')
    <3>1. CASE g = Top + 1
      <4>1. ~Waits(g)'
        BY <1>4, <3>1 DEF Waits
      <4>2. ~Supered(g)'
        <5>1. g \notin 1..Top
          BY <1>1, <3>1
        <5>2. ~Supered(g)
          BY <1>5, <5>1 DEF Supered
        <5> HIDE DEF Supered
        <5> QED BY <2>2, <5>2
      <4>3. compilers'[g] = e /\ Accepts(g, e, FALSE, FALSE)
        BY <1>3, <1>4, <3>1
      <4> HIDE DEF Waits, Supered
      <4> QED BY ONLY <4>1, <4>2, <4>3 DEF Accepts
    <3>2. CASE g = Top
      <4>1. Waits(g)' => w
        <5>1. Waits(g)' <=> ~Classed(g)'
          BY <1>1, <1>4, <3>2 DEF Waits
        <5> HIDE DEF Waits, Classed
        <5> QED BY <2>2, <3>2, <5>1
      <4>2. Supered(g)' <=> s
        <5> HIDE DEF Supered
        <5> QED BY <2>2, <3>2
      <4>3. compilers'[g] = d /\ Accepts(g, d, w, s)
        BY <1>1, <1>4, <3>2
      <4> HIDE DEF Waits, Supered
      <4> QED BY <4>1, <4>2, <4>3 DEF Accepts
    <3>3. CASE g # Top /\ g # Top + 1
      <4>1. g \in 1..Top /\ compilers'[g] = compilers[g]
        <5>1. Top' = Top + 1 /\ g \in 1..Top' /\ Top \in Nat
          BY <1>1, <1>4
        <5>2. g \in 1..Top
          BY ONLY <5>1, <3>3
        <5> QED BY ONLY <5>2, <3>3, <1>4
      <4>2. Waits(g)' <=> Waits(g)
        <5>1. Waits(g)' <=> ~Classed(g)'
          BY <1>4, <3>3 DEF Waits
        <5>2. Waits(g) <=> ~Classed(g)
          BY <3>3 DEF Waits
        <5> HIDE DEF Waits, Classed
        <5> QED BY <2>2, <5>1, <5>2
      <4>3. Accepts(g, compilers[g], Waits(g), Supered(g))
        BY <1>1, <4>1
      <4> HIDE DEF Waits, Supered
      <4> QED BY <2>2, <4>1, <4>2, <4>3 DEF Accepts
    <3> QED BY <3>1, <3>2, <3>3
  <2> QED BY <2>1, <2>3 DEF Accepted, SupersDue, NoSuperYet
<1>7. Captures' = Append(Captures, {})
  <2>1. /\ Top \in Nat /\ Top <= Top /\ Top <= Top'
        /\ \A f \in 1..Top : compilers'[f].upvalues = compilers[f].upvalues
        /\ \A f \in 1..Top - 1 : Alike(compilers[f], compilers'[f])
    <3>1. ASSUME NEW f \in 1..Top - 1 PROVE Alike(compilers[f], compilers'[f])
      <4>1. f \in 1..Top /\ f # Top
        BY <1>1
      <4>2. Plain(compilers[f])
        BY <1>1, <4>1
      <4>3. compilers'[f] = compilers[f]
        BY ONLY <1>4, <4>1
      <4>4. PICK c : c = compilers[f]
        OBVIOUS
      <4>5. Alike(c, c)
        BY ONLY <4>2, <4>4 DEF Alike, Plain
      <4> QED BY ONLY <4>3, <4>4, <4>5
    <3>2. \A f \in 1..Top : compilers'[f].upvalues = compilers[f].upvalues
      BY <1>1, <1>4
    <3>3. Top \in Nat /\ Top <= Top /\ Top <= Top'
      <4>1. Top \in Nat /\ Top' = Top + 1
        BY <1>1, <1>4
      <4> QED BY ONLY <4>1
    <3> QED BY ONLY <3>1, <3>2, <3>3
  <2>2. \A f \in 1..Top : UpvalueVariables'[f] = UpvalueVariables[f]
    BY <1>1, <2>1, RowsKept
  <2>3. CapturesNow /\ CapturesNow'
    BY CapturesAre, CapturesAreNext
  <2>4. Range(UpvalueVariables'[Top + 1]) = {}
    <3>1. Resolved'
      BY UpvaluesResolvedNext
    <3>2. PICK n : n = Top + 1
      OBVIOUS
    <3>3. n \in 1..Top' /\ Len(compilers'[n].upvalues) = 0
      <4>1. Top' = Top + 1 /\ Top \in Nat
        BY <1>1, <1>4
      <4>2. n \in 1..Top'
        BY ONLY <4>1, <3>2
      <4>3. compilers'[n].upvalues = <<>>
        BY ONLY <1>2, <1>4, <3>2
      <4> QED BY ONLY <4>2, <4>3
    <3>4. UpvalueVariables'[n] = [j \in 1..0 |-> UpvalueVariables'[n][j]]
      BY <3>1, <3>3 DEF Resolved
    <3>5. DOMAIN UpvalueVariables'[n] = {}
      <4>1. \A j : j \notin 1..0
        OBVIOUS
      <4> QED BY <3>4, <4>1
    <3> QED BY <3>2, <3>5 DEF Range
  <2>5. Captures' = [f \in 1..Top + 1 |-> IF f = Top + 1 THEN {} ELSE Captures[f]]
    <3>1. Captures' = [f \in 1..Top + 1 |-> Range(UpvalueVariables'[f])]
      BY <1>4, <2>3 DEF CapturesNow
    <3>2. ASSUME NEW f \in 1..Top + 1
          PROVE  Range(UpvalueVariables'[f]) = IF f = Top + 1 THEN {} ELSE Captures[f]
      <4>1. f = Top + 1 \/ (f \in 1..Top /\ f # Top + 1)
        BY <1>1
      <4>2. f \in 1..Top => Captures[f] = Range(UpvalueVariables[f])
        BY <2>3 DEF CapturesNow
      <4> HIDE DEF Captures
      <4> QED BY <2>2, <2>4, <4>1, <4>2
    <3> HIDE DEF Captures
    <3> QED BY <3>1, <3>2
  <2>6. PICK c : c = Captures
    OBVIOUS
  <2>7. c = [f \in 1..Top |-> c[f]]
    BY <2>3, <2>6 DEF CapturesNow
  <2>8. Append(c, {}) = [f \in 1..Top + 1 |-> IF f = Top + 1 THEN {} ELSE c[f]]
    BY <1>1, <2>7, ListedMore
  <2> HIDE DEF Captures
  <2> QED BY <2>5, <2>6, <2>8
<1>8. Classes' = Classes
  <2>1. ASSUME NEW k \in DOMAIN classes
        PROVE  compilers'[classes[k].fn].scopeDepth = compilers[classes[k].fn].scopeDepth
    BY <1>1, <1>4, <1>5
  <2> QED BY <2>1, ClassesSame
<1>9. Answer' = {}
  BY NothingSaid
<1>10. Blocks' = Append([Blocks EXCEPT ![Top] = BlocksOf(d)], BlocksOf(e))
  <2>1. BlocksNow
    BY <1>1, BlocksAre
  <2>2. PICK b : b = [Blocks EXCEPT ![Top] = BlocksOf(d)]
    OBVIOUS
  <2>3. b = [f \in 1..Top |-> IF f = Top THEN BlocksOf(d) ELSE BlocksOf(compilers[f])]
    BY <2>1, <2>2 DEF BlocksNow
  <2>4. b = [f \in 1..Top |-> b[f]] /\ \A f \in 1..Top : b[f] = IF f = Top THEN BlocksOf(d) ELSE BlocksOf(compilers[f])
    BY <2>3
  <2>5. Append(b, BlocksOf(e)) = [f \in 1..Top + 1 |-> IF f = Top + 1 THEN BlocksOf(e) ELSE b[f]]
    BY <1>1, <2>4, ListedMore
  <2>6. Blocks' = [f \in 1..Top + 1 |-> BlocksOf(compilers'[f])]
    BY <1>4 DEF Blocks
  <2>7. ASSUME NEW f \in 1..Top + 1 PROVE BlocksOf(compilers'[f]) = IF f = Top + 1 THEN BlocksOf(e) ELSE b[f]
    <3>1. f = Top + 1 \/ (f \in 1..Top /\ f # Top + 1)
      BY <1>1
    <3> QED BY <1>4, <2>4, <3>1
  <2> QED BY <2>2, <2>5, <2>6, <2>7
<1> HIDE DEF Captures, Classes, Answer, Blocks
<1> QED BY <1>3, <1>6, <1>7, <1>8, <1>9, <1>10

\* What a declaration that breaks no rule makes of the blocks
LEMMA DeclaresHere ==
  ASSUME LexicalInv, ~hadError, ~InClassBody, pc # "initializer", NEW n \in Name,
         DeclareError(current, n) = NoError
  PROVE  LET d == MarkInitialized(DeclareVariable(current, n))
         IN /\ Fits(d) /\ Settled(d) /\ Accepts(Top, d, TRUE, FALSE) /\ d.upvalues = current.upvalues
            /\ d.scopeDepth = current.scopeDepth /\ [Blocks EXCEPT ![Top] = BlocksOf(d)] = Promise!Declared(n, TRUE)
            /\ Promise!MayDeclare(n)
<1> DEFINE e == DeclareVariable(current, n)
           d == MarkInitialized(e)
<1>2. /\ IInv /\ Fits(current) /\ Plain(current) /\ current = compilers[Top] /\ Top \in 1..Top
      /\ Accepts(Top, current, FALSE, FALSE) /\ Settled(current)
      /\ (current.scopeDepth = 0 => Top = 1)
  BY AtHome
<1>4. /\ Accepts(Top, d, TRUE, FALSE) /\ d.upvalues = current.upvalues /\ d.scopeDepth = current.scopeDepth
      /\ current.scopeDepth = 0 => d = current
      /\ current.scopeDepth # 0 =>
           BlocksOf(d) = [BlocksOf(current) EXCEPT ![current.scopeDepth + 1] = Promise!Adding(@, n, TRUE)]
  BY <1>2, Declares
<1>5. Fits(e) /\ HasVariable(e)
  BY <1>2, DeclareFacts
<1> HIDE DEF e
<1>6. Fits(d) /\ Settled(d)
  BY <1>5, MarkFacts
<1>7. current.scopeDepth \in Nat
  BY <1>2 DEF Plain
<1> HIDE DEF d
<1>8. BlocksNow
  BY <1>2, BlocksAre
<1>9. [Blocks EXCEPT ![Top] = BlocksOf(d)] = Promise!Declared(n, TRUE)
  <2>1. PICK B : B = BlocksOf(d)
    OBVIOUS
  <2>2. PICK r : r = TRUE
    OBVIOUS
  <2>3. /\ current.scopeDepth = 0 => B = BlocksOf(current)
        /\ current.scopeDepth # 0 =>
             B = [BlocksOf(current) EXCEPT ![current.scopeDepth + 1] = Promise!Adding(@, n, r)]
    BY <1>4, <2>1, <2>2, Zenon
  <2>4. [Blocks EXCEPT ![Top] = B] = Promise!Declared(n, r)
    BY <1>2, <1>7, <1>8, <2>3, DeclaredIs, SMTT(40)
  <2> QED BY <2>1, <2>2, <2>4, Zenon
<1>10. Promise!MayDeclare(n)
  BY MayDeclareIs
<1> QED BY <1>4, <1>6, <1>9, <1>10 DEF d, e

\* funDeclaration up to the body
LEMMA FunDeclarationFollows ==
  ASSUME LexicalInv, IInv', ~hadError, ~hadError', NEW n \in Name, FunDeclaration(n)
  PROVE  Accepted' /\ Promise!MayDeclare(n) /\ Promise!BeginFunction(Promise!Declared(n, TRUE), "none")
<1> DEFINE d == MarkInitialized(DeclareVariable(current, n))
<1>1. /\ work = NoWork /\ work' = NoWork /\ pc = "statement" /\ ~InClassBody
      /\ compilers' = Append(With(d), Compiler("none", 1))
      /\ UNCHANGED <<classes, pc, todo>> /\ Finish(DeclareError(current, n), <<>>)
  BY DEF FunDeclaration, AtStatement, Ready
<1>2. IInv /\ ~Classed(Top) /\ ~Supered(Top) /\ hadError \in BOOLEAN
  BY <1>1, AtHome, Unfold DEF Control
<1>3. DeclareError(current, n) = NoError /\ emitted' = <<>>
  BY <1>1, <1>2, Finished
<1>4. /\ Fits(d) /\ Settled(d) /\ Accepts(Top, d, TRUE, FALSE) /\ d.upvalues = current.upvalues
      /\ d.scopeDepth = current.scopeDepth /\ [Blocks EXCEPT ![Top] = BlocksOf(d)] = Promise!Declared(n, TRUE)
      /\ Promise!MayDeclare(n)
  BY <1>1, <1>3, DeclaresHere
<1> HIDE DEF d
<1>5. /\ Accepted' /\ Captures' = Append(Captures, {}) /\ Classes' = Classes /\ Answer' = {}
      /\ Blocks' = Append([Blocks EXCEPT ![Top] = BlocksOf(d)],
                          <<Promise!Block({"none"}), Promise!Block({})>>)
  <2>1. PICK s0 : s0 = "none"
    OBVIOUS
  <2>2. s0 \in {"none", "this"} /\ compilers' = Append(With(d), Compiler(s0, 1))
    BY <1>1, <2>1
  <2>3. PICK w \in BOOLEAN : w = TRUE
    OBVIOUS
  <2>4. PICK s \in BOOLEAN : s = FALSE
    OBVIOUS
  <2>5. (w <=> ~Classed(Top)) /\ (s <=> Supered(Top))
    <3> HIDE DEF Classed, Supered
    <3> QED BY <1>2, <2>3, <2>4
  <2>6. Accepts(Top, d, w, s)
    BY <1>4, <2>3, <2>4, Zenon
  <2>7. UNCHANGED <<classes, pc, todo>> /\ work = NoWork /\ work' = NoWork /\ pc = "statement" /\ emitted' = <<>>
        /\ Fits(d) /\ d.upvalues = current.upvalues /\ d.scopeDepth = current.scopeDepth
    BY <1>1, <1>3, <1>4
  <2>8. /\ Accepted' /\ Captures' = Append(Captures, {}) /\ Classes' = Classes /\ Answer' = {}
        /\ Blocks' = Append([Blocks EXCEPT ![Top] = BlocksOf(d)],
                            <<Promise!Block({s0}), Promise!Block({})>>)
    BY <2>2, <2>5, <2>6, <2>7, PushFollows
  <2> QED BY ONLY <2>1, <2>8
<1> HIDE DEF Captures, Classes, Blocks, Answer
<1> QED BY <1>4, <1>5 DEF Promise!BeginFunction

\* method
LEMMA MethodFollows ==
  ASSUME LexicalInv, IInv', ~hadError, ~hadError', Method
  PROVE  Accepted' /\ Promise!BeginFunction(Blocks, "this")
<1>1. /\ work = NoWork /\ work' = NoWork /\ pc = "statement" /\ InClassBody
      /\ compilers' = Append(compilers, Compiler("this", 1))
      /\ UNCHANGED <<classes, pc, todo>> /\ Finish(NoError, <<>>)
  BY DEF Method, Ready
<1>2. /\ IInv /\ hadError \in BOOLEAN /\ Fits(current) /\ current = compilers[Top] /\ Top \in 1..Top
      /\ Accepts(Top, current, Waits(Top), Supered(Top)) /\ compilers \in Seq(CompilerType)
  BY Open, Unfold DEF Control, Bounded
<1>3. emitted' = <<>>
  BY <1>1, <1>2, Finished
<1>4. With(current) = compilers
  BY <1>2 DEF With
<1>5. Classed(Top)
  <2>1. Len(classes) \in DOMAIN classes /\ classes[Len(classes)].fn = Top
    BY <1>1, <1>2, ClassFacts
  <2> QED BY <2>1 DEF Classed
<1>6. PICK s \in BOOLEAN : s <=> Supered(Top)
  OBVIOUS
<1>7. PICK w \in BOOLEAN : w = FALSE
  OBVIOUS
<1>8. Accepts(Top, current, w, s)
  <2> HIDE DEF Waits, Supered
  <2> QED BY <1>2, <1>6, <1>7 DEF Accepts
<1>9. w <=> ~Classed(Top)
  <2> HIDE DEF Classed
  <2> QED BY <1>5, <1>7
<1>10. PICK d : d = current
  OBVIOUS
<1>11. PICK s0 : s0 = "this"
  OBVIOUS
<1>12. /\ Accepted' /\ Captures' = Append(Captures, {}) /\ Classes' = Classes /\ Answer' = {}
       /\ Blocks' = Append([Blocks EXCEPT ![Top] = BlocksOf(d)],
                           <<Promise!Block({s0}), Promise!Block({})>>)
  <2>1. /\ work = NoWork /\ work' = NoWork /\ pc = "statement" /\ emitted' = <<>> /\ UNCHANGED <<classes, pc, todo>>
        /\ Fits(d) /\ d.upvalues = current.upvalues /\ d.scopeDepth = current.scopeDepth
        /\ s0 \in {"none", "this"} /\ Accepts(Top, d, w, s)
    BY <1>1, <1>2, <1>3, <1>8, <1>10, <1>11
  <2>2. compilers' = Append(With(d), Compiler(s0, 1))
    BY ONLY <1>1, <1>4, <1>10, <1>11
  <2> QED BY <1>6, <1>9, <2>1, <2>2, PushFollows
<1>13. BlocksNow
  BY <1>2, BlocksAre
<1>14. [Blocks EXCEPT ![Top] = BlocksOf(d)] = Blocks
  <2>1. Blocks = [f \in 1..Top |-> Blocks[f]] /\ Blocks[Top] = BlocksOf(d)
    BY <1>2, <1>10, <1>13 DEF BlocksNow
  <2> HIDE DEF Blocks
  <2> QED BY <2>1
<1> HIDE DEF Captures, Classes, Blocks, Answer
<1>15. Blocks' = Append(Blocks, <<Promise!Block({"this"}), Promise!Block({})>>)
  BY ONLY <1>11, <1>12, <1>14
<1> QED BY <1>12, <1>15 DEF Promise!BeginFunction

\* What is left when a function ends: the arrays of those around it stand for
\* what they stood for, although the name of the function is marked once more.
LEMMA EndFunctionLeaves ==
  ASSUME LexicalInv, ~hadError, EndFunction, NEW b, b = Top - 1
  PROVE  /\ b \in 1..Top /\ b \in Nat \ {0} /\ b + 1 = Top /\ b < Top /\ Top' = b
         /\ \A g \in 1..b : /\ Alike(compilers[g], compilers'[g]) /\ compilers'[g].upvalues = compilers[g].upvalues
                            /\ BlocksOf(compilers'[g]) = BlocksOf(compilers[g])
<1> DEFINE isMethod == classes # <<>> /\ Last(classes).fn = b
           d        == IF ~isMethod THEN MarkInitialized(compilers[b]) ELSE compilers[b]
<1>1. /\ IInv /\ Top \in Nat \ {0} /\ Top > 1 /\ pc = "statement" /\ ~InClassBody
      /\ compilers' = [f \in 1..b |-> IF f = b /\ ~isMethod THEN MarkInitialized(compilers[f]) ELSE compilers[f]]
      /\ \A f \in 1..Top : /\ Fits(compilers[f]) /\ Scoped(compilers[f]) /\ Plain(compilers[f])
                           /\ Accepts(f, compilers[f], Waits(f), Supered(f))
      /\ \A f \in 1..(Top - 1) : Settled(compilers[f])
  BY Open DEF EndFunction, AtStatement
<1>2. b \in 1..Top /\ b \in Nat \ {0} /\ b + 1 = Top /\ b < Top /\ b # Top /\ b \in 1..b /\ b \in 1..(Top - 1)
  BY ONLY <1>1, b = Top - 1
<1>3. ~isMethod => Waits(b)
  <2> SUFFICES ASSUME ~isMethod, Classed(b) PROVE FALSE
    BY <1>2 DEF Waits
  <2>1. PICK k \in DOMAIN classes : classes[k].fn = b
    BY DEF Classed
  <2> DEFINE n == Len(classes)
  <2>2. /\ n \in DOMAIN classes /\ k <= n /\ k \in Nat /\ n \in Nat /\ classes[n].fn # b
        /\ \A j \in DOMAIN classes : classes[j].fn \in 1..Top
    BY <1>1, ClassFacts
  <2>3. k < n => classes[k].fn < classes[n].fn
    BY <1>1, <2>2, Unfold DEF ClassesNest
  <2>4. classes[n].fn \in 1..Top /\ classes[n].fn # Top
    BY <1>1, <2>2, NoClassHere
  <2> HIDE DEF isMethod, n
  <2> QED BY <1>2, <2>1, <2>2, <2>3, <2>4
<1>4. PICK c : c = compilers[b]
  OBVIOUS
<1>5. Alike(c, c)
  BY <1>1, <1>2, <1>4 DEF Plain, Alike
<1>6. ~isMethod => EndsHere(c)
  <2>1. Accepts(b, c, Waits(b), Supered(b))
    BY ONLY <1>1, <1>2, <1>4
  <2> HIDE DEF isMethod, Waits, Supered
  <2> QED BY <1>3, <2>1 DEF Accepts
<1>7. Alike(c, d) /\ d.upvalues = c.upvalues /\ BlocksOf(d) = BlocksOf(c)
  <2>1. Fits(c) /\ Scoped(c) /\ Settled(c)
    BY <1>1, <1>2, <1>4
  <2> HIDE DEF isMethod
  <2>2. CASE isMethod
    BY <1>4, <1>5, <2>2
  <2>3. CASE ~isMethod
    <3>1. EndsHere(c)
      BY <1>6, <2>3
    <3>2. /\ Alike(c, MarkInitialized(c)) /\ MarkInitialized(c).upvalues = c.upvalues
          /\ BlocksOf(MarkInitialized(c)) = BlocksOf(c)
      BY ONLY <2>1, <3>1, MarkAlike
    <3> QED BY <1>4, <2>3, <3>2
  <2> QED BY <2>2, <2>3
<1>8. compilers' = [f \in 1..b |-> IF f = b THEN d ELSE compilers[f]]
  BY <1>1
<1> HIDE DEF d, isMethod
<1>9. Top' = b /\ \A g \in 1..b : compilers'[g] = IF g = b THEN d ELSE compilers[g]
  <2>1. \A g \in 1..b : compilers'[g] = IF g = b THEN d ELSE compilers[g]
    BY <1>8
  <2>2. PICK s : s = compilers'
    OBVIOUS
  <2>3. s = [i \in 1..b |-> s[i]]
    BY <1>8, <2>2
  <2>4. Len(s) = b
    BY <1>2, <2>3, Listed
  <2> QED BY <2>1, <2>2, <2>4 DEF Top
<1>10. ASSUME NEW g \in 1..b
       PROVE  /\ Alike(compilers[g], compilers'[g]) /\ compilers'[g].upvalues = compilers[g].upvalues
              /\ BlocksOf(compilers'[g]) = BlocksOf(compilers[g])
  <2>1. CASE g = b
    BY <1>4, <1>7, <1>9, <2>1
  <2>2. CASE g # b
    <3>1. g \in 1..Top
      BY <1>2
    <3>2. PICK e : e = compilers[g]
      OBVIOUS
    <3>3. Plain(e)
      BY <1>1, <3>1, <3>2
    <3>4. Alike(e, e)
      BY <3>3 DEF Alike, Plain
    <3> QED BY ONLY <1>9, <2>2, <3>2, <3>4
  <2> QED BY <2>1, <2>2
<1> QED BY <1>2, <1>9, <1>10

\* The operands of the closure are the variables that the function captures.
LEMMA ClosureAnswer ==
  ASSUME ~hadError', work' = NoWork, CapturesNow, Resolved, Top \in 1..Top,
         NEW b, Top' = b, b = Top - 1, NEW U, U = compilers[Top].upvalues,
         emitted' = [j \in DOMAIN U |-> Operand(U[j])],
         \A j \in DOMAIN U : OperandVariable(b, U[j])' = OperandVariable(b, U[j])
  PROVE  Answer' = {<<"capture", v>> : v \in Captures[Top]}
<1>1. /\ DOMAIN U = 1..Len(U) /\ UpvalueVariables[Top] = [j \in 1..Len(U) |-> OperandVariable(b, U[j])]
  BY DEF Resolved
<1>2. Captures[Top] = {OperandVariable(b, U[j]) : j \in DOMAIN U}
  <2>1. Captures[Top] = Range(UpvalueVariables[Top])
    BY DEF CapturesNow
  <2>2. DOMAIN UpvalueVariables[Top] = DOMAIN U
    BY <1>1
  <2>3. \A j \in DOMAIN U : UpvalueVariables[Top][j] = OperandVariable(b, U[j])
    BY <1>1
  <2>4. Range(UpvalueVariables[Top]) = {UpvalueVariables[Top][j] : j \in DOMAIN U}
    BY <2>2 DEF Range
  <2> HIDE DEF Captures
  <2> QED BY <2>1, <2>3, <2>4
<1>3. Answer' = {Means(emitted[k])' : k \in DOMAIN emitted'}
  BY DEF Answer
<1>4. ASSUME NEW j \in DOMAIN U PROVE Means(emitted[j])' = <<"capture", OperandVariable(b, U[j])>>
  <2>1. PICK u : u = U[j]
    OBVIOUS
  <2>2. PICK e : e = Operand(u)
    OBVIOUS
  <2>3. emitted'[j] = e
    BY <2>1, <2>2
  <2>4. /\ e.op = IF u.isLocal THEN "local_operand" ELSE "upvalue_operand"
        /\ e.arg = u.index
    BY <2>2 DEF Operand, Instruction
  <2>5. Means(e)' = <<"capture", IF u.isLocal THEN LocalVariable(b, u.index)' ELSE UpvalueVariables'[b][u.index]>>
    BY <2>4, SMTT(40) DEF Means, LocalVariable
  <2>6. OperandVariable(b, u)' = IF u.isLocal THEN LocalVariable(b, u.index)' ELSE UpvalueVariables'[b][u.index]
    BY DEF OperandVariable, LocalVariable
  <2>7. OperandVariable(b, u)' = OperandVariable(b, u)
    BY <2>1, SMTT(40)
  <2>8. Means(emitted[j])' = Means(e)'
    BY <2>3 DEF Means, LocalVariable
  <2> QED BY ONLY <2>1, <2>5, <2>6, <2>7, <2>8
<1>5. DOMAIN emitted' = DOMAIN U
  OBVIOUS
<1>6. Answer' = {<<"capture", OperandVariable(b, U[j])>> : j \in DOMAIN U}
  BY ONLY <1>3, <1>4, <1>5
<1> HIDE DEF Answer, Captures
<1> QED BY ONLY <1>2, <1>6

\* function, after the body
LEMMA EndFunctionFollows ==
  ASSUME LexicalInv, IInv', ~hadError, ~hadError', EndFunction
  PROVE  Accepted' /\ Promise!EndFunction
<1>1. PICK b : b = Top - 1
  OBVIOUS
<1>2. /\ b \in 1..Top /\ b \in Nat \ {0} /\ b + 1 = Top /\ b < Top /\ Top' = b
      /\ \A g \in 1..b : /\ Alike(compilers[g], compilers'[g]) /\ compilers'[g].upvalues = compilers[g].upvalues
                         /\ BlocksOf(compilers'[g]) = BlocksOf(compilers[g])
  BY <1>1, EndFunctionLeaves
<1>3. /\ work = NoWork /\ work' = NoWork /\ pc = "statement" /\ pc' = "statement" /\ ~InClassBody
      /\ UNCHANGED <<classes, todo>> /\ current.scopeDepth = 1
      /\ Finish(NoError, [j \in DOMAIN current.upvalues |-> Operand(current.upvalues[j])])
  BY DEF EndFunction, AtStatement, Ready
<1>4. /\ IInv /\ SupersDue /\ NoSuperYet /\ Top \in 1..Top /\ current = compilers[Top] /\ hadError \in BOOLEAN
      /\ \A f \in 1..Top : /\ Accepts(f, compilers[f], Waits(f), Supered(f))
                           /\ DOMAIN compilers[f].locals = 1..Len(compilers[f].locals)
      /\ \A k \in DOMAIN classes : classes[k].fn < Top
      /\ Operands
  BY <1>3, Open, Unfold, AtHome DEF Control
<1>5. BlocksNow /\ CapturesNow /\ CapturesNow' /\ Resolved /\ Resolved'
  BY <1>3, <1>4, BlocksAre, CapturesAre, CapturesAreNext, UpvaluesResolved, UpvaluesResolvedNext
<1>6. Accepted'
  <2>1. SupersDue' /\ NoSuperYet'
    BY <1>3, <1>4 DEF SupersDue, NoSuperYet
  <2>2. \A g : (Supered(g)' <=> Supered(g)) /\ (Classed(g)' <=> Classed(g))
    BY <1>3 DEF Supered, Classed
  <2>3. ASSUME NEW g \in 1..Top' PROVE Accepts(g, compilers'[g], Waits(g)', Supered(g)')
    <3>1. g \in 1..b /\ g \in 1..Top /\ g # Top
      BY <1>2
    <3>2. Waits(g)' => Waits(g)
      <4>1. Waits(g)' => ~Classed(g)'
        BY <1>2, <1>3, <3>1 DEF Waits
      <4>2. Waits(g) <=> ~Classed(g)
        BY <3>1 DEF Waits
      <4> HIDE DEF Waits, Classed
      <4> QED BY <2>2, <4>1, <4>2
    <3>3. PICK c, d : c = compilers[g] /\ d = compilers'[g]
      OBVIOUS
    <3>4. /\ Accepts(g, c, Waits(g), Supered(g)) /\ Alike(c, d) /\ DOMAIN c.locals = 1..Len(c.locals)
          /\ d.upvalues = c.upvalues
      BY ONLY <1>2, <1>4, <3>1, <3>3
    <3> HIDE DEF Waits, Supered
    <3>5. Accepts(g, d, Waits(g)', Supered(g))
      BY ONLY <3>2, <3>4, AcceptsAlike
    <3> QED BY <2>2, <3>3, <3>5 DEF Accepts
  <2> QED BY <2>1, <2>3 DEF Accepted, SupersDue, NoSuperYet
<1>7. \A f \in 1..b : UpvalueVariables'[f] = UpvalueVariables[f]
  <2>1. b \in Nat /\ b <= Top /\ b <= Top'
    BY <1>2
  <2>2. \A f \in 1..b - 1 : Alike(compilers[f], compilers'[f])
    BY <1>2
  <2> QED BY <1>2, <1>4, <2>1, <2>2, RowsKept
<1>8. Captures' = Promise!Front(Captures) /\ Promise!Last(Captures) = Captures[Top]
  <2>1. PICK c, n : c = Captures /\ n = Top
    OBVIOUS
  <2>2. n \in Nat \ {0} /\ c = [i \in 1..n |-> c[i]]
    BY <1>2, <1>5, <2>1 DEF CapturesNow
  <2>3. Front(c) = [i \in 1..n - 1 |-> c[i]] /\ Last(c) = c[n]
    BY ONLY <2>2, ListedLess
  <2>4. Captures' = [f \in 1..b |-> Range(UpvalueVariables'[f])]
    BY <1>2, <1>5 DEF CapturesNow
  <2>5. \A f \in 1..b : c[f] = Range(UpvalueVariables'[f])
    <3>1. \A f \in 1..b : f \in 1..Top
      BY <1>2
    <3>2. \A f \in 1..Top : c[f] = Range(UpvalueVariables[f])
      BY <1>5, <2>1 DEF CapturesNow
    <3> QED BY <1>7, <3>1, <3>2
  <2>6. n - 1 = b
    BY <1>2, <2>1
  <2>7. \A s : Promise!Front(s) = Front(s) /\ Promise!Last(s) = Last(s)
    BY DEF Promise!Front, Promise!Last, Front, Last
  <2> HIDE DEF Captures
  <2> QED BY <2>1, <2>3, <2>4, <2>5, <2>6, <2>7
<1>9. Blocks' = Promise!Front(Blocks)
  <2>1. PICK c, n : c = Blocks /\ n = Top
    OBVIOUS
  <2>2. n \in Nat \ {0} /\ c = [i \in 1..n |-> c[i]] /\ \A i \in 1..n : c[i] = BlocksOf(compilers[i])
    BY <1>2, <1>5, <2>1 DEF BlocksNow
  <2>3. Front(c) = [i \in 1..n - 1 |-> c[i]]
    BY ONLY <2>2, ListedLess
  <2>4. Blocks' = [f \in 1..b |-> BlocksOf(compilers'[f])]
    BY <1>2 DEF Blocks
  <2>5. \A f \in 1..b : c[f] = BlocksOf(compilers'[f])
    <3>1. \A f \in 1..b : f \in 1..n
      BY <1>2, <2>1
    <3> QED BY ONLY <1>2, <2>2, <3>1
  <2>6. n - 1 = b
    BY <1>2, <2>1
  <2>7. \A s : Promise!Front(s) = Front(s)
    BY DEF Promise!Front, Front
  <2> HIDE DEF Blocks
  <2> QED BY <2>1, <2>3, <2>4, <2>5, <2>6, <2>7
<1>10. Classes' = Classes
  <2>1. ASSUME NEW k \in DOMAIN classes
        PROVE  compilers'[classes[k].fn].scopeDepth = compilers[classes[k].fn].scopeDepth
    <3>1. classes[k].fn \in 1..Top /\ classes[k].fn < Top
      BY <1>4, ClassFacts
    <3>2. classes[k].fn \in 1..b
      BY ONLY <1>2, <3>1
    <3> QED BY <1>2, <3>2 DEF Alike
  <2> QED BY <1>3, <2>1, ClassesSame
<1>11. Answer' = {<<"capture", v>> : v \in Captures[Top]}
  <2>1. PICK U : U = compilers[Top].upvalues
    OBVIOUS
  <2>2. emitted' = [j \in DOMAIN U |-> Operand(U[j])]
    <3>1. emitted' = [j \in DOMAIN current.upvalues |-> Operand(current.upvalues[j])]
      BY <1>3, <1>4, Finished
    <3> QED BY ONLY <1>4, <2>1, <3>1
  <2>3. ASSUME NEW j \in DOMAIN U PROVE OperandVariable(b, U[j])' = OperandVariable(b, U[j])
    <3>1. PICK u : u = U[j]
      OBVIOUS
    <3>2. Reaches(compilers[b], u)
      <4>1. PICK t : t = Top
        OBVIOUS
      <4>2. t \in 2..Top /\ t - 1 = b /\ U = compilers[t].upvalues
        BY ONLY <1>2, <2>1, <4>1
      <4>3. Reaches(compilers[t - 1], compilers[t].upvalues[j])
        BY ONLY <1>4, <4>2, <2>3 DEF Operands
      <4> QED BY ONLY <3>1, <4>2, <4>3
    <3>3. DOMAIN compilers[b].locals = 1..Len(compilers[b].locals)
      BY <1>2, <1>4
    <3>4. DOMAIN compilers[b].upvalues = 1..Len(compilers[b].upvalues)
      BY <1>2, <1>5 DEF Resolved
    <3>5. \A i \in 1..Len(compilers[b].locals) : LocalVariable(b, i)' = LocalVariable(b, i)
      <4>1. b \in 1..b
        BY <1>2
      <4>2. Alike(compilers[b], compilers'[b])
        BY <1>2, <4>1
      <4>3. \A i \in DOMAIN compilers[b].locals : LocalVariable(b, i)' = LocalVariable(b, i)
        BY ONLY <4>2 DEF Alike, LocalVariable
      <4> QED BY ONLY <3>3, <4>3
    <3>6. \A i \in 1..Len(compilers[b].upvalues) : UpvalueVariables'[b][i] = UpvalueVariables[b][i]
      BY <1>2, <1>7
    <3>7. OperandVariable(b, u)' = OperandVariable(b, u)
      BY ONLY <3>2, <3>3, <3>4, <3>5, <3>6, OperandKept
    <3> QED BY ONLY <3>1, <3>7
  <2> QED BY <1>1, <1>2, <1>3, <1>4, <1>5, <2>1, <2>2, <2>3, ClosureAnswer
<1>12. Promise!Fn > 1 /\ Promise!Depth = 2
  BY <1>2, <1>3, <1>5 DEF BlocksNow
<1> HIDE DEF Captures, Classes, Blocks, Answer
<1> QED BY <1>6, <1>8, <1>9, <1>10, <1>11, <1>12 DEF Promise!EndFunction

-----------------------------------------------------------------------------
(* Classes *)

\* Between the methods of the innermost class
LEMMA InClass ==
  ASSUME LexicalInv, ~hadError, InClassBody, pc # "initializer", NEW m, m = Len(classes)
  PROVE  /\ m \in Nat \ {0} /\ DOMAIN classes = 1..m /\ Last(classes) = classes[m]
         /\ classes[m].fn = Top /\ classes[m].name \in Name /\ classes[m].hasSuperclass \in BOOLEAN
         /\ \A k \in 1..m : /\ classes[k].fn \in 1..Top /\ (k # m => classes[k].fn < Top)
                            /\ classes[k].hasSuperclass \in BOOLEAN
         /\ (Supered(Top) <=> classes[m].hasSuperclass) /\ Classed(Top)
         /\ Accepts(Top, current, FALSE, classes[m].hasSuperclass)
<1>1. /\ IInv /\ ClassesNest /\ Top \in 1..Top /\ Accepts(Top, current, Waits(Top), Supered(Top))
  BY Open, Unfold
<1>2. /\ m \in Nat \ {0} /\ DOMAIN classes = 1..m /\ Last(classes) = classes[m] /\ classes[m].fn = Top
      /\ \A k \in 1..m : classes[k] \in ClassType /\ classes[k].fn \in 1..Top
  BY <1>1, ClassFacts
<1>3. \A x \in ClassType : x.name \in Name /\ x.hasSuperclass \in BOOLEAN
  BY DEF ClassType
<1>4. \A k \in 1..m : k # m => classes[k].fn < Top
  BY <1>1, <1>2 DEF ClassesNest
<1>5. m \in 1..m
  BY <1>2
<1>6. (Supered(Top) <=> classes[m].hasSuperclass) /\ Classed(Top)
  <2>1. \A k \in 1..m : classes[k].fn = Top => k = m
    BY <1>2, <1>4
  <2> QED BY <1>2, <1>5, <2>1 DEF Supered, Classed
<1>7. Accepts(Top, current, FALSE, classes[m].hasSuperclass)
  <2>1. PICK h : h = classes[m].hasSuperclass
    OBVIOUS
  <2>2. h <=> Supered(Top)
    BY <1>6, <2>1
  <2> HIDE DEF Waits, Supered
  <2>3. Accepts(Top, current, FALSE, h)
    BY <1>1, <2>2 DEF Accepts
  <2> QED BY <2>1, <2>3
<1> QED BY <1>2, <1>3, <1>4, <1>5, <1>6, <1>7

\* The classes after a step
LEMMA ClassesNext ==
  ASSUME ~hadError', NEW m, DOMAIN classes' = 1..m
  PROVE  Classes' = [k \in 1..m |-> [name |-> classes'[k].name,
                                     super |-> IF classes'[k].hasSuperclass
                                               THEN <<classes'[k].fn, compilers'[classes'[k].fn].scopeDepth + 1>>
                                               ELSE <<0, 0>>]]
BY DEF Classes, SuperPlace

\* The classes before it, with the same words
LEMMA ClassesHere ==
  ASSUME IInv, ~hadError, NEW m, m = Len(classes), NEW C, C = Classes
  PROVE  /\ C = [k \in 1..m |-> [name |-> classes[k].name,
                                 super |-> IF classes[k].hasSuperclass
                                           THEN <<classes[k].fn, compilers[classes[k].fn].scopeDepth + 1>>
                                           ELSE <<0, 0>>]]
         /\ m \in Nat /\ C = [k \in 1..m |-> C[k]] /\ Len(C) = m /\ (C = <<>> <=> classes = <<>>)
         /\ m # 0 => Last(C) = C[m] /\ Front(C) = [k \in 1..m - 1 |-> C[k]]
<1>1. /\ ClassesNow /\ Len(Classes) = Len(classes) /\ (Classes = <<>> <=> classes = <<>>) /\ m \in Nat
  BY ClassesAre
<1>2. C = [k \in 1..m |-> [name |-> classes[k].name,
                           super |-> IF classes[k].hasSuperclass
                                     THEN <<classes[k].fn, compilers[classes[k].fn].scopeDepth + 1>>
                                     ELSE <<0, 0>>]]
  BY <1>1 DEF ClassesNow, SuperPlace
<1>3. C = [k \in 1..m |-> C[k]]
  BY <1>2
<1>4. ASSUME m # 0 PROVE Last(C) = C[m] /\ Front(C) = [k \in 1..m - 1 |-> C[k]]
  <2>1. m \in Nat \ {0}
    BY <1>1, <1>4
  <2> QED BY ONLY <2>1, <1>3, ListedLess
<1> HIDE DEF Classes
<1> QED BY <1>1, <1>2, <1>3, <1>4

\* classDeclaration up to the name
LEMMA ClassDeclarationFollows ==
  ASSUME LexicalInv, IInv', ~hadError, ~hadError', NEW n \in Name, ClassDeclaration(n)
  PROVE  Accepted' /\ Promise!BeginClass(n)
<1> DEFINE d == MarkInitialized(DeclareVariable(current, n))
           x == [name |-> n, hasSuperclass |-> FALSE, fn |-> Top]
<1>1. /\ work = NoWork /\ work' = NoWork /\ pc = "statement" /\ ~InClassBody /\ compilers' = With(d)
      /\ classes' = Append(classes, x) /\ pc' = "class" /\ todo' = <<>>
      /\ Finish(DeclareError(current, n), <<>>)
  BY DEF ClassDeclaration, AtStatement, Ready
<1>2. /\ IInv /\ Accepted /\ hadError \in BOOLEAN /\ Top \in 1..Top /\ Top \in Nat \ {0}
      /\ \A k \in DOMAIN classes : classes[k].fn < Top
  BY <1>1, AtHome, Open, Unfold DEF Control
<1>3. DeclareError(current, n) = NoError /\ emitted' = <<>>
  BY <1>1, <1>2, Finished
<1>4. /\ Fits(d) /\ Settled(d) /\ Accepts(Top, d, TRUE, FALSE) /\ d.upvalues = current.upvalues
      /\ d.scopeDepth = current.scopeDepth /\ [Blocks EXCEPT ![Top] = BlocksOf(d)] = Promise!Declared(n, TRUE)
      /\ Promise!MayDeclare(n)
  BY <1>1, <1>3, DeclaresHere
<1> HIDE DEF d
<1>5. /\ Blocks' = Promise!Declared(n, TRUE) /\ BlocksNow /\ Captures' = Captures /\ Answer' = {}
      /\ Top' = Top /\ \A g \in 1..Top : compilers'[g] = IF g = Top THEN d ELSE compilers[g]
  <2>1. /\ Blocks' = [Blocks EXCEPT ![Top] = BlocksOf(d)] /\ BlocksNow
        /\ Captures' = Captures /\ (emitted' = <<>> => Answer' = {})
        /\ Top' = Top /\ \A g \in 1..Top : compilers'[g] = IF g = Top THEN d ELSE compilers[g]
    BY <1>1, <1>4, TopEdited
  <2> HIDE DEF Blocks, Captures, Answer
  <2> QED BY <1>3, <1>4, <2>1
<1>6. PICK m : m = Len(classes)
  OBVIOUS
<1>7. x.name = n /\ x.hasSuperclass = FALSE /\ x.fn = Top
  OBVIOUS
<1> HIDE DEF x
<1>8. /\ m \in Nat /\ DOMAIN classes = 1..m
      /\ DOMAIN classes' = 1..m + 1 /\ classes'[m + 1] = x /\ \A k \in 1..m : classes'[k] = classes[k]
      /\ Last(classes') = x
  <2>1. classes \in Seq(ClassType) /\ DOMAIN classes = 1..m /\ m \in Nat
    BY <1>2, <1>6, ClassFacts
  <2>2. PICK s : s = [k \in 1..m + 1 |-> IF k = m + 1 THEN x ELSE classes[k]]
    OBVIOUS
  <2>3. PICK c : c = classes
    OBVIOUS
  <2>4. c = [k \in 1..m |-> c[k]]
    BY <2>1, <2>3
  <2>5. Append(c, x) = s
    <3>1. m \in Nat
      BY <2>1
    <3>2. Append(c, x) = [k \in 1..m + 1 |-> IF k = m + 1 THEN x ELSE c[k]]
      BY ONLY <2>4, <3>1, ListedMore
    <3> QED BY ONLY <2>2, <2>3, <3>2
  <2>6. Len(s) = m + 1
    <3>1. s = [k \in 1..m + 1 |-> s[k]] /\ m + 1 \in Nat
      BY ONLY <2>1, <2>2
    <3> QED BY ONLY <3>1, Listed
  <2>7. classes' = s
    BY <1>1, <2>3, <2>5
  <2>8. \A k \in 1..m : k \in 1..m + 1 /\ k # m + 1
    BY <2>1
  <2>9. m + 1 \in 1..m + 1
    BY <2>1
  <2> QED BY <2>1, <2>2, <2>6, <2>7, <2>8, <2>9 DEF Last
<1>9. /\ \A g : g # Top => (Classed(g)' <=> Classed(g))
      /\ \A g : Supered(g)' <=> Supered(g)
      /\ ~Supered(Top)
  <2>1. \A k \in 1..m : k \in 1..m + 1
    BY <1>8
  <2>2. \A k \in 1..m + 1 : k = m + 1 \/ k \in 1..m
    BY <1>8
  <2>3. m + 1 \in 1..m + 1
    BY <1>8
  <2>4. ASSUME NEW g, g # Top PROVE Classed(g)' <=> Classed(g)
    BY <1>7, <1>8, <2>1, <2>2, <2>4 DEF Classed
  <2>5. ASSUME NEW g PROVE Supered(g)' <=> Supered(g)
    BY <1>7, <1>8, <2>1, <2>2 DEF Supered
  <2>6. ~Supered(Top)
    BY <1>2 DEF Supered
  <2> HIDE DEF Classed, Supered
  <2> QED BY <2>4, <2>5, <2>6
<1>10. Accepted'
  <2>1. SupersDue' /\ NoSuperYet'
    BY <1>1, <1>7, <1>8 DEF SupersDue, NoSuperYet
  <2>2. PICK f \in 1..Top : f = Top
    BY <1>2
  <2>3. ~Waits(f)'
    BY <1>1, <1>5, <2>2 DEF Waits
  <2>4. \A g \in 1..Top : g # f => (Waits(g)' => Waits(g))
    <3> SUFFICES ASSUME NEW g \in 1..Top, g # f PROVE Waits(g)' => Waits(g)
      OBVIOUS
    <3>1. (Waits(g)' <=> ~Classed(g)') /\ (Waits(g) <=> ~Classed(g))
      BY <1>5, <2>2 DEF Waits
    <3> HIDE DEF Waits, Classed
    <3> QED BY <1>9, <2>2, <3>1
  <2>5. Accepts(f, d, Waits(f)', Supered(f)')
    <3>1. ~Supered(f)' /\ Accepts(f, d, TRUE, FALSE)
      <4> HIDE DEF Supered
      <4> QED BY <1>4, <1>9, <2>2
    <3> HIDE DEF Waits, Supered
    <3> QED BY <2>3, <3>1 DEF Accepts
  <2> HIDE DEF Waits, Supered
  <2> QED BY <1>2, <1>5, <1>9, <2>1, <2>2, <2>4, <2>5, AcceptedEdit
<1>11. Classes' = Append(Classes, [name |-> n, super |-> <<0, 0>>])
  <2>1. PICK C : C = Classes
    OBVIOUS
  <2>2. /\ C = [k \in 1..m |-> [name |-> classes[k].name,
                                super |-> IF classes[k].hasSuperclass
                                          THEN <<classes[k].fn, compilers[classes[k].fn].scopeDepth + 1>>
                                          ELSE <<0, 0>>]]
        /\ C = [k \in 1..m |-> C[k]]
    BY <1>2, <1>6, <2>1, ClassesHere
  <2>3. Classes' = [k \in 1..m + 1 |-> [name |-> classes'[k].name,
                                        super |-> IF classes'[k].hasSuperclass
                                                  THEN <<classes'[k].fn, compilers'[classes'[k].fn].scopeDepth + 1>>
                                                  ELSE <<0, 0>>]]
    <3>1. PICK q : q = m + 1
      OBVIOUS
    <3>2. DOMAIN classes' = 1..q
      BY <1>8, <3>1
    <3> QED BY ONLY <3>1, <3>2, ~hadError', ClassesNext
  <2>4. PICK z : z = [name |-> n, super |-> <<0, 0>>]
    OBVIOUS
  <2>5. Append(C, z) = [k \in 1..m + 1 |-> IF k = m + 1 THEN z ELSE C[k]]
    BY ONLY <1>8, <2>2, ListedMore
  <2>6. ASSUME NEW k \in 1..m + 1
        PROVE  (IF k = m + 1 THEN z ELSE C[k])
                 = [name |-> classes'[k].name,
                    super |-> IF classes'[k].hasSuperclass
                              THEN <<classes'[k].fn, compilers'[classes'[k].fn].scopeDepth + 1>>
                              ELSE <<0, 0>>]
    <3>1. CASE k = m + 1
      BY <1>7, <1>8, <2>4, <3>1
    <3>2. CASE k # m + 1
      <4>1. k \in 1..m /\ classes'[k] = classes[k]
        BY <1>8, <3>2
      <4>2. classes[k].fn \in 1..Top /\ classes[k].fn # Top
        BY <1>2, <1>8, <4>1, ClassFacts
      <4>3. compilers'[classes[k].fn] = compilers[classes[k].fn]
        BY <1>5, <4>2
      <4> QED BY ONLY <2>2, <3>2, <4>1, <4>3
    <3> QED BY <3>1, <3>2
  <2> HIDE DEF Classes
  <2> QED BY ONLY <2>1, <2>3, <2>4, <2>5, <2>6
<1> HIDE DEF Captures, Classes, Blocks, Answer
<1> QED BY <1>4, <1>5, <1>10, <1>11 DEF Promise!BeginClass, Promise!Nowhere

\* The scope of a superclass: it has one variable, "super".
LEMMA SuperScope ==
  ASSUME NEW c, Fits(c), Settled(c), c.scopeDepth < MaxScope, NEW f, Accepts(f, c, FALSE, FALSE),
         Len(c.locals) # UINT8_COUNT
  PROVE  LET e == MarkInitialized(AddLocal([c EXCEPT !.scopeDepth = @ + 1], "super"))
         IN /\ Fits(e) /\ e.upvalues = c.upvalues /\ e.scopeDepth = c.scopeDepth + 1
            /\ Accepts(f, e, FALSE, TRUE) /\ BlocksOf(e) = Append(BlocksOf(c), Promise!Block({"super"}))
<1> DEFINE b == [c EXCEPT !.scopeDepth = @ + 1]
           a == AddLocal(b, "super")
           e == MarkInitialized(a)
<1>1. PICK n : n = "super"
  OBVIOUS
<1>2. PICK x, s : x = Len(c.locals) + 1 /\ s = c.scopeDepth + 1
  OBVIOUS
<1>3. Scoped(c) /\ Plain(c)
  BY ArePlain DEF Accepts
<1>4. /\ Len(c.locals) \in Nat \ {0} /\ DOMAIN c.locals = 1..Len(c.locals) /\ c.scopeDepth \in Nat
      /\ s \in Nat /\ s > 0 /\ s = c.scopeDepth + 1 /\ x = Len(c.locals) + 1 /\ x \in 1..x /\ Len(c.locals) \in 1..x
      /\ \A i \in 1..Len(c.locals) : c.locals[i].depth \in Int /\ BlockOf(c, i) \in 0..c.scopeDepth
  BY <1>2, <1>3 DEF Plain
<1>5. /\ Fits(b) /\ Settled(b) /\ b.upvalues = c.upvalues /\ b.scopeDepth = s /\ b.locals = c.locals
      /\ b.scopeDepth > 0
  BY <1>2, DeeperFacts
<1> HIDE DEF b
<1>6. Fits(a) /\ HasVariable(a)
  BY <1>5, AddFacts
<1>7. /\ Len(a.locals) = x /\ DOMAIN a.locals = 1..x
      /\ \A i \in 1..Len(c.locals) : a.locals[i] = c.locals[i]
      /\ a.locals[x] = Local(n, -1) /\ a.scopeDepth = s /\ a.upvalues = c.upvalues
  <2>1. Len(b.locals) # UINT8_COUNT /\ Len(b.locals) + 1 = x /\ Len(b.locals) = Len(c.locals)
    BY <1>4, <1>5
  <2>2. PICK z : z = AddLocal(b, n)
    OBVIOUS
  <2>3. /\ Len(z.locals) = Len(b.locals) + 1 /\ DOMAIN z.locals = 1..Len(b.locals) + 1
        /\ \A i \in 1..Len(b.locals) : z.locals[i] = b.locals[i]
        /\ z.locals[Len(b.locals) + 1] = Local(n, -1)
        /\ z.scopeDepth = b.scopeDepth /\ z.upvalues = b.upvalues
    BY ONLY <1>5, <2>1, <2>2, AddShape
  <2>4. a = z
    BY <1>1, <2>2
  <2> HIDE DEF a
  <2> QED BY ONLY <1>5, <2>1, <2>3, <2>4
<1> HIDE DEF a
<1>8. Fits(e)
  BY <1>6, MarkFacts
<1>9. /\ Len(e.locals) = x /\ DOMAIN e.locals = 1..x
      /\ \A i \in 1..x : i # x => e.locals[i] = a.locals[i]
      /\ e.locals[x] = [a.locals[x] EXCEPT !.depth = s] /\ e.scopeDepth = s /\ e.upvalues = c.upvalues
  <2>1. a.scopeDepth > 0
    BY <1>4, <1>7
  <2> QED BY <1>6, <1>7, <2>1, MarkShape
<1> HIDE DEF e
<1>10. e.locals[x] = Local(n, s) /\ \A i \in 1..Len(c.locals) : e.locals[i] = c.locals[i]
  <2>1. \A i \in 1..Len(c.locals) : i # x /\ i \in 1..x
    BY <1>4
  <2> QED BY <1>7, <1>9, <2>1, LocalMarked
<1>11. \A i \in 1..Len(c.locals) : BlockOf(b, i) = BlockOf(c, i)
  BY <1>4, <1>5 DEF BlockOf, Settled
<1>12. n \notin DOMAIN BlockAt(b, s)
  <2>1. \A i \in 1..Len(c.locals) : BlockOf(b, i) # s
    BY <1>4, <1>11
  <2>2. DOMAIN BlockAt(b, s) = {b.locals[i].name : i \in {i \in DOMAIN b.locals : BlockOf(b, i) = s}}
    BY DEF BlockAt
  <2> QED BY <1>4, <1>5, <2>1, <2>2
<1>13. Plain(b) /\ Scoped(b)
  <2>1. \A i \in 2..Len(c.locals) : i \in 1..Len(c.locals)
    BY <1>4
  <2>2. Scoped(b)
    BY <1>3, <1>4, <1>5, <1>11, <2>1 DEF Scoped
  <2> QED BY <1>5, <2>2, ArePlain
<1>14. Scoped(e) /\ EndsHere(e) /\ e.locals[x].name = n /\ e.locals[1] = c.locals[1] /\ Distinct(e)
  <2>1. n \in Name \cup {"super"} /\ b.scopeDepth = s /\ x = Len(b.locals) + 1
    BY <1>1, <1>4, <1>5
  <2>2. n \notin DOMAIN BlockAt(b, b.scopeDepth) /\ e.scopeDepth = b.scopeDepth
    BY <1>5, <1>9, <1>12
  <2>3. /\ \A i \in 1..Len(b.locals) : e.locals[i] = b.locals[i]
        /\ Len(e.locals) = x /\ DOMAIN e.locals = 1..x /\ e.locals[x] = Local(n, b.scopeDepth)
    BY <1>5, <1>9, <1>10
  <2>4. Scoped(e) /\ EndsHere(e) /\ e.locals[x].name = n /\ e.locals[1] = b.locals[1] /\ Distinct(e)
    <3>1. PICK d : d = b.scopeDepth
      OBVIOUS
    <3>2. /\ d = -1 \/ d = b.scopeDepth
          /\ e.locals[x] = Local(n, d)
      BY ONLY <2>3, <3>1
    <3>3. Plain(b) /\ Scoped(b) /\ b.scopeDepth > 0
      BY <1>5, <1>13
    <3> QED BY ONLY <2>1, <2>2, <2>3, <3>2, <3>3, AddScoped, ZenonT(120)
  <2> QED BY <1>5, <2>4
<1>15. BlocksOf(e) = Append(BlocksOf(c), Promise!Block({n}))
  <2>1. /\ Plain(c) /\ Settled(c) /\ b.locals = c.locals /\ b.scopeDepth = c.scopeDepth + 1 /\ Distinct(e)
        /\ x = Len(c.locals) + 1 /\ DOMAIN e.locals = 1..x
        /\ \A i \in 1..Len(c.locals) : e.locals[i] = c.locals[i]
        /\ e.locals[x] = Local(n, b.scopeDepth) /\ e.scopeDepth = b.scopeDepth
    BY <1>3, <1>4, <1>5, <1>9, <1>10, <1>14
  <2>2. PICK g : g = e
    OBVIOUS
  <2>3. PICK h : h = b
    OBVIOUS
  <2>4. /\ h.locals = c.locals /\ h.scopeDepth = c.scopeDepth + 1 /\ Distinct(g)
        /\ DOMAIN g.locals = 1..x /\ \A i \in 1..Len(c.locals) : g.locals[i] = c.locals[i]
        /\ g.locals[x] = Local(n, h.scopeDepth) /\ g.scopeDepth = h.scopeDepth
    BY ONLY <2>1, <2>2, <2>3
  <2>5. Plain(c) /\ Settled(c) /\ x = Len(c.locals) + 1
    BY <2>1
  <2>6. BlocksOf(g) = Append(BlocksOf(c), Promise!Block({n}))
    BY ONLY <2>4, <2>5, InheritBlocks, ZenonT(120)
  <2> QED BY ONLY <2>2, <2>6
<1>16. Accepts(f, e, FALSE, TRUE)
  <2>1. Last(e.locals).name = "super"
    BY <1>1, <1>9, <1>14 DEF Last
  <2>2. \A i \in DOMAIN e.locals : e.locals[i].name = "super" => i = Len(e.locals)
    <3> SUFFICES ASSUME NEW i \in 1..x, i # x PROVE e.locals[i].name # "super"
      BY <1>9
    <3>1. i \in 1..Len(c.locals)
      BY <1>4
    <3> QED BY <1>4, <1>10, <3>1 DEF Accepts
  <2>3. /\ f # 1 => c.scopeDepth > 0 /\ c.locals[1].name \in {"none", "this"}
        /\ f = 1 => c.locals[1].name = "this"
        /\ \A i, j \in DOMAIN c.upvalues : i # j => ~Same(c.upvalues[i], c.upvalues[j])
    BY DEF Accepts
  <2>4. e.scopeDepth > 0 /\ e.scopeDepth > IF f = 1 THEN 0 ELSE 1
    BY <1>4, <1>9, <2>3
  <2> QED BY <1>9, <1>14, <2>1, <2>2, <2>3, <2>4 DEF Accepts
<1>17. e.scopeDepth = c.scopeDepth + 1
  BY <1>4, <1>9
<1> QED BY <1>1, <1>8, <1>9, <1>15, <1>16, <1>17 DEF e, a, b

\* classDeclaration, from the superclass's name to the body
LEMMA InheritFollows ==
  ASSUME LexicalInv, IInv', ~hadError, ~hadError', Inherit
  PROVE  Accepted' /\ Promise!Inherit
<1> DEFINE d == MarkInitialized(AddLocal([current EXCEPT !.scopeDepth = @ + 1], "super"))
           self == IF pc = "inherits_itself" THEN Report("inherits_itself", Last(classes).name) ELSE NoError
           full == IF Len(current.locals) = UINT8_COUNT THEN Report("too_many_locals", "super") ELSE NoError
<1>1. /\ work = NoWork /\ work' = NoWork /\ pc \in {"inherits", "inherits_itself"} /\ pc # "initializer"
      /\ compilers' = With(d) /\ pc' = "statement" /\ todo' = <<Last(classes).name, Last(classes).name>>
      /\ Finish(First(self, full), <<>>)
      /\ classes' = [classes EXCEPT ![Len(classes)].hasSuperclass = TRUE]
  BY DEF Inherit, Ready
<1>2. /\ IInv /\ Accepted /\ NoSuperYet /\ hadError \in BOOLEAN /\ Top \in 1..Top /\ Top \in Nat \ {0}
      /\ Fits(current) /\ Settled(current) /\ InClassBody /\ current.scopeDepth < MaxScope
      /\ current = compilers[Top] /\ Plain(current)
  BY <1>1, Open, Unfold DEF Control, ClassesNest
<1>3. PICK m : m = Len(classes)
  OBVIOUS
<1>4. /\ m \in Nat \ {0} /\ DOMAIN classes = 1..m /\ Last(classes) = classes[m]
      /\ classes[m].fn = Top /\ classes[m].name \in Name /\ classes[m].hasSuperclass \in BOOLEAN
      /\ \A k \in 1..m : /\ classes[k].fn \in 1..Top /\ (k # m => classes[k].fn < Top)
                         /\ classes[k].hasSuperclass \in BOOLEAN
      /\ (Supered(Top) <=> classes[m].hasSuperclass) /\ Classed(Top)
      /\ Accepts(Top, current, FALSE, classes[m].hasSuperclass)
  BY <1>1, <1>2, <1>3, InClass
<1>5. classes[m].hasSuperclass = FALSE
  BY <1>1, <1>2, <1>4 DEF NoSuperYet
<1>6. First(self, full) = NoError /\ emitted' = <<>>
  BY <1>1, <1>2, Finished
<1>7. Len(current.locals) # UINT8_COUNT
  BY <1>6 DEF First, NoError, Report
<1> HIDE DEF self, full
<1>8. /\ Fits(d) /\ d.upvalues = current.upvalues /\ d.scopeDepth = current.scopeDepth + 1
      /\ Accepts(Top, d, FALSE, TRUE) /\ BlocksOf(d) = Append(BlocksOf(current), Promise!Block({"super"}))
  <2>1. PICK f : f = Top
    OBVIOUS
  <2>2. PICK c : c = current
    OBVIOUS
  <2>3. Fits(c) /\ Settled(c) /\ c.scopeDepth < MaxScope /\ Accepts(f, c, FALSE, FALSE) /\ Len(c.locals) # UINT8_COUNT
    BY <1>2, <1>4, <1>5, <1>7, <2>1, <2>2
  <2>4. PICK e : e = MarkInitialized(AddLocal([c EXCEPT !.scopeDepth = @ + 1], "super"))
    OBVIOUS
  <2>5. /\ Fits(e) /\ e.upvalues = c.upvalues /\ e.scopeDepth = c.scopeDepth + 1
        /\ Accepts(f, e, FALSE, TRUE) /\ BlocksOf(e) = Append(BlocksOf(c), Promise!Block({"super"}))
    BY ONLY <2>3, <2>4, SuperScope
  <2>6. e = d
    BY <2>2, <2>4
  <2> HIDE DEF d
  <2> QED BY ONLY <2>1, <2>2, <2>5, <2>6
<1> HIDE DEF d
<1>9. /\ Blocks' = [Blocks EXCEPT ![Top] = BlocksOf(d)] /\ BlocksNow /\ Captures' = Captures /\ Answer' = {}
      /\ Top' = Top /\ \A g \in 1..Top : compilers'[g] = IF g = Top THEN d ELSE compilers[g]
  <2>1. /\ Blocks' = [Blocks EXCEPT ![Top] = BlocksOf(d)] /\ BlocksNow
        /\ Captures' = Captures /\ (emitted' = <<>> => Answer' = {})
        /\ Top' = Top /\ \A g \in 1..Top : compilers'[g] = IF g = Top THEN d ELSE compilers[g]
    BY <1>1, <1>8, TopEdited
  <2> HIDE DEF Blocks, Captures, Answer
  <2> QED BY <1>6, <2>1
<1>10. /\ DOMAIN classes' = 1..m /\ \A k \in 1..m : k # m => classes'[k] = classes[k]
       /\ classes'[m].fn = Top /\ classes'[m].name = classes[m].name /\ classes'[m].hasSuperclass = TRUE
  <2>1. PICK x : x = [classes[m] EXCEPT !.hasSuperclass = TRUE]
    OBVIOUS
  <2>2. x.hasSuperclass = TRUE /\ x.fn = Top /\ x.name = classes[m].name
    <3>1. classes[m] \in ClassType
      BY <1>2, <1>3, <1>4, ClassFacts
    <3> QED BY <1>4, <2>1, <3>1 DEF ClassType
  <2>3. classes' = [classes EXCEPT ![m] = x]
    BY <1>1, <1>3, <2>1
  <2> QED BY <1>4, <2>2, <2>3
<1>11. /\ \A g : Classed(g)' <=> Classed(g)
       /\ \A g : g # Top => (Supered(g)' <=> Supered(g))
       /\ \A f : f = Top => Supered(f)'
  <2>1. \A k \in 1..m : classes'[k].fn = classes[k].fn
    BY <1>4, <1>10
  <2>2. \A g : Classed(g)' <=> Classed(g)
    BY <1>4, <1>10, <2>1 DEF Classed
  <2>3. ASSUME NEW g, g # Top PROVE Supered(g)' <=> Supered(g)
    <3>1. \A k \in 1..m : classes[k].fn = g \/ classes'[k].fn = g => k # m
      BY <1>4, <2>1, <2>3
    <3> QED BY <1>4, <1>10, <3>1 DEF Supered
  <2>4. m \in DOMAIN classes'
    BY <1>4, <1>10
  <2>5. \A f : f = Top => Supered(f)'
    BY <1>10, <2>4 DEF Supered
  <2> HIDE DEF Classed, Supered
  <2> QED BY <2>2, <2>3, <2>5
<1>12. Accepted'
  <2>1. SupersDue' /\ NoSuperYet'
    <3>1. \A j \in DOMAIN todo' : todo'[j] \in Name
      BY <1>1, <1>4
    <3>2. "super" \notin Name
      BY ScopesAssumption
    <3> QED BY <1>1, <3>1, <3>2 DEF SupersDue, NoSuperYet
  <2>2. PICK f \in 1..Top : f = Top
    BY <1>2
  <2>3. ~Waits(f)'
    BY <1>1, <1>9, <2>2 DEF Waits
  <2>4. \A g \in 1..Top : g # f => (Waits(g)' => Waits(g)) /\ (Supered(g)' <=> Supered(g))
    <3> SUFFICES ASSUME NEW g \in 1..Top, g # f PROVE (Waits(g)' => Waits(g)) /\ (Supered(g)' <=> Supered(g))
      OBVIOUS
    <3>1. (Waits(g)' <=> ~Classed(g)') /\ (Waits(g) <=> ~Classed(g))
      BY <1>9, <2>2 DEF Waits
    <3> HIDE DEF Waits, Classed, Supered
    <3> QED BY <1>11, <2>2, <3>1
  <2>5. Accepts(f, d, Waits(f)', Supered(f)')
    <3>1. Supered(f)' /\ Accepts(f, d, FALSE, TRUE)
      <4> HIDE DEF Supered
      <4> QED BY <1>8, <1>11, <2>2
    <3> HIDE DEF Waits, Supered
    <3> QED BY <2>3, <3>1 DEF Accepts
  <2>6. Top' = Top /\ \A g \in 1..Top : compilers'[g] = IF g = f THEN d ELSE compilers[g]
    BY <1>9, <2>2
  <2> HIDE DEF Waits, Supered
  <2> QED BY ONLY <1>2, <2>1, <2>4, <2>5, <2>6, AcceptedEdit
<1>13. /\ Classes # <<>> /\ Promise!Last(Classes).super = <<0, 0>>
       /\ Classes' = [Classes EXCEPT ![Len(Classes)].super = <<Promise!Fn, Promise!Depth + 1>>]
  <2>1. PICK C : C = Classes
    OBVIOUS
  <2>2. /\ C = [k \in 1..m |-> [name |-> classes[k].name,
                                super |-> IF classes[k].hasSuperclass
                                          THEN <<classes[k].fn, compilers[classes[k].fn].scopeDepth + 1>>
                                          ELSE <<0, 0>>]]
        /\ Len(C) = m /\ (C = <<>> <=> classes = <<>>) /\ (m # 0 => Last(C) = C[m])
    BY <1>2, <1>3, <2>1, ClassesHere
  <2>3. Classes' = [k \in 1..m |-> [name |-> classes'[k].name,
                                    super |-> IF classes'[k].hasSuperclass
                                              THEN <<classes'[k].fn, compilers'[classes'[k].fn].scopeDepth + 1>>
                                              ELSE <<0, 0>>]]
    BY ONLY <1>10, ~hadError', ClassesNext
  <2>4. PICK p : p = <<Promise!Fn, Promise!Depth + 1>>
    OBVIOUS
  <2>5. compilers'[Top].scopeDepth + 1 = Promise!Depth + 1 /\ Promise!Fn = Top
    BY <1>2, <1>8, <1>9 DEF BlocksNow, Plain
  <2>6. m \in 1..m /\ C # <<>> /\ Last(C) = C[m] /\ C[m] = [name |-> classes[m].name, super |-> <<0, 0>>]
    <3>1. m \in 1..m /\ m # 0
      BY <1>4
    <3>2. classes # <<>>
      BY <1>4
    <3> QED BY <1>5, <2>2, <3>1, <3>2
  <2>7. \A k \in 1..m : [C EXCEPT ![m].super = p][k] = [name |-> classes'[k].name,
                                    super |-> IF classes'[k].hasSuperclass
                                              THEN <<classes'[k].fn, compilers'[classes'[k].fn].scopeDepth + 1>>
                                              ELSE <<0, 0>>]
    <3> SUFFICES ASSUME NEW k \in 1..m
                 PROVE  [C EXCEPT ![m].super = p][k]
                          = [name |-> classes'[k].name,
                             super |-> IF classes'[k].hasSuperclass
                                       THEN <<classes'[k].fn, compilers'[classes'[k].fn].scopeDepth + 1>>
                                       ELSE <<0, 0>>]
      OBVIOUS
    <3>1. DOMAIN C = 1..m
      BY <2>2
    <3>2. CASE k = m
      <4>1. [C EXCEPT ![m].super = p][m] = [name |-> classes[m].name, super |-> p]
        <5>1. [C EXCEPT ![m].super = p][m] = [C[m] EXCEPT !.super = p]
          BY ONLY <2>6, <3>1
        <5> QED BY ONLY <2>6, <5>1
      <4>2. p = <<classes'[m].fn, compilers'[classes'[m].fn].scopeDepth + 1>>
        BY <1>10, <2>4, <2>5
      <4> QED BY ONLY <1>10, <3>2, <4>1, <4>2
    <3>3. CASE k # m
      <4>1. [C EXCEPT ![m].super = p][k] = C[k]
        BY ONLY <3>1, <3>3, k \in 1..m
      <4>2. classes'[k] = classes[k] /\ classes[k].fn \in 1..Top /\ classes[k].fn # Top
        BY <1>4, <1>10, <3>3
      <4>3. compilers'[classes[k].fn] = compilers[classes[k].fn]
        BY <1>9, <4>2
      <4>4. C[k] = [name |-> classes[k].name,
                    super |-> IF classes[k].hasSuperclass
                              THEN <<classes[k].fn, compilers[classes[k].fn].scopeDepth + 1>>
                              ELSE <<0, 0>>]
        BY ONLY <2>2, k \in 1..m
      <4> QED BY ONLY <4>1, <4>2, <4>3, <4>4
    <3> QED BY <3>2, <3>3
  <2>8. Classes' = [C EXCEPT ![m].super = p]
    <3>1. PICK D : D = [C EXCEPT ![m].super = p]
      OBVIOUS
    <3>2. DOMAIN C = 1..m
      BY <2>2
    <3>3. D = [k \in 1..m |-> D[k]]
      BY ONLY <3>1, <3>2
    <3>4. \A k \in 1..m : D[k] = [name |-> classes'[k].name,
                                    super |-> IF classes'[k].hasSuperclass
                                              THEN <<classes'[k].fn, compilers'[classes'[k].fn].scopeDepth + 1>>
                                              ELSE <<0, 0>>]
      BY ONLY <2>7, <3>1
    <3> HIDE DEF Classes
    <3> QED BY ONLY <2>3, <3>1, <3>3, <3>4
  <2>9. \A s : Promise!Last(s) = Last(s)
    BY DEF Promise!Last, Last
  <2>10. C[m].super = <<0, 0>>
    BY <2>6
  <2> HIDE DEF Classes
  <2> QED BY ONLY <2>1, <2>2, <2>4, <2>6, <2>8, <2>9, <2>10
<1>14. Blocks' = [Blocks EXCEPT ![Promise!Fn] = Append(@, Promise!Block({"super"}))]
  <2>1. Promise!Fn = Top /\ Blocks[Top] = BlocksOf(current)
    BY <1>2, <1>9 DEF BlocksNow
  <2> HIDE DEF Blocks
  <2> QED BY <1>8, <1>9, <2>1
<1> HIDE DEF Captures, Classes, Blocks, Answer
<1> QED BY <1>9, <1>12, <1>13, <1>14 DEF Promise!Inherit, Promise!Nowhere

\* The innermost class ends, and leaves d of the function it is in.
LEMMA ClassEnded ==
  ASSUME LexicalInv, ~hadError, ~hadError', InClassBody, pc = "statement", pc' = "statement", todo' = <<>>,
         classes' = Front(classes), NEW d, Fits(d), compilers' = With(d), Accepts(Top, d, FALSE, FALSE)
  PROVE  Accepted' /\ Classes' = Front(Classes)
<1>1. IInv /\ Accepted /\ Top \in 1..Top /\ Top \in Nat \ {0}
  BY Open
<1>2. PICK m : m = Len(classes)
  OBVIOUS
<1>3. /\ m \in Nat \ {0} /\ DOMAIN classes = 1..m
      /\ classes[m].fn = Top
      /\ \A k \in 1..m : /\ classes[k].fn \in 1..Top /\ (k # m => classes[k].fn < Top)
  BY <1>1, <1>2, InClass
<1>4. Top' = Top /\ \A g \in 1..Top : compilers'[g] = IF g = Top THEN d ELSE compilers[g]
  BY <1>1, TopKept
<1>5. DOMAIN classes' = 1..m - 1 /\ \A k \in 1..m - 1 : classes'[k] = classes[k]
  <2>1. PICK c : c = classes
    OBVIOUS
  <2>2. classes \in Seq(ClassType)
    BY <1>1, ClassFacts
  <2>3. c = [k \in 1..m |-> c[k]]
    BY <1>3, <2>1, <2>2
  <2>4. Front(c) = [k \in 1..m - 1 |-> c[k]]
    BY ONLY <1>3, <2>3, ListedLess
  <2> QED BY <2>1, <2>4
<1>6. \A k \in 1..m : k \in 1..m - 1 <=> k # m
  BY <1>3
<1>7. \A k \in 1..m - 1 : k \in 1..m /\ k # m
  BY <1>3
<1>8. /\ \A g : g # Top => (Classed(g)' <=> Classed(g)) /\ (Supered(g)' <=> Supered(g))
      /\ \A f : f = Top => ~Supered(f)'
  <2>1. ASSUME NEW g, g # Top PROVE Classed(g)' <=> Classed(g)
    BY <1>3, <1>5, <1>6, <1>7, <2>1 DEF Classed
  <2>2. ASSUME NEW g, g # Top PROVE Supered(g)' <=> Supered(g)
    BY <1>3, <1>5, <1>6, <1>7, <2>2 DEF Supered
  <2>3. \A f : f = Top => ~Supered(f)'
    BY <1>3, <1>5, <1>7 DEF Supered
  <2> HIDE DEF Classed, Supered
  <2> QED BY <2>1, <2>2, <2>3
<1>9. Accepted'
  <2>1. SupersDue' /\ NoSuperYet'
    BY DEF SupersDue, NoSuperYet
  <2>2. PICK f \in 1..Top : f = Top
    BY <1>1
  <2>3. ~Waits(f)'
    BY <1>4, <2>2 DEF Waits
  <2>4. \A g \in 1..Top : g # f => (Waits(g)' => Waits(g)) /\ (Supered(g)' <=> Supered(g))
    <3> SUFFICES ASSUME NEW g \in 1..Top, g # f PROVE (Waits(g)' => Waits(g)) /\ (Supered(g)' <=> Supered(g))
      OBVIOUS
    <3>1. (Waits(g)' <=> ~Classed(g)') /\ (Waits(g) <=> ~Classed(g))
      BY <1>4, <2>2 DEF Waits
    <3> HIDE DEF Waits, Classed, Supered
    <3> QED BY <1>8, <2>2, <3>1
  <2>5. Accepts(f, d, Waits(f)', Supered(f)')
    <3>1. ~Supered(f)' /\ Accepts(f, d, FALSE, FALSE)
      <4> HIDE DEF Supered
      <4> QED BY <1>8, <2>2
    <3> HIDE DEF Waits, Supered
    <3> QED BY <2>3, <3>1 DEF Accepts
  <2>6. Top' = Top /\ \A g \in 1..Top : compilers'[g] = IF g = f THEN d ELSE compilers[g]
    BY <1>4, <2>2
  <2> HIDE DEF Waits, Supered
  <2> QED BY ONLY <1>1, <2>1, <2>4, <2>5, <2>6, AcceptedEdit
<1>10. Classes' = Front(Classes)
  <2>1. PICK C : C = Classes
    OBVIOUS
  <2>2. /\ C = [k \in 1..m |-> [name |-> classes[k].name,
                                super |-> IF classes[k].hasSuperclass
                                          THEN <<classes[k].fn, compilers[classes[k].fn].scopeDepth + 1>>
                                          ELSE <<0, 0>>]]
        /\ m # 0 => Front(C) = [k \in 1..m - 1 |-> C[k]]
    BY <1>1, <1>2, <2>1, ClassesHere
  <2>3. PICK q : q = m - 1
    OBVIOUS
  <2>4. DOMAIN classes' = 1..q
    BY <1>5, <2>3
  <2>5. Classes' = [k \in 1..q |-> [name |-> classes'[k].name,
                                    super |-> IF classes'[k].hasSuperclass
                                              THEN <<classes'[k].fn, compilers'[classes'[k].fn].scopeDepth + 1>>
                                              ELSE <<0, 0>>]]
    BY ONLY <2>4, ~hadError', ClassesNext
  <2>6. ASSUME NEW k \in 1..q
        PROVE  C[k] = [name |-> classes'[k].name,
                       super |-> IF classes'[k].hasSuperclass
                                 THEN <<classes'[k].fn, compilers'[classes'[k].fn].scopeDepth + 1>>
                                 ELSE <<0, 0>>]
    <3>1. k \in 1..m /\ k # m /\ classes'[k] = classes[k]
      BY <1>5, <1>7, <2>3
    <3>2. classes[k].fn \in 1..Top /\ classes[k].fn # Top
      BY <1>3, <3>1
    <3>3. compilers'[classes[k].fn] = compilers[classes[k].fn]
      BY <1>4, <3>2
    <3> QED BY ONLY <2>2, <3>1, <3>3
  <2>7. Front(C) = [k \in 1..q |-> C[k]]
    BY <1>3, <2>2, <2>3
  <2> HIDE DEF Classes
  <2> QED BY ONLY <2>1, <2>5, <2>6, <2>7
<1> QED BY <1>9, <1>10

\* classDeclaration, after the methods
LEMMA EndClassFollows ==
  ASSUME LexicalInv, IInv', ~hadError, ~hadError', EndClass
  PROVE  Accepted' /\ Promise!EndClass
<1>1. /\ work = NoWork /\ work' = NoWork /\ pc = "statement" /\ InClassBody /\ pc # "initializer"
      /\ classes' = Front(classes) /\ todo' = <<>> /\ pc' = "statement"
  BY DEF EndClass, Ready
<1>2. /\ IInv /\ hadError \in BOOLEAN /\ Top \in 1..Top /\ Top \in Nat \ {0}
      /\ Fits(current) /\ Settled(current) /\ current = compilers[Top] /\ Plain(current)
      /\ compilers \in Seq(CompilerType) /\ ClassesNest
  BY <1>1, Open, Unfold DEF Control, Bounded
<1>3. PICK m : m = Len(classes)
  OBVIOUS
<1>4. /\ m \in Nat \ {0} /\ DOMAIN classes = 1..m /\ Last(classes) = classes[m]
      /\ classes[m].fn = Top /\ classes[m].hasSuperclass \in BOOLEAN
      /\ Accepts(Top, current, FALSE, classes[m].hasSuperclass)
  BY <1>1, <1>2, <1>3, InClass
<1>5. /\ Classes # <<>> /\ Promise!Last(Classes).super = IF classes[m].hasSuperclass
                                                        THEN <<Promise!Fn, Promise!Depth>> ELSE <<0, 0>>
      /\ Promise!Fn # 0 /\ Promise!Fn = Top /\ Promise!Depth = current.scopeDepth + 1 /\ BlocksNow
  <2>1. PICK C : C = Classes
    OBVIOUS
  <2>2. /\ C = [k \in 1..m |-> [name |-> classes[k].name,
                                super |-> IF classes[k].hasSuperclass
                                          THEN <<classes[k].fn, compilers[classes[k].fn].scopeDepth + 1>>
                                          ELSE <<0, 0>>]]
        /\ (C = <<>> <=> classes = <<>>) /\ (m # 0 => Last(C) = C[m])
    BY <1>2, <1>3, <2>1, ClassesHere
  <2>3. m \in 1..m /\ m # 0 /\ classes # <<>>
    BY <1>4
  <2>4. \A s : Promise!Last(s) = Last(s)
    BY DEF Promise!Last, Last
  <2>5. Promise!Fn = Top /\ Promise!Depth = current.scopeDepth + 1 /\ Promise!Fn # 0 /\ BlocksNow
    <3>1. BlocksNow
      BY <1>2, BlocksAre
    <3> QED BY <1>2, <3>1 DEF BlocksNow
  <2>6. Promise!Last(C).super = IF classes[m].hasSuperclass
                                THEN <<classes[m].fn, compilers[classes[m].fn].scopeDepth + 1>> ELSE <<0, 0>>
    <3>1. Promise!Last(C) = C[m]
      BY ONLY <2>2, <2>3, <2>4
    <3>2. C[m] = [name |-> classes[m].name,
                  super |-> IF classes[m].hasSuperclass
                            THEN <<classes[m].fn, compilers[classes[m].fn].scopeDepth + 1>>
                            ELSE <<0, 0>>]
      BY ONLY <2>2, <2>3
    <3> QED BY ONLY <3>1, <3>2
  <2> HIDE DEF Classes
  <2> QED BY <1>2, <1>4, <2>1, <2>2, <2>3, <2>5, <2>6
<1>6. \A s : Promise!Front(s) = Front(s)
  BY DEF Promise!Front, Front
<1>7. CASE classes[m].hasSuperclass
  <2>1. PICK k \in 0..Len(current.locals) :
          Keeps(current, k) /\ compilers' = With(Ended(current, k)) /\ Finish(NoError, EndScopeCode(current, k))
    BY <1>4, <1>7 DEF EndClass
  <2> DEFINE d == Ended(current, k)
  <2>2. Accepts(Top, current, FALSE, TRUE)
    BY <1>4, <1>7
  <2>3. current.scopeDepth > (IF Top = 1 THEN 0 ELSE 1) /\ current.scopeDepth \in Nat /\ current.scopeDepth > 0
    <3>1. current.scopeDepth > (IF Top = 1 THEN 0 ELSE 1) /\ current.scopeDepth \in Nat
      BY <1>2, <2>2 DEF Accepts, Plain
    <3> QED BY <3>1
  <2>4. /\ Blocks' = [Blocks EXCEPT ![Promise!Fn] = Promise!Front(@)] /\ Captures' = Captures
        /\ Answer' = Promise!Ended(Promise!Here)
    BY <1>1, <2>1, <2>3, EndsBlock
  <2>5. /\ Fits(d) /\ Settled(d) /\ d.upvalues = current.upvalues /\ d.scopeDepth = current.scopeDepth - 1
        /\ k \in 1..Len(current.locals) /\ Len(d.locals) = k /\ DOMAIN d.locals = 1..k
        /\ \A i \in 1..k : d.locals[i] = current.locals[i]
        /\ \A i \in 1..k : current.locals[i].depth <= current.scopeDepth - 1
        /\ Scoped(d)
    BY <1>1, <2>1, <2>3, EndFacts
  <2> HIDE DEF d
  <2>6. Accepts(Top, d, FALSE, FALSE)
    <3>1. Top # 1 => d.scopeDepth > 0
      BY <2>3, <2>5
    <3>2. \A i \in 1..k : i \in DOMAIN current.locals
      BY <1>2, <2>5 DEF Plain
    <3>3. d.locals[1] = current.locals[1]
      BY <2>5
    <3>4. \A i \in DOMAIN d.locals : d.locals[i].name # "super"
      <4> SUFFICES ASSUME NEW i \in 1..k, d.locals[i].name = "super" PROVE FALSE
        BY <2>5
      <4>1. i = Len(current.locals) /\ current.locals[i] = d.locals[i]
        BY <2>2, <2>5, <3>2 DEF Accepts
      <4>2. BlockOf(current, i) = current.scopeDepth
        BY <2>2, <4>1 DEF Accepts, EndsHere
      <4>3. BlockOf(current, i) = current.locals[i].depth
        BY <1>2, <4>1 DEF BlockOf, Settled, Plain
      <4>4. current.locals[i].depth <= current.scopeDepth - 1
        BY <2>5
      <4> QED BY <2>3, <4>2, <4>3, <4>4
    <3> QED BY <2>2, <2>5, <3>1, <3>3, <3>4 DEF Accepts
  <2>7. Accepted' /\ Classes' = Front(Classes)
    BY <1>1, <2>1, <2>5, <2>6, ClassEnded DEF d
  <2>8. Promise!Last(Classes).super # <<0, 0>> /\ Promise!Last(Classes).super = <<Promise!Fn, Promise!Depth>>
    BY <1>5, <1>7
  <2> HIDE DEF Captures, Classes, Blocks, Answer
  <2> QED BY <1>5, <1>6, <2>4, <2>7, <2>8 DEF Promise!EndClass, Promise!Nowhere
<1>8. CASE ~classes[m].hasSuperclass
  <2>1. compilers' = compilers /\ Finish(NoError, <<>>)
    BY <1>4, <1>8 DEF EndClass
  <2>2. PICK d : d = current
    OBVIOUS
  <2>3. emitted' = <<>>
    BY <1>2, <2>1, Finished
  <2>4. Fits(d) /\ d.upvalues = current.upvalues /\ compilers' = With(d)
    BY <1>2, <2>1, <2>2 DEF With
  <2>5. Accepts(Top, d, FALSE, FALSE)
    BY <1>4, <1>8, <2>2
  <2>6. Accepted' /\ Classes' = Front(Classes)
    BY <1>1, <2>4, <2>5, ClassEnded
  <2>7. /\ Blocks' = [Blocks EXCEPT ![Top] = BlocksOf(d)] /\ BlocksNow /\ Captures' = Captures
        /\ Answer' = {}
    <3>1. /\ Blocks' = [Blocks EXCEPT ![Top] = BlocksOf(d)] /\ BlocksNow /\ Captures' = Captures
          /\ (emitted' = <<>> => Answer' = {})
      BY <1>1, <2>4, TopEdited
    <3> HIDE DEF Blocks, Captures, Answer
    <3> QED BY <2>3, <3>1
  <2>8. Blocks' = Blocks
    <3>1. Blocks = [f \in 1..Top |-> Blocks[f]] /\ Blocks[Top] = BlocksOf(d)
      BY <1>2, <2>2, <2>7 DEF BlocksNow
    <3> HIDE DEF Blocks
    <3> QED BY <2>7, <3>1
  <2>9. Promise!Last(Classes).super = <<0, 0>>
    BY <1>5, <1>8
  <2> HIDE DEF Captures, Classes, Blocks, Answer
  <2> QED BY <1>5, <1>6, <2>6, <2>7, <2>8, <2>9 DEF Promise!EndClass, Promise!Nowhere
<1> QED BY <1>7, <1>8

-----------------------------------------------------------------------------
(* Upvalues *)

\* The function f, whose arrays were c, has the upvalue u at i, now d.
UpvalueAdded(f, c, u, d, i) ==
  /\ compilers' = [compilers EXCEPT ![f] = d] /\ Fits(d)
  /\ d.locals = c.locals /\ d.scopeDepth = c.scopeDepth
  /\ DOMAIN d.upvalues = 1..Len(d.upvalues) /\ Len(c.upvalues) <= Len(d.upvalues)
  /\ \A j \in 1..Len(c.upvalues) : d.upvalues[j] = c.upvalues[j]
  /\ \A j \in 1..Len(d.upvalues) :
       \/ j \in 1..Len(c.upvalues)
       \/ /\ j = Len(c.upvalues) + 1 /\ d.upvalues[j] = u
          /\ \A k \in 1..Len(c.upvalues) : ~Same(c.upvalues[k], u)
  /\ i \in 1..Len(d.upvalues) /\ Same(d.upvalues[i], u)
  /\ IF f = Top THEN /\ work' = NoWork
                     /\ emitted' = <<Instruction("OP_GET_UPVALUE", i, work.name)>>
     ELSE work' = [level |-> f + 1, index |-> i, isLocal |-> FALSE, name |-> work.name]

\* addUpvalue for the function f, when it has room
LEMMA AddUpvalueIs ==
  ASSUME IInv, ~hadError, ~hadError', AddUpvalue, NEW f, f = work.level, NEW c, c = compilers[f],
         NEW u, u = [index |-> work.index, isLocal |-> work.isLocal]
  PROVE  /\ f \in 2..Top /\ work.index \in Nat /\ work.isLocal \in BOOLEAN /\ u \in UpvalueType
         /\ UNCHANGED <<classes, pc, todo>>
         /\ \E d, i : UpvalueAdded(f, c, u, d, i)
<1> USE ScopesAssumption
<1> DEFINE known == \E j \in DOMAIN c.upvalues : Same(c.upvalues[j], u)
           full  == ~known /\ Len(c.upvalues) = UINT8_COUNT
           after == IF known \/ full THEN c.upvalues ELSE Append(c.upvalues, u)
           d     == [c EXCEPT !.upvalues = after]
<1>1. /\ work # NoWork /\ compilers' = [compilers EXCEPT ![f] = d] /\ UNCHANGED <<classes, pc, todo>>
  BY DEF AddUpvalue
<1>2. Bounded /\ Control /\ hadError \in BOOLEAN
  BY Unfold DEF Control
<1>3. /\ work \in [level : 2..Top, index : 1..UINT8_COUNT, isLocal : BOOLEAN,
                   name : Name \cup {"this", "super"}]
      /\ f \in 2..Top /\ f \in 1..Top /\ u \in UpvalueType /\ work.index \in Nat /\ work.isLocal \in BOOLEAN
  BY <1>1, <1>2 DEF Control, WorkTyped, UpvalueType
<1>4. Fits(c) /\ c \in CompilerType
  BY <1>2, <1>3 DEF Bounded, Fits
<1>5. c.upvalues \in Seq(UpvalueType) /\ Len(c.upvalues) \in 0..UINT8_COUNT /\ DOMAIN c.upvalues = 1..Len(c.upvalues)
  BY <1>4, Parts DEF Fits
<1>6. PICK i \in DOMAIN after :
        /\ IF full THEN i = 1 ELSE Same(after[i], u) /\ \A j \in 1..(i - 1) : ~Same(after[j], u)
        /\ work' = IF f = Top THEN NoWork ELSE [work EXCEPT !.level = @ + 1, !.index = i, !.isLocal = FALSE]
        /\ Finish(IF full THEN Report("too_many_captures", work.name) ELSE NoError,
                  IF f = Top THEN <<Instruction("OP_GET_UPVALUE", i, work.name)>> ELSE <<>>)
  BY ZenonT(60) DEF AddUpvalue
<1>7. ~full /\ emitted' = IF f = Top THEN <<Instruction("OP_GET_UPVALUE", i, work.name)>> ELSE <<>>
  <2>1. (IF full THEN Report("too_many_captures", work.name) ELSE NoError) = NoError
        /\ emitted' = IF f = Top THEN <<Instruction("OP_GET_UPVALUE", i, work.name)>> ELSE <<>>
    BY <1>2, <1>6, Finished, SMTT(40)
  <2>2. Report("too_many_captures", work.name) # NoError
    BY DEF Report, NoError
  <2> HIDE DEF full
  <2> QED BY <2>1, <2>2
<1>8. /\ after \in Seq(UpvalueType) /\ Len(after) \in 0..UINT8_COUNT /\ DOMAIN after = 1..Len(after)
      /\ Len(c.upvalues) <= Len(after)
      /\ \A j \in 1..Len(c.upvalues) : after[j] = c.upvalues[j]
      /\ \A j \in 1..Len(after) : \/ j \in 1..Len(c.upvalues)
                                  \/ /\ j = Len(c.upvalues) + 1 /\ after[j] = u
                                     /\ \A k \in 1..Len(c.upvalues) : ~Same(c.upvalues[k], u)
  <2> HIDE DEF UpvalueType
  <2>1. CASE known
    <3> HIDE DEF known
    <3> QED BY <1>5, <2>1
  <2>2. CASE ~known
    <3>1. after = Append(c.upvalues, u) /\ Len(c.upvalues) # UINT8_COUNT
      BY <1>7, <2>2
    <3>2. \A k \in 1..Len(c.upvalues) : ~Same(c.upvalues[k], u)
      BY <1>5, <2>2
    <3> HIDE DEF known, after
    <3>3. PICK s : s = c.upvalues
      OBVIOUS
    <3>4. s \in Seq(UpvalueType) /\ Len(s) \in 0..UINT8_COUNT /\ after = Append(s, u) /\ Len(s) # UINT8_COUNT
      BY ONLY <1>5, <3>1, <3>3
    <3>5. /\ after \in Seq(UpvalueType) /\ Len(after) = Len(s) + 1 /\ DOMAIN after = 1..Len(after)
          /\ \A j \in 1..Len(s) : after[j] = s[j]
          /\ after[Len(s) + 1] = u
      BY ONLY <1>3, <3>4
    <3>6. \A j \in 1..Len(s) + 1 : j \in 1..Len(s) \/ j = Len(s) + 1
      BY ONLY <3>4
    <3>7. Len(after) \in 0..UINT8_COUNT /\ Len(s) <= Len(after)
      BY ONLY <3>4, <3>5, ScopesAssumption
    <3> QED BY ONLY <3>2, <3>3, <3>5, <3>6, <3>7, SMTT(40)
  <2> QED BY <2>1, <2>2
<1>9. Fits(d) /\ d.upvalues = after /\ d.scopeDepth = c.scopeDepth
  <2> HIDE DEF after
  <2> QED BY <1>4, <1>5, <1>8, UpvalueFacts
<1>10. d.locals = c.locals
  BY <1>4, SMTT(40) DEF CompilerType
<1>11. Same(after[i], u) /\ i \in 1..Len(after)
  BY <1>6, <1>7, <1>8
<1>12. f # Top => work' = [level |-> f + 1, index |-> i, isLocal |-> FALSE, name |-> work.name]
  BY <1>3, <1>6
<1>13. f = Top => work' = NoWork /\ emitted' = <<Instruction("OP_GET_UPVALUE", i, work.name)>>
  BY <1>6, <1>7
<1> HIDE DEF d, after, known, full
<1> QED
  <2>1. /\ compilers' = [compilers EXCEPT ![f] = d] /\ Fits(d)
        /\ d.locals = c.locals /\ d.scopeDepth = c.scopeDepth
        /\ DOMAIN d.upvalues = 1..Len(d.upvalues) /\ Len(c.upvalues) <= Len(d.upvalues)
        /\ \A j \in 1..Len(c.upvalues) : d.upvalues[j] = c.upvalues[j]
        /\ \A j \in 1..Len(d.upvalues) :
             \/ j \in 1..Len(c.upvalues)
             \/ /\ j = Len(c.upvalues) + 1 /\ d.upvalues[j] = u
                /\ \A k \in 1..Len(c.upvalues) : ~Same(c.upvalues[k], u)
        /\ i \in 1..Len(d.upvalues) /\ Same(d.upvalues[i], u)
        /\ IF f = Top THEN /\ work' = NoWork
                           /\ emitted' = <<Instruction("OP_GET_UPVALUE", i, work.name)>>
           ELSE work' = [level |-> f + 1, index |-> i, isLocal |-> FALSE, name |-> work.name]
    BY <1>1, <1>8, <1>9, <1>10, <1>11, <1>12, <1>13
  <2>2. f \in 2..Top /\ work.index \in Nat /\ work.isLocal \in BOOLEAN /\ u \in UpvalueType
        /\ UNCHANGED <<classes, pc, todo>>
    BY <1>1, <1>3
  <2>3. UpvalueAdded(f, c, u, d, i)
    BY ONLY <2>1 DEF UpvalueAdded
  <2> QED BY ONLY <2>2, <2>3

\* addUpvalue stores what resolveUpvalue had found: a step that Lexical does
\* not see.
LEMMA AddUpvalueFollows ==
  ASSUME LexicalInv, IInv', ~hadError, ~hadError', AddUpvalue
  PROVE  /\ Accepted' /\ Blocks' = Blocks /\ Captures' = Captures /\ Classes' = Classes /\ Answer' = Answer
<1>1. PICK f : f = work.level
  OBVIOUS
<1>2. PICK c : c = compilers[f]
  OBVIOUS
<1>3. PICK u : u = [index |-> work.index, isLocal |-> work.isLocal]
  OBVIOUS
<1>4. /\ IInv /\ Accepted /\ SupersDue /\ NoSuperYet /\ Top \in Nat \ {0} /\ WorkReaches
      /\ \A g \in 1..Top : /\ Plain(compilers[g]) /\ Accepts(g, compilers[g], Waits(g), Supered(g))
                           /\ DOMAIN compilers[g].locals = 1..Len(compilers[g].locals)
  BY Open, Unfold
<1>5. /\ f \in 2..Top /\ work.index \in Nat /\ work.isLocal \in BOOLEAN /\ u \in UpvalueType
      /\ UNCHANGED <<classes, pc, todo>>
  BY <1>1, <1>2, <1>3, <1>4, AddUpvalueIs
<1>0. PICK d, i : UpvalueAdded(f, c, u, d, i)
  <2>1. IInv
    BY <1>4
  <2> QED BY ONLY ~hadError, ~hadError', AddUpvalue, <1>1, <1>2, <1>3, <2>1, AddUpvalueIs
<1>6. /\ compilers' = [compilers EXCEPT ![f] = d] /\ Fits(d)
      /\ d.locals = c.locals /\ d.scopeDepth = c.scopeDepth
      /\ DOMAIN d.upvalues = 1..Len(d.upvalues) /\ Len(c.upvalues) <= Len(d.upvalues)
      /\ \A j \in 1..Len(c.upvalues) : d.upvalues[j] = c.upvalues[j]
      /\ \A j \in 1..Len(d.upvalues) :
           \/ j \in 1..Len(c.upvalues)
           \/ /\ j = Len(c.upvalues) + 1 /\ d.upvalues[j] = u
              /\ \A k \in 1..Len(c.upvalues) : ~Same(c.upvalues[k], u)
      /\ i \in 1..Len(d.upvalues) /\ Same(d.upvalues[i], u)
      /\ IF f = Top THEN /\ work' = NoWork
                         /\ emitted' = <<Instruction("OP_GET_UPVALUE", i, work.name)>>
         ELSE work' = [level |-> f + 1, index |-> i, isLocal |-> FALSE, name |-> work.name]
  BY <1>0 DEF UpvalueAdded
<1>7. /\ f \in 1..Top /\ f - 1 \in 1..Top /\ f - 1 \in 1..Top - 1 /\ f \in Nat /\ f - 1 # f /\ f # 1
  BY <1>4, <1>5
<1>8. work # NoWork
  BY DEF AddUpvalue
<1>9. Top' = Top /\ \A g \in 1..Top : compilers'[g] = IF g = f THEN d ELSE compilers[g]
  <2>1. IInv /\ f \in 1..Top /\ Fits(d) /\ compilers' = [compilers EXCEPT ![f] = d]
    BY <1>4, <1>6, <1>7
  <2> QED BY ONLY <2>1, EditView
<1>10. \A g \in 1..Top : Len(compilers'[g].locals) = Len(compilers[g].locals) /\ compilers'[g].locals = compilers[g].locals
                         /\ compilers'[g].scopeDepth = compilers[g].scopeDepth
  BY <1>2, <1>6, <1>9
<1>11. \A g \in 1..Top : \A k : LocalVariable(g, k)' = LocalVariable(g, k)
  <2> SUFFICES ASSUME NEW g \in 1..Top, NEW k PROVE LocalVariable(g, k)' = LocalVariable(g, k)
    OBVIOUS
  <2>1. compilers'[g].locals = compilers[g].locals /\ compilers'[g].scopeDepth = compilers[g].scopeDepth
    BY <1>10
  <2> QED BY <2>1 DEF LocalVariable, BlockOf
<1>12. Resolved /\ Resolved'
  BY <1>4, UpvaluesResolved, UpvaluesResolvedNext
<1>13. \A g \in 1..Top : \A j \in 1..Len(compilers[g].upvalues) : UpvalueVariables'[g][j] = UpvalueVariables[g][j]
  <2>1. PICK n : n = Top
    OBVIOUS
  <2>2. n \in Nat /\ n <= Top /\ n <= Top'
    BY <1>4, <1>9, <2>1
  <2>3. \A g \in 1..n : /\ Len(compilers[g].upvalues) <= Len(compilers'[g].upvalues)
                        /\ \A j \in 1..Len(compilers[g].upvalues) :
                             compilers'[g].upvalues[j] = compilers[g].upvalues[j]
    <3> SUFFICES ASSUME NEW g \in 1..Top
                 PROVE  /\ Len(compilers[g].upvalues) <= Len(compilers'[g].upvalues)
                        /\ \A j \in 1..Len(compilers[g].upvalues) :
                             compilers'[g].upvalues[j] = compilers[g].upvalues[j]
      BY <2>1
    <3>1. CASE g = f
      BY <1>2, <1>6, <1>9, <3>1
    <3>2. CASE g # f
      <4>1. compilers'[g] = compilers[g] /\ Len(compilers[g].upvalues) \in Nat
        BY <1>9, <1>12, <3>2 DEF Resolved
      <4> QED BY <4>1
    <3> QED BY <3>1, <3>2
  <2>4. \A g \in 1..n - 1 : \A k \in 1..Len(compilers[g].locals) : LocalVariable(g, k)' = LocalVariable(g, k)
    <3>1. \A g \in 1..n - 1 : g \in 1..Top
      BY <1>4, <2>1
    <3> QED BY <1>11, <3>1
  <2>5. \A g \in 1..n : \A j \in 1..Len(compilers[g].upvalues) : UpvalueVariables'[g][j] = UpvalueVariables[g][j]
    BY ONLY IInv', <1>4, <2>2, <2>3, <2>4, UpvaluesKept, ZenonT(60)
  <2> QED BY <2>1, <2>5
<1>14. PICK v : v = OperandVariable(f - 1, u)
  OBVIOUS
<1>15. OperandVariable(f - 1, work) = v
  BY <1>3, <1>14 DEF OperandVariable
<1>16. OperandVariable(f - 1, u)' = v
  <2>1. PICK b : b = f - 1
    OBVIOUS
  <2>2. b \in 1..Top
    BY <1>7, <2>1
  <2>3. Reaches(compilers[b], u)
    BY <1>1, <1>3, <1>4, <1>8, <2>1 DEF WorkReaches, Reaches
  <2>4. /\ DOMAIN compilers[b].locals = 1..Len(compilers[b].locals)
        /\ DOMAIN compilers[b].upvalues = 1..Len(compilers[b].upvalues)
    BY <1>4, <1>12, <2>2 DEF Resolved
  <2>5. /\ \A k \in 1..Len(compilers[b].locals) : LocalVariable(b, k)' = LocalVariable(b, k)
        /\ \A j \in 1..Len(compilers[b].upvalues) : UpvalueVariables'[b][j] = UpvalueVariables[b][j]
    BY <1>11, <1>13, <2>2
  <2>6. OperandVariable(b, u)' = OperandVariable(b, u)
    BY ONLY <2>3, <2>4, <2>5, OperandKept
  <2> QED BY <1>14, <2>1, <2>6
<1>17. /\ UpvalueVariables[f] = [j \in 1..Len(c.upvalues) |-> UpvalueVariables[f][j]]
       /\ UpvalueVariables'[f] = [j \in 1..Len(d.upvalues) |-> UpvalueVariables'[f][j]]
       /\ \A j \in 1..Len(d.upvalues) : UpvalueVariables'[f][j] = OperandVariable(f - 1, d.upvalues[j])'
       /\ \A j \in 1..Len(c.upvalues) : UpvalueVariables'[f][j] = UpvalueVariables[f][j]
       /\ Len(c.upvalues) \in Nat /\ Len(d.upvalues) \in Nat
  <2>1. compilers'[f] = d /\ compilers[f] = c /\ f \in 1..Top' /\ f \in 1..Top
    BY <1>2, <1>7, <1>9
  <2>2. /\ UpvalueVariables[f] = [j \in 1..Len(c.upvalues) |-> OperandVariable(f - 1, compilers[f].upvalues[j])]
        /\ Len(c.upvalues) \in Nat
    BY <1>12, <2>1 DEF Resolved
  <2>3. /\ UpvalueVariables'[f] = [j \in 1..Len(compilers'[f].upvalues) |-> OperandVariable(f - 1, compilers[f].upvalues[j])']
        /\ Len(compilers'[f].upvalues) \in Nat
    BY <1>12, <2>1 DEF Resolved
  <2>4. ASSUME NEW j \in 1..Len(d.upvalues)
        PROVE  OperandVariable(f - 1, compilers[f].upvalues[j])' = OperandVariable(f - 1, d.upvalues[j])'
    <3>1. PICK e : e = d.upvalues[j]
      OBVIOUS
    <3>2. compilers'[f].upvalues[j] = e
      BY <2>1, <3>1
    <3> QED BY <3>1, <3>2 DEF OperandVariable, LocalVariable
  <2>5. \A j \in 1..Len(c.upvalues) : UpvalueVariables'[f][j] = UpvalueVariables[f][j]
    BY <1>13, <2>1
  <2> HIDE DEF UpvalueVariables
  <2> QED BY <2>1, <2>2, <2>3, <2>4, <2>5
<1>18. \A j \in 1..Len(d.upvalues) : Same(d.upvalues[j], u) => UpvalueVariables'[f][j] = v
  <2> SUFFICES ASSUME NEW j \in 1..Len(d.upvalues), Same(d.upvalues[j], u)
               PROVE  UpvalueVariables'[f][j] = v
    OBVIOUS
  <2>1. PICK e : e = d.upvalues[j]
    OBVIOUS
  <2>2. OperandVariable(f - 1, e)' = OperandVariable(f - 1, u)'
    BY <2>1 DEF OperandVariable, LocalVariable, Same
  <2>3. UpvalueVariables'[f][j] = OperandVariable(f - 1, e)'
    BY <1>17, <2>1
  <2> QED BY <1>16, <2>2, <2>3
<1>19. Range(UpvalueVariables'[f]) = Range(UpvalueVariables[f]) \cup {v} /\ UpvalueVariables'[f][i] = v
  <2>1. UpvalueVariables'[f][i] = v
    BY <1>6, <1>18
  <2>2. Same(u, u)
    BY DEF Same
  <2>3. \A j \in 1..Len(d.upvalues) : j \in 1..Len(c.upvalues) \/ UpvalueVariables'[f][j] = v
    BY <1>6, <1>18, <2>2
  <2>4. \A j \in 1..Len(c.upvalues) : j \in 1..Len(d.upvalues)
    BY <1>6, <1>17
  <2>5. PICK U, V : U = UpvalueVariables[f] /\ V = UpvalueVariables'[f]
    OBVIOUS
  <2>6. /\ DOMAIN U = 1..Len(c.upvalues) /\ DOMAIN V = 1..Len(d.upvalues)
        /\ \A j \in 1..Len(c.upvalues) : V[j] = U[j]
        /\ \A j \in 1..Len(d.upvalues) : j \in 1..Len(c.upvalues) \/ V[j] = v
        /\ V[i] = v /\ i \in 1..Len(d.upvalues)
    BY <1>6, <1>17, <2>1, <2>3, <2>5
  <2>7. Range(V) = Range(U) \cup {v}
    BY ONLY <2>4, <2>6 DEF Range
  <2> HIDE DEF UpvalueVariables
  <2> QED BY ONLY <2>1, <2>5, <2>7
<1>20. \A g \in 1..Top : g # f => UpvalueVariables'[g] = UpvalueVariables[g]
  <2> SUFFICES ASSUME NEW g \in 1..Top, g # f PROVE UpvalueVariables'[g] = UpvalueVariables[g]
    OBVIOUS
  <2>1. compilers'[g] = compilers[g] /\ g \in 1..Top'
    BY <1>9
  <2>2. /\ UpvalueVariables[g] = [j \in 1..Len(compilers[g].upvalues) |-> UpvalueVariables[g][j]]
        /\ UpvalueVariables'[g] = [j \in 1..Len(compilers'[g].upvalues) |-> UpvalueVariables'[g][j]]
    BY <1>12, <2>1 DEF Resolved
  <2>3. \A j \in 1..Len(compilers[g].upvalues) : UpvalueVariables'[g][j] = UpvalueVariables[g][j]
    BY <1>13
  <2> HIDE DEF UpvalueVariables
  <2> QED BY ONLY <2>1, <2>2, <2>3
<1>21. f # Top => OperandVariable(work.level - 1, work)' = v
  <2> SUFFICES ASSUME f # Top PROVE OperandVariable(work.level - 1, work)' = v
    OBVIOUS
  <2>1. PICK w : w = work'
    OBVIOUS
  <2>2. w.level - 1 = f /\ ~w.isLocal /\ w.index = i
    <3>1. w = [level |-> f + 1, index |-> i, isLocal |-> FALSE, name |-> work.name]
      BY <1>6, <2>1
    <3>2. w.level = f + 1 /\ ~w.isLocal /\ w.index = i
      BY ONLY <3>1
    <3> QED BY ONLY <1>7, <3>2
  <2>3. OperandVariable(f, w)' = v
    BY <1>19, <2>2 DEF OperandVariable
  <2>4. OperandVariable(work.level - 1, work)' = OperandVariable(f, w)'
    BY <2>1, <2>2 DEF OperandVariable, LocalVariable
  <2> QED BY ONLY <2>3, <2>4
<1>22. f # Top => work' # NoWork /\ work'.level = f + 1
  BY <1>6, <1>7 DEF NoWork
<1>23. f = Top => work' = NoWork /\ emitted' = <<Instruction("OP_GET_UPVALUE", i, work.name)>>
  BY <1>6
<1>24. Captures' = Captures
  <2>1. Captures = [g \in 1..Top |-> Range(UpvalueVariables[g]) \cup IF g >= f THEN {v} ELSE {}]
    <3>1. Captures = [g \in 1..Top |-> Range(UpvalueVariables[g]) \cup Pending(g)]
      BY DEF Captures
    <3>2. ASSUME NEW g \in 1..Top PROVE Pending(g) = IF g >= f THEN {v} ELSE {}
      BY <1>1, <1>8, <1>15 DEF Pending
    <3> QED BY <3>1, <3>2
  <2>2. Captures' = [g \in 1..Top |-> Range(UpvalueVariables'[g]) \cup Pending(g)']
    BY <1>9 DEF Captures
  <2>3. ASSUME NEW g \in 1..Top PROVE Pending(g)' = IF g >= f + 1 THEN {v} ELSE {}
    <3>1. CASE f = Top
      <4>1. ~(g >= f + 1)
        BY <1>4, <3>1
      <4>2. work' = NoWork
        BY <1>23, <3>1
      <4> QED BY <4>1, <4>2 DEF Pending
    <3>2. CASE f # Top
      <4>1. PICK w : w = OperandVariable(work.level - 1, work)'
        OBVIOUS
      <4>2. w = v /\ work' # NoWork /\ work'.level = f + 1
        BY <1>21, <1>22, <3>2, <4>1
      <4>3. Pending(g)' = IF work' # NoWork /\ g >= work'.level THEN {w} ELSE {}
        BY <4>1 DEF Pending
      <4> QED BY ONLY <4>2, <4>3
    <3> QED BY <3>1, <3>2
  <2>4. ASSUME NEW g \in 1..Top
        PROVE  Range(UpvalueVariables'[g]) \cup (IF g >= f + 1 THEN {v} ELSE {})
                 = Range(UpvalueVariables[g]) \cup (IF g >= f THEN {v} ELSE {})
    <3>1. CASE g = f
      <4>1. g >= f /\ ~(g >= f + 1)
        BY <1>7, <3>1
      <4> QED BY ONLY <1>19, <3>1, <4>1
    <3>2. CASE g # f
      <4>1. g >= f + 1 <=> g >= f
        BY <1>7, <3>2
      <4>2. UpvalueVariables'[g] = UpvalueVariables[g]
        BY <1>20, <3>2
      <4> QED BY ONLY <4>1, <4>2
    <3> QED BY <3>1, <3>2
  <2> HIDE DEF Captures, UpvalueVariables, Pending
  <2> QED BY ONLY <2>1, <2>2, <2>3, <2>4
<1>25. Answer' = Answer
  <2>1. Answer = {<<"upvalue", v>>}
    BY <1>1, <1>8, <1>15 DEF Answer
  <2>2. CASE f = Top
    <3>1. PICK e : e = Instruction("OP_GET_UPVALUE", i, work.name)
      OBVIOUS
    <3>2. e.op = "OP_GET_UPVALUE" /\ e.arg = i /\ emitted' = <<e>>
      BY <1>23, <2>2, <3>1 DEF Instruction
    <3>3. Means(e)' = <<"upvalue", UpvalueVariables'[f][i]>>
      BY <1>9, <2>2, <3>2 DEF Means
    <3>4. Answer' = {Means(emitted[k])' : k \in DOMAIN emitted'}
      BY <1>23, <2>2 DEF Answer
    <3>5. DOMAIN emitted' = {1} /\ Means(emitted[1])' = Means(e)'
      BY <3>2 DEF Means, LocalVariable
    <3>6. Answer' = {Means(e)'}
      BY ONLY <3>4, <3>5
    <3> HIDE DEF Answer
    <3> QED BY ONLY <1>19, <2>1, <3>3, <3>6
  <2>3. CASE f # Top
    <3>1. PICK w : w = OperandVariable(work.level - 1, work)'
      OBVIOUS
    <3>2. Answer' = {<<"upvalue", w>>}
      BY <1>22, <2>3, <3>1 DEF Answer
    <3>3. w = v
      BY <1>21, <2>3, <3>1
    <3> HIDE DEF Answer
    <3> QED BY ONLY <2>1, <3>2, <3>3
  <2> QED BY <2>2, <2>3
<1>26. Classes' = Classes
  <2>1. ASSUME NEW k \in DOMAIN classes
        PROVE  compilers'[classes[k].fn].scopeDepth = compilers[classes[k].fn].scopeDepth
    <3>1. classes[k].fn \in 1..Top
      BY <1>4, ClassFacts
    <3> QED BY <1>10, <3>1
  <2> QED BY <1>5, <2>1, ClassesSame
<1>27. Blocks' = Blocks
  <2>1. BlocksNow
    BY <1>4, BlocksAre
  <2>2. Blocks' = [g \in 1..Top |-> BlocksOf(compilers'[g])]
    BY <1>9 DEF Blocks
  <2>3. ASSUME NEW g \in 1..Top PROVE BlocksOf(compilers'[g]) = BlocksOf(compilers[g])
    <3>1. PICK a, b : a = compilers[g] /\ b = compilers'[g]
      OBVIOUS
    <3>2. Distinct(a) /\ b.locals = a.locals /\ b.scopeDepth = a.scopeDepth
      BY <1>4, <1>10, <3>1 DEF Plain
    <3>3. \A k \in DOMAIN a.locals : BlockOf(b, k) = BlockOf(a, k)
      BY <3>2 DEF BlockOf
    <3>4. BlocksOf(b) = BlocksOf(a)
      BY <3>2, <3>3, UnchangedBlocks
    <3> QED BY ONLY <3>1, <3>4
  <2>4. Blocks = [g \in 1..Top |-> BlocksOf(compilers[g])]
    BY <2>1 DEF BlocksNow
  <2> HIDE DEF Blocks
  <2> QED BY ONLY <2>2, <2>3, <2>4
<1>28. Accepted'
  <2>1. SupersDue' /\ NoSuperYet'
    BY <1>4, <1>5 DEF SupersDue, NoSuperYet
  <2>2. \A g : (Supered(g)' <=> Supered(g)) /\ (Waits(g)' <=> Waits(g))
    BY <1>5, <1>9 DEF Supered, Waits, Classed
  <2>3. Accepts(f, c, Waits(f), Supered(f)) /\ DOMAIN c.upvalues = 1..Len(c.upvalues)
    BY <1>2, <1>4, <1>7, <1>12 DEF Resolved
  <2>4. \A k, j \in 1..Len(d.upvalues) : k # j => ~Same(d.upvalues[k], d.upvalues[j])
    <3>1. \A k, j \in 1..Len(c.upvalues) : k # j => ~Same(c.upvalues[k], c.upvalues[j])
      BY <2>3 DEF Accepts
    <3>2. \A x, y : Same(x, y) => Same(y, x)
      BY DEF Same
    <3> QED BY <1>6, <3>1, <3>2
  <2>5. \A k : BlockOf(d, k) = BlockOf(c, k)
    BY <1>6 DEF BlockOf
  <2>6. Scoped(c) => Scoped(d)
    BY <1>6, <2>5 DEF Scoped
  <2>7. EndsHere(c) => EndsHere(d)
    BY <1>6, <2>5 DEF EndsHere
  <2>8. Accepts(f, d, Waits(f), Supered(f))
    <3> HIDE DEF Waits, Supered
    <3> QED BY <1>6, <2>3, <2>4, <2>6, <2>7 DEF Accepts
  <2>9. Accepts(f, d, Waits(f)', Supered(f)')
    <3> HIDE DEF Waits, Supered
    <3> QED BY <2>2, <2>8 DEF Accepts
  <2>10. f \in 1..Top /\ \A g \in 1..Top : g # f => (Waits(g)' => Waits(g)) /\ (Supered(g)' <=> Supered(g))
    <3> HIDE DEF Waits, Supered
    <3> QED BY <1>7, <2>2
  <2> HIDE DEF Waits, Supered
  <2> QED BY ONLY <1>4, <1>9, <2>1, <2>9, <2>10, AcceptedEdit
<1> HIDE DEF Blocks, Captures, Classes, Answer
<1> QED BY ONLY <1>24, <1>25, <1>26, <1>27, <1>28

-----------------------------------------------------------------------------
(* Names *)

\* Blocks deepen along the locals of a function.
LEMMA BlockRises ==
  ASSUME NEW c, Fits(c), Plain(c), NEW i \in 1..Len(c.locals), NEW j \in 1..Len(c.locals), i <= j
  PROVE  BlockOf(c, i) <= BlockOf(c, j)
<1>1. /\ \A k \in 1..Len(c.locals) : /\ c.locals[k].depth \in Int /\ c.locals[k].depth <= c.scopeDepth
                                     /\ (c.locals[k].depth = -1 => k = Len(c.locals))
      /\ \A k, m \in 1..Len(c.locals) :
           k < m /\ c.locals[m].depth # -1 => c.locals[k].depth <= c.locals[m].depth
      /\ c.scopeDepth \in Nat /\ Len(c.locals) \in Nat
  BY DEF Fits, Ordered, Plain
<1>2. CASE i = j
  <2>1. BlockOf(c, i) \in Int
    BY DEF Plain
  <2> QED BY <1>2, <2>1
<1>3. CASE i # j
  <2>1. i < j /\ c.locals[i].depth # -1
    BY <1>1, <1>3
  <2>2. c.locals[j].depth # -1 => c.locals[i].depth <= c.locals[j].depth
    BY <1>1, <2>1
  <2> QED BY <1>1, <2>1, <2>2 DEF BlockOf
<1> QED BY <1>2, <1>3

\* The places that declare a name, in the arrays
LEMMA DeclaringIs ==
  ASSUME LexicalInv, ~hadError, NEW n
  PROVE  \A p : p \in Promise!Declaring(n) <=>
           \E f \in 1..Top : \E i \in 1..Len(compilers[f].locals) :
             compilers[f].locals[i].name = n /\ p = <<f, BlockOf(compilers[f], i) + 1>>
<1>1. /\ IInv /\ \A f \in 1..Top : Plain(compilers[f])
  BY Open
<1>2. BlocksNow
  BY <1>1, BlocksAre
<1>3. ASSUME NEW f \in 1..Top
      PROVE  /\ DOMAIN Blocks[f] = 1..compilers[f].scopeDepth + 1
             /\ \A b \in 1..compilers[f].scopeDepth + 1 : n \in DOMAIN Blocks[f][b] <=>
                  \E i \in 1..Len(compilers[f].locals) :
                    compilers[f].locals[i].name = n /\ b = BlockOf(compilers[f], i) + 1
             /\ \A i \in 1..Len(compilers[f].locals) :
                  BlockOf(compilers[f], i) + 1 \in 1..compilers[f].scopeDepth + 1
  <2>1. PICK c : c = compilers[f]
    OBVIOUS
  <2>2. /\ Distinct(c) /\ DOMAIN c.locals = 1..Len(c.locals) /\ c.scopeDepth \in Nat
        /\ \A i \in 1..Len(c.locals) : BlockOf(c, i) \in 0..c.scopeDepth
    BY <1>1, <2>1 DEF Plain
  <2>3. DOMAIN Blocks[f] = 1..c.scopeDepth + 1 /\ \A b \in 1..c.scopeDepth + 1 : Blocks[f][b] = BlockAt(c, b - 1)
    BY <1>2, <2>1 DEF BlocksNow
  <2>4. \A d : n \in DOMAIN BlockAt(c, d) <=>
               \E i \in DOMAIN c.locals : BlockOf(c, i) = d /\ c.locals[i].name = n
    BY <2>2, BlockIs
  <2>5. ASSUME NEW b \in 1..c.scopeDepth + 1
        PROVE  n \in DOMAIN Blocks[f][b] <=>
                 \E i \in 1..Len(c.locals) : c.locals[i].name = n /\ b = BlockOf(c, i) + 1
    <3>1. n \in DOMAIN Blocks[f][b] <=> \E i \in 1..Len(c.locals) : BlockOf(c, i) = b - 1 /\ c.locals[i].name = n
      BY <2>2, <2>3, <2>4
    <3>2. \A i \in 1..Len(c.locals) : BlockOf(c, i) = b - 1 <=> b = BlockOf(c, i) + 1
      BY <2>2
    <3> HIDE DEF Blocks
    <3> QED BY ONLY <3>1, <3>2
  <2>6. \A i \in 1..Len(c.locals) : BlockOf(c, i) + 1 \in 1..c.scopeDepth + 1
    BY <2>2
  <2> QED BY ONLY <2>1, <2>3, <2>5, <2>6
<1>4. DOMAIN Blocks = 1..Top
  BY <1>2 DEF BlocksNow
<1> HIDE DEF Blocks
<1>5. \A p : p \in Promise!Declaring(n) <=>
        \E f \in 1..Top : \E b \in DOMAIN Blocks[f] : n \in DOMAIN Blocks[f][b] /\ p = <<f, b>>
  BY <1>4 DEF Promise!Declaring
<1>6. \A f \in 1..Top : \A p :
        (\E b \in DOMAIN Blocks[f] : n \in DOMAIN Blocks[f][b] /\ p = <<f, b>>) <=>
        \E i \in 1..Len(compilers[f].locals) :
          compilers[f].locals[i].name = n /\ p = <<f, BlockOf(compilers[f], i) + 1>>
  <2> SUFFICES ASSUME NEW f \in 1..Top, NEW p
               PROVE  (\E b \in DOMAIN Blocks[f] : n \in DOMAIN Blocks[f][b] /\ p = <<f, b>>) <=>
                      \E i \in 1..Len(compilers[f].locals) :
                        compilers[f].locals[i].name = n /\ p = <<f, BlockOf(compilers[f], i) + 1>>
    OBVIOUS
  <2>1. ASSUME NEW b \in DOMAIN Blocks[f], n \in DOMAIN Blocks[f][b], p = <<f, b>>
        PROVE  \E i \in 1..Len(compilers[f].locals) :
                 compilers[f].locals[i].name = n /\ p = <<f, BlockOf(compilers[f], i) + 1>>
    <3>1. PICK i \in 1..Len(compilers[f].locals) :
             compilers[f].locals[i].name = n /\ b = BlockOf(compilers[f], i) + 1
      BY <1>3, <2>1
    <3> QED BY <2>1, <3>1
  <2>2. ASSUME NEW i \in 1..Len(compilers[f].locals), compilers[f].locals[i].name = n,
               p = <<f, BlockOf(compilers[f], i) + 1>>
        PROVE  \E b \in DOMAIN Blocks[f] : n \in DOMAIN Blocks[f][b] /\ p = <<f, b>>
    <3>1. PICK b : b = BlockOf(compilers[f], i) + 1
      OBVIOUS
    <3>2. b \in DOMAIN Blocks[f] /\ n \in DOMAIN Blocks[f][b]
      BY <1>3, <2>2, <3>1
    <3> QED BY <2>2, <3>1, <3>2
  <2> QED BY ONLY <2>1, <2>2
<1> QED BY ONLY <1>5, <1>6

\* The local that resolveLocal and resolveUpvalue find is of the innermost block
\* that declares the name.
LEMMA InnermostIs ==
  ASSUME LexicalInv, ~hadError, NEW n, NEW f \in 1..Top, NEW i \in 1..Len(compilers[f].locals), Found(n, f, i)
  PROVE  Promise!Innermost(n) = <<f, BlockOf(compilers[f], i) + 1>> /\ Promise!Declaring(n) # {}
<1> DEFINE S == Promise!Declaring(n)
<1>1. /\ IInv /\ Top \in Nat
      /\ \A g \in 1..Top : /\ Plain(compilers[g]) /\ Fits(compilers[g])
                           /\ DOMAIN compilers[g].locals = 1..Len(compilers[g].locals)
  BY Open
<1>2. \A p : p \in S <=>
           \E g \in 1..Top : \E j \in 1..Len(compilers[g].locals) :
             compilers[g].locals[j].name = n /\ p = <<g, BlockOf(compilers[g], j) + 1>>
  BY DeclaringIs
<1> HIDE DEF S
<1>3. PICK b : b = BlockOf(compilers[f], i) + 1
  OBVIOUS
<1>4. <<f, b>> \in S
  <2>1. compilers[f].locals[i].name = n
    BY DEF Found, Resolves
  <2> QED BY ONLY <1>2, <1>3, <2>1, f \in 1..Top, i \in 1..Len(compilers[f].locals)
<1>5. \A g \in 1..Top : \A j \in 1..Len(compilers[g].locals) : BlockOf(compilers[g], j) + 1 \in Int
  BY <1>1 DEF Plain
<1>6. ASSUME NEW q \in S PROVE Promise!Inside(<<f, b>>, q) /\ \E x, y \in Int : q = <<x, y>>
  <2>1. PICK g \in 1..Top : \E j \in 1..Len(compilers[g].locals) :
             compilers[g].locals[j].name = n /\ q = <<g, BlockOf(compilers[g], j) + 1>>
    BY <1>2
  <2>2. PICK j \in 1..Len(compilers[g].locals) :
             compilers[g].locals[j].name = n /\ q = <<g, BlockOf(compilers[g], j) + 1>>
    BY <2>1
  <2>3. g <= f
    <3>1. SUFFICES ASSUME g > f PROVE FALSE
      BY <1>1
    <3>2. g \in (f + 1)..Top
      BY <1>1, <3>1
    <3> QED BY <1>1, <2>2, <3>2 DEF Found, Lacks
  <2>4. g = f => BlockOf(compilers[g], j) + 1 <= b
    <3> SUFFICES ASSUME g = f PROVE BlockOf(compilers[g], j) + 1 <= b
      OBVIOUS
    <3>1. j <= i
      <4>1. SUFFICES ASSUME j > i PROVE FALSE
        BY <1>1 DEF Plain
      <4>2. j \in (i + 1)..Len(compilers[f].locals)
        BY <1>1, <4>1 DEF Plain
      <4> QED BY <2>2, <4>2 DEF Found, Resolves
    <3>2. BlockOf(compilers[f], j) <= BlockOf(compilers[f], i)
      BY <1>1, <3>1, BlockRises
    <3>3. BlockOf(compilers[f], j) \in Int /\ BlockOf(compilers[f], i) \in Int
      BY <1>1 DEF Plain
    <3> QED BY <1>3, <3>2, <3>3
  <2>5. PICK y \in Int : y = BlockOf(compilers[g], j) + 1
    BY <1>5
  <2>6. q = <<g, y>> /\ g \in Int /\ g <= f /\ (g = f => y <= b) /\ b \in Int
    BY <1>3, <1>5, <2>2, <2>3, <2>4, <2>5
  <2>7. f > g \/ (f = g /\ b >= y)
    BY <1>1, <2>6
  <2> QED BY <2>6, <2>7 DEF Promise!Inside
<1>7. ASSUME NEW p \in S, \A q \in S : Promise!Inside(p, q) PROVE p = <<f, b>>
  <2>1. PICK x, y \in Int : p = <<x, y>>
    BY <1>6
  <2>2. Promise!Inside(p, <<f, b>>) /\ Promise!Inside(<<f, b>>, p)
    BY <1>4, <1>6, <1>7
  <2>3. b \in Int /\ f \in Int
    BY <1>1, <1>3, <1>5
  <2>4. (x > f \/ (x = f /\ y >= b)) /\ (f > x \/ (f = x /\ b >= y))
    BY <2>1, <2>2 DEF Promise!Inside
  <2> QED BY <2>1, <2>3, <2>4
<1>8. (CHOOSE p \in S : \A q \in S : Promise!Inside(p, q)) = <<f, b>>
  BY <1>4, <1>6, <1>7
<1>9. Promise!Innermost(n) = <<f, b>>
  BY <1>8 DEF Promise!Innermost, S
<1> QED BY <1>3, <1>4, <1>9 DEF S

\* The only "super" that can be named is that of the innermost class.
LEMMA SuperPlaceIs ==
  ASSUME LexicalInv, ~hadError, classes # <<>>, Last(classes).hasSuperclass,
         NEW f \in 1..Top, NEW i \in 1..Len(compilers[f].locals), Found("super", f, i)
  PROVE  SuperPlace(Last(classes)) = <<f, BlockOf(compilers[f], i) + 1>>
<1>1. /\ IInv /\ Top \in Nat
      /\ \A g \in 1..Top : /\ Plain(compilers[g]) /\ Accepts(g, compilers[g], Waits(g), Supered(g))
                           /\ DOMAIN compilers[g].locals = 1..Len(compilers[g].locals)
  BY Open
<1>2. PICK m : m = Len(classes)
  OBVIOUS
<1>3. /\ m \in Nat \ {0} /\ DOMAIN classes = 1..m /\ Last(classes) = classes[m]
      /\ \A k \in 1..m : classes[k].fn \in 1..Top
      /\ \A j, k \in 1..m : j < k => classes[j].fn < classes[k].fn
  <2>1. /\ DOMAIN classes = 1..m /\ Last(classes) = classes[m] /\ m \in Nat
        /\ \A k \in 1..m : classes[k].fn \in 1..Top
    BY <1>1, <1>2, ClassFacts
  <2>2. m # 0
    <3>1. classes \in Seq(ClassType)
      BY <1>1, ClassFacts
    <3> HIDE DEF ClassType
    <3> QED BY <1>2, <3>1
  <2>3. ClassesNest
    BY <1>1, Unfold
  <2>4. \A j, k \in 1..m : j < k => classes[j].fn < classes[k].fn
    BY <2>1, <2>3 DEF ClassesNest
  <2> QED BY ONLY <2>1, <2>2, <2>4
<1>4. m \in DOMAIN classes /\ classes[m].hasSuperclass
  BY <1>3
<1>5. PICK h : h = classes[m].fn
  OBVIOUS
<1>6. h \in 1..Top /\ Supered(h)
  BY <1>3, <1>4, <1>5 DEF Supered
<1>7. \A g \in 1..Top : Supered(g) => g <= h
  <2> SUFFICES ASSUME NEW g \in 1..Top, Supered(g) PROVE g <= h
    OBVIOUS
  <2>1. PICK k \in DOMAIN classes : classes[k].fn = g
    BY DEF Supered
  <2>2. k = m \/ k < m
    BY <1>3, <2>1
  <2> QED BY <1>1, <1>3, <1>5, <1>6, <2>1, <2>2
<1> HIDE DEF Supered, Waits
<1>8. ASSUME NEW g \in 1..Top, NEW j \in 1..Len(compilers[g].locals), compilers[g].locals[j].name = "super"
      PROVE  j = Len(compilers[g].locals) /\ Supered(g) /\ EndsHere(compilers[g])
  BY <1>1, <1>8 DEF Accepts
<1>9. i = Len(compilers[f].locals) /\ Supered(f) /\ EndsHere(compilers[f])
  BY <1>8 DEF Found, Resolves
<1>10. f = h
  <2>1. f <= h
    BY <1>7, <1>9
  <2>2. SUFFICES ASSUME f < h PROVE FALSE
    BY <1>1, <1>6, <2>1
  <2>3. h \in (f + 1)..Top
    BY <1>1, <1>6, <2>2
  <2>4. Last(compilers[h].locals).name = "super" /\ Len(compilers[h].locals) \in 1..Len(compilers[h].locals)
    BY <1>1, <1>6 DEF Accepts, Plain
  <2> QED BY <1>1, <1>6, <2>3, <2>4 DEF Found, Lacks, Last
<1>11. BlockOf(compilers[f], i) = compilers[f].scopeDepth
  BY <1>9, SMTT(40) DEF EndsHere
<1> QED BY <1>3, <1>4, <1>5, <1>10, <1>11 DEF SuperPlace

\* What becomes of the arrays when namedVariable finds local i of function f
VariableTouched(n, f, i, c, d) ==
  /\ compilers' = [compilers EXCEPT ![f] = d] /\ Fits(d)
  /\ Len(d.locals) = Len(c.locals) /\ DOMAIN d.locals = 1..Len(c.locals)
  /\ \A j \in 1..Len(c.locals) : j # i => d.locals[j] = c.locals[j]
  /\ d.locals[i].name = n /\ c.locals[i].name = n /\ d.locals[i].depth = c.locals[i].depth
  /\ d.locals[i].read = TRUE /\ d.locals[i].isCaptured = (c.locals[i].isCaptured \/ f # Top)
  /\ d.scopeDepth = c.scopeDepth /\ d.upvalues = c.upvalues

\* A name is either a variable of some function being compiled, or a global.
LEMMA NameFound ==
  ASSUME LexicalInv, ~hadError, ~hadError', NEW n, NEW rest, NEW e, NamedVariable(n, rest, e)
  PROVE  /\ todo' = rest /\ e = NoError
         /\ \/ \E f \in 1..Top : \E i \in 1..Len(compilers[f].locals) : \E d :
                 /\ Found(n, f, i) /\ VariableTouched(n, f, i, compilers[f], d)
                 /\ compilers[f].locals[i].depth # -1
                 /\ f = Top => work' = work /\ emitted' = <<Instruction("OP_GET_LOCAL", i, n)>>
                 /\ f # Top => work' = [level |-> f + 1, index |-> i, isLocal |-> TRUE, name |-> n]
            \/ /\ \A f \in 1..Top : Lacks(compilers[f], n)
               /\ emitted' = <<Instruction("OP_GET_GLOBAL", 0, n)>>
               /\ UNCHANGED <<compilers, work>>
<1>1. /\ IInv /\ hadError \in BOOLEAN /\ \A f \in 1..Top : Fits(compilers[f])
  BY Open, Unfold DEF Control
<1>2. \A x, y : First(x, y) = NoError => x = NoError /\ y = NoError
  BY DEF First
<1>3. \A l : OwnInitializer(l) = NoError => l.depth # -1
  BY DEF OwnInitializer, Report, NoError
<1>4. \A x, code : Finish(x, code) => x = NoError /\ emitted' = code
  BY <1>1, Finished
<1>5. ASSUME NEW f \in 1..Top, NEW i \in 1..Len(compilers[f].locals), NEW l, Found(n, f, i),
             compilers' = [compilers EXCEPT ![f] = [compilers[f] EXCEPT !.locals[i] = l]],
             l.name = compilers[f].locals[i].name, l.depth = compilers[f].locals[i].depth,
             l.read = TRUE, l.isCaptured = (compilers[f].locals[i].isCaptured \/ f # Top),
             Fits([compilers[f] EXCEPT !.locals[i] = l])
      PROVE  \E d : VariableTouched(n, f, i, compilers[f], d)
  <2>1. PICK c : c = compilers[f]
    OBVIOUS
  <2>2. PICK d : d = [c EXCEPT !.locals[i] = l]
    OBVIOUS
  <2>3. /\ Len(d.locals) = Len(c.locals) /\ DOMAIN d.locals = 1..Len(c.locals)
        /\ \A j \in 1..Len(c.locals) : d.locals[j] = IF j = i THEN l ELSE c.locals[j]
        /\ d.scopeDepth = c.scopeDepth /\ d.upvalues = c.upvalues
    BY <1>1, <2>1, <2>2, TouchShape
  <2>4. c.locals[i].name = n
    BY <1>5, <2>1 DEF Found, Resolves
  <2>5. VariableTouched(n, f, i, c, d)
    BY <1>5, <2>1, <2>2, <2>3, <2>4 DEF VariableTouched
  <2> QED BY <2>1, <2>5
<1>6. /\ todo' = rest
      /\ \/ \E f \in 1..Top : \E i \in 1..Len(compilers[f].locals) :
                 LET c == compilers[f]
                     l == IF f = Top THEN CapturedOnlyRead(c.locals[i]) ELSE Captured(c.locals[i])
                 IN /\ Found(n, f, i) /\ compilers' = [compilers EXCEPT ![f] = [c EXCEPT !.locals[i] = l]]
                    /\ Finish(First(e, OwnInitializer(c.locals[i])),
                              IF f = Top THEN <<Instruction("OP_GET_LOCAL", i, n)>> ELSE <<>>)
                    /\ work' = IF f = Top THEN work
                               ELSE [level |-> f + 1, index |-> i, isLocal |-> TRUE, name |-> n]
                    /\ l \in LocalType /\ l.name = c.locals[i].name /\ l.depth = c.locals[i].depth
                    /\ l.read = TRUE /\ l.isCaptured = (c.locals[i].isCaptured \/ f # Top)
                    /\ Fits([c EXCEPT !.locals[i] = l])
         \/ /\ \A f \in 1..Top : Lacks(compilers[f], n)
            /\ Finish(e, <<Instruction("OP_GET_GLOBAL", 0, n)>>)
            /\ UNCHANGED <<compilers, work>>
  BY <1>1, NamedView
<1>7. ASSUME NEW f \in 1..Top, NEW i \in 1..Len(compilers[f].locals),
             LET c == compilers[f]
                 l == IF f = Top THEN CapturedOnlyRead(c.locals[i]) ELSE Captured(c.locals[i])
             IN /\ Found(n, f, i) /\ compilers' = [compilers EXCEPT ![f] = [c EXCEPT !.locals[i] = l]]
                /\ Finish(First(e, OwnInitializer(c.locals[i])),
                          IF f = Top THEN <<Instruction("OP_GET_LOCAL", i, n)>> ELSE <<>>)
                /\ work' = IF f = Top THEN work
                           ELSE [level |-> f + 1, index |-> i, isLocal |-> TRUE, name |-> n]
                /\ l \in LocalType /\ l.name = c.locals[i].name /\ l.depth = c.locals[i].depth
                /\ l.read = TRUE /\ l.isCaptured = (c.locals[i].isCaptured \/ f # Top)
                /\ Fits([c EXCEPT !.locals[i] = l])
      PROVE  /\ e = NoError
             /\ \E d : /\ Found(n, f, i) /\ VariableTouched(n, f, i, compilers[f], d)
                       /\ compilers[f].locals[i].depth # -1
                       /\ f = Top => work' = work /\ emitted' = <<Instruction("OP_GET_LOCAL", i, n)>>
                       /\ f # Top => work' = [level |-> f + 1, index |-> i, isLocal |-> TRUE, name |-> n]
  <2>1. PICK l : l = IF f = Top THEN CapturedOnlyRead(compilers[f].locals[i]) ELSE Captured(compilers[f].locals[i])
    OBVIOUS
  <2>2. /\ Found(n, f, i) /\ compilers' = [compilers EXCEPT ![f] = [compilers[f] EXCEPT !.locals[i] = l]]
        /\ Finish(First(e, OwnInitializer(compilers[f].locals[i])),
                  IF f = Top THEN <<Instruction("OP_GET_LOCAL", i, n)>> ELSE <<>>)
        /\ work' = IF f = Top THEN work ELSE [level |-> f + 1, index |-> i, isLocal |-> TRUE, name |-> n]
        /\ l.name = compilers[f].locals[i].name /\ l.depth = compilers[f].locals[i].depth
        /\ l.read = TRUE /\ l.isCaptured = (compilers[f].locals[i].isCaptured \/ f # Top)
        /\ Fits([compilers[f] EXCEPT !.locals[i] = l])
    BY <1>7, <2>1
  <2>3. /\ First(e, OwnInitializer(compilers[f].locals[i])) = NoError
        /\ emitted' = IF f = Top THEN <<Instruction("OP_GET_LOCAL", i, n)>> ELSE <<>>
    BY <1>4, <2>2
  <2>4. e = NoError /\ compilers[f].locals[i].depth # -1
    BY <1>2, <1>3, <2>3
  <2>5. \E d : VariableTouched(n, f, i, compilers[f], d)
    BY <1>5, <2>2
  <2> QED BY <2>2, <2>3, <2>4, <2>5
<1>8. ASSUME /\ \A f \in 1..Top : Lacks(compilers[f], n)
             /\ Finish(e, <<Instruction("OP_GET_GLOBAL", 0, n)>>)
             /\ UNCHANGED <<compilers, work>>
      PROVE  /\ e = NoError /\ emitted' = <<Instruction("OP_GET_GLOBAL", 0, n)>>
  BY <1>4, <1>8
<1> QED BY <1>6, <1>7, <1>8, ZenonT(60)

TouchSeen(n, f, i, c, d) ==
  /\ Top' = Top /\ \A g \in 1..Top : compilers'[g] = IF g = f THEN d ELSE compilers[g]
  /\ \A g \in 1..Top : /\ Alike(compilers[g], compilers'[g])
                       /\ compilers'[g].upvalues = compilers[g].upvalues
                       /\ compilers'[g].scopeDepth = compilers[g].scopeDepth
  /\ LocalVariable(f, i)' = <<f, BlockOf(c, i) + 1, n>> /\ LocalVariable(f, i) = <<f, BlockOf(c, i) + 1, n>>
  /\ BlocksOf(d) = [BlocksOf(c) EXCEPT ![BlockOf(c, i) + 1][n] = Promise!Used(@, f # Top)]

\* What the change of that local means for all functions
LEMMA TouchView ==
  ASSUME LexicalInv, ~hadError, NEW n, NEW f \in 1..Top, NEW i \in 1..Len(compilers[f].locals),
         NEW c, c = compilers[f], NEW d, VariableTouched(n, f, i, c, d)
  PROVE  TouchSeen(n, f, i, c, d)
<1>1. IInv /\ \A g \in 1..Top : Plain(compilers[g])
  BY Open
<1>2. /\ compilers' = [compilers EXCEPT ![f] = d] /\ Fits(d)
      /\ Len(d.locals) = Len(c.locals) /\ DOMAIN d.locals = 1..Len(c.locals)
      /\ \A j \in 1..Len(c.locals) : j # i => d.locals[j] = c.locals[j]
      /\ d.locals[i].name = n /\ c.locals[i].name = n /\ d.locals[i].depth = c.locals[i].depth
      /\ d.locals[i].read = TRUE /\ d.locals[i].isCaptured = (c.locals[i].isCaptured \/ f # Top)
      /\ d.scopeDepth = c.scopeDepth /\ d.upvalues = c.upvalues
  BY DEF VariableTouched
<1>3. Top' = Top /\ \A g \in 1..Top : compilers'[g] = IF g = f THEN d ELSE compilers[g]
  <2>1. IInv /\ Fits(d) /\ compilers' = [compilers EXCEPT ![f] = d]
    BY <1>1, <1>2
  <2> QED BY ONLY <2>1, f \in 1..Top, EditView
<1>4. /\ BlocksOf(d) = [BlocksOf(c) EXCEPT ![BlockOf(c, i) + 1][n] = Promise!Used(@, f # Top)]
      /\ \A j \in 1..Len(c.locals) : BlockOf(d, j) = BlockOf(c, j)
  <2>1. PICK inside : inside = (f # Top)
    OBVIOUS
  <2>2. Plain(c) /\ d.locals[i].isCaptured = (c.locals[i].isCaptured \/ inside) /\ i \in 1..Len(c.locals)
    BY <1>1, <1>2, <2>1
  <2>3. d.locals[i].name = c.locals[i].name
    BY <1>2
  <2>4. /\ BlocksOf(d) = [BlocksOf(c) EXCEPT ![BlockOf(c, i) + 1][c.locals[i].name] = Promise!Used(@, inside)]
        /\ \A j \in 1..Len(c.locals) : BlockOf(d, j) = BlockOf(c, j)
    <3>1. Plain(c) /\ i \in 1..Len(c.locals) /\ DOMAIN d.locals = 1..Len(c.locals) /\ d.scopeDepth = c.scopeDepth
      BY <1>2, <2>2
    <3>2. \A j \in 1..Len(c.locals) : j # i => d.locals[j] = c.locals[j]
      BY <1>2
    <3>3. d.locals[i].name = c.locals[i].name /\ d.locals[i].depth = c.locals[i].depth /\ d.locals[i].read = TRUE
      BY <1>2
    <3>4. d.locals[i].isCaptured = (c.locals[i].isCaptured \/ inside)
      BY <2>2
    <3>5. Touches(c, i, inside, d)
      BY ONLY <3>1, <3>2, <3>3, <3>4 DEF Touches
    <3>6. BlocksOf(d) = BlocksTouched(c, i, inside) /\ \A j \in 1..Len(c.locals) : BlockOf(d, j) = BlockOf(c, j)
      BY ONLY <3>1, <3>5, TouchedBlocks
    <3> QED BY ONLY <3>6 DEF BlocksTouched
  <2>5. c.locals[i].name = n
    BY <1>2
  <2> QED BY ONLY <2>1, <2>4, <2>5
<1>5. Alike(c, d)
  <2>1. \A j \in 1..Len(c.locals) : d.locals[j].name = c.locals[j].name
    BY <1>2
  <2>2. DOMAIN c.locals = 1..Len(c.locals) /\ 1 \in DOMAIN c.locals /\ Len(c.locals) \in DOMAIN c.locals
    <3>1. DOMAIN c.locals = 1..Len(c.locals) /\ Len(c.locals) \in Nat \ {0}
      BY <1>1 DEF Plain
    <3> QED BY ONLY <3>1
  <2> QED BY ONLY <1>2, <1>4, <2>1, <2>2 DEF Alike
<1>6. ASSUME NEW g \in 1..Top
      PROVE  /\ Alike(compilers[g], compilers'[g]) /\ compilers'[g].upvalues = compilers[g].upvalues
             /\ compilers'[g].scopeDepth = compilers[g].scopeDepth
  <2>1. CASE g = f
    BY <1>2, <1>3, <1>5, <2>1
  <2>2. CASE g # f
    <3>1. compilers'[g] = compilers[g] /\ Plain(compilers[g])
      BY <1>1, <1>3, <2>2
    <3> QED BY <3>1 DEF Alike, Plain
  <2> QED BY <2>1, <2>2
<1>7. /\ LocalVariable(f, i)' = <<f, BlockOf(c, i) + 1, n>> /\ LocalVariable(f, i) = <<f, BlockOf(c, i) + 1, n>>
  <2>1. compilers'[f] = d
    BY <1>3
  <2>2. LocalVariable(f, i)' = <<f, BlockOf(d, i) + 1, d.locals[i].name>>
    BY <2>1 DEF LocalVariable, BlockOf
  <2>3. BlockOf(d, i) = BlockOf(c, i)
    BY <1>4
  <2> QED BY <1>2, <2>2, <2>3 DEF LocalVariable
<1> QED BY ONLY <1>3, <1>4, <1>6, <1>7 DEF TouchSeen

\* The functions inside f capture the variable v.
CapturesTouched(f, v) == [g \in 1..Top |-> Captures[g] \cup IF g > f THEN {v} ELSE {}]

\* And for the variables that functions capture: those inside f will have it.
LEMMA TouchCaptures ==
  ASSUME LexicalInv, IInv', ~hadError, ~hadError', work = NoWork, NEW n, NEW f \in 1..Top,
         NEW i \in 1..Len(compilers[f].locals), NEW c, c = compilers[f], NEW d, VariableTouched(n, f, i, c, d),
         f = Top => work' = work,
         f # Top => work' = [level |-> f + 1, index |-> i, isLocal |-> TRUE, name |-> n]
  PROVE  Captures' = CapturesTouched(f, <<f, BlockOf(c, i) + 1, n>>)
<1>1. IInv /\ Top \in Nat
  BY Open
<1>2. PICK v : v = <<f, BlockOf(c, i) + 1, n>>
  OBVIOUS
<1>3. /\ Top' = Top /\ LocalVariable(f, i)' = v
      /\ \A g \in 1..Top : Alike(compilers[g], compilers'[g]) /\ compilers'[g].upvalues = compilers[g].upvalues
  <2>1. TouchSeen(n, f, i, c, d)
    BY TouchView
  <2> QED BY ONLY <1>2, <2>1 DEF TouchSeen
<1>4. \A g \in 1..Top : UpvalueVariables'[g] = UpvalueVariables[g]
  <2>1. PICK m : m = Top
    OBVIOUS
  <2>2. m \in Nat /\ m <= Top /\ m <= Top'
    BY <1>1, <1>3, <2>1
  <2>3. /\ \A g \in 1..m : compilers'[g].upvalues = compilers[g].upvalues
        /\ \A g \in 1..m - 1 : Alike(compilers[g], compilers'[g])
    BY <1>1, <1>3, <2>1
  <2>4. \A g \in 1..m : UpvalueVariables'[g] = UpvalueVariables[g]
    BY ONLY IInv', <1>1, <2>2, <2>3, RowsKept, ZenonT(60)
  <2> QED BY <2>1, <2>4
<1>5. CapturesNow
  BY CapturesAre
<1>6. ASSUME NEW g \in 1..Top PROVE Pending(g)' = IF g > f THEN {v} ELSE {}
  <2>1. CASE f = Top
    <3>1. ~(g > f) /\ work' = NoWork
      BY <1>1, <2>1
    <3> QED BY <3>1 DEF Pending
  <2>2. CASE f # Top
    <3>1. PICK w : w = work'
      OBVIOUS
    <3>2. w = [level |-> f + 1, index |-> i, isLocal |-> TRUE, name |-> n]
      BY <2>2, <3>1
    <3>3. w.level = f + 1 /\ w.isLocal /\ w.index = i /\ w # NoWork
      BY <1>1, <3>2 DEF NoWork
    <3>4. w.level - 1 = f /\ (g >= w.level <=> g > f)
      BY <1>1, <3>3
    <3>5. OperandVariable(work.level - 1, work)' = LocalVariable(f, i)'
      BY <3>1, <3>3, <3>4 DEF OperandVariable, LocalVariable, BlockOf
    <3>6. Pending(g)' = IF w # NoWork /\ g >= w.level THEN {OperandVariable(work.level - 1, work)'} ELSE {}
      BY <3>1 DEF Pending
    <3> QED BY <1>3, <3>3, <3>4, <3>5, <3>6
  <2> QED BY <2>1, <2>2
<1>7. Captures' = [g \in 1..Top |-> Range(UpvalueVariables'[g]) \cup Pending(g)']
  BY <1>3 DEF Captures
<1> HIDE DEF Captures, UpvalueVariables, Pending
<1>8. Captures' = [g \in 1..Top |-> Captures[g] \cup IF g > f THEN {v} ELSE {}]
  BY <1>4, <1>5, <1>6, <1>7 DEF CapturesNow
<1> QED BY ONLY <1>2, <1>8 DEF CapturesTouched

\* What is decided: a local of the function being compiled, or an upvalue.
LEMMA TouchAnswer ==
  ASSUME LexicalInv, ~hadError, ~hadError', work = NoWork, NEW n, NEW f \in 1..Top,
         NEW i \in 1..Len(compilers[f].locals), NEW c, c = compilers[f], NEW d, VariableTouched(n, f, i, c, d),
         f = Top => work' = work /\ emitted' = <<Instruction("OP_GET_LOCAL", i, n)>>,
         f # Top => work' = [level |-> f + 1, index |-> i, isLocal |-> TRUE, name |-> n]
  PROVE  Answer' = {<<IF f = Top THEN "local" ELSE "upvalue", <<f, BlockOf(c, i) + 1, n>>>>}
<1>1. PICK v : v = <<f, BlockOf(c, i) + 1, n>>
  OBVIOUS
<1>2. Top' = Top /\ LocalVariable(f, i)' = v /\ f \in Nat
  <2>1. TouchSeen(n, f, i, c, d)
    BY TouchView
  <2>2. f \in Nat
    BY Open
  <2> QED BY ONLY <1>1, <2>1, <2>2 DEF TouchSeen
<1>3. CASE f = Top
  <2>1. PICK e : e = Instruction("OP_GET_LOCAL", i, n)
    OBVIOUS
  <2>2. e.op = "OP_GET_LOCAL" /\ e.arg = i /\ emitted' = <<e>> /\ work' = NoWork
    BY <1>3, <2>1 DEF Instruction
  <2>3. Means(e)' = <<"local", v>>
    <3>1. Means(e)' = <<"local", LocalVariable(f, i)'>>
      BY <1>2, <1>3, <2>2 DEF Means, LocalVariable
    <3> QED BY ONLY <1>2, <3>1
  <2>4. Answer' = {Means(emitted[k])' : k \in DOMAIN emitted'}
    BY <2>2 DEF Answer
  <2>5. DOMAIN emitted' = {1} /\ Means(emitted[1])' = Means(e)'
    BY <2>2 DEF Means, LocalVariable
  <2>6. Answer' = {Means(e)'}
    BY ONLY <2>4, <2>5
  <2> HIDE DEF Answer
  <2> QED BY ONLY <1>1, <1>3, <2>3, <2>6
<1>4. CASE f # Top
  <2>1. PICK w : w = work'
    OBVIOUS
  <2>2. w = [level |-> f + 1, index |-> i, isLocal |-> TRUE, name |-> n]
    BY <1>4, <2>1
  <2>3. w.level = f + 1 /\ w.isLocal /\ w.index = i /\ w # NoWork
    BY <1>2, <2>2 DEF NoWork
  <2>4. w.level - 1 = f
    BY <1>2, <2>3
  <2>5. OperandVariable(work.level - 1, work)' = LocalVariable(f, i)'
    BY <2>1, <2>3, <2>4 DEF OperandVariable, LocalVariable, BlockOf
  <2>6. Answer' = {<<"upvalue", OperandVariable(work.level - 1, work)'>>}
    BY <2>1, <2>3 DEF Answer
  <2> HIDE DEF Answer
  <2> QED BY ONLY <1>1, <1>2, <1>4, <2>5, <2>6
<1> QED BY <1>3, <1>4

\* A name that is found is used as Lexical says.
LEMMA VariableUsed ==
  ASSUME LexicalInv, IInv', ~hadError, ~hadError', work = NoWork, classes' = classes, NEW n, NEW f \in 1..Top,
         NEW i \in 1..Len(compilers[f].locals), NEW c, c = compilers[f], NEW d, VariableTouched(n, f, i, c, d),
         Found(n, f, i), c.locals[i].depth # -1,
         f = Top => work' = work /\ emitted' = <<Instruction("OP_GET_LOCAL", i, n)>>,
         f # Top => work' = [level |-> f + 1, index |-> i, isLocal |-> TRUE, name |-> n],
         n \in {"this", "super"} => classes # <<>>,
         n = "super" => Last(classes).hasSuperclass
  PROVE  Promise!UseVariable(n)
<1>1. /\ IInv /\ Top \in Nat \ {0} /\ \A g \in 1..Top : Plain(compilers[g])
  BY Open
<1>2. PICK b : b = BlockOf(c, i) + 1
  OBVIOUS
<1>3. Promise!Innermost(n) = <<f, b>> /\ Promise!Declaring(n) # {}
  BY <1>2, InnermostIs
<1>4. BlocksNow
  BY <1>1, BlocksAre
<1>5. TouchSeen(n, f, i, c, d)
  BY TouchView
<1>6. /\ Top' = Top /\ \A g \in 1..Top : compilers'[g] = IF g = f THEN d ELSE compilers[g]
      /\ \A g \in 1..Top : compilers'[g].scopeDepth = compilers[g].scopeDepth
      /\ BlocksOf(d) = [BlocksOf(c) EXCEPT ![b][n] = Promise!Used(@, f # Top)]
  BY ONLY <1>2, <1>5 DEF TouchSeen
<1>7. Blocks' = [Blocks EXCEPT ![f][b][n] = Promise!Used(@, f # Promise!Fn)]
  <2>1. Blocks' = [Blocks EXCEPT ![f] = BlocksOf(d)]
    BY <1>1, <1>6, BlocksEdited
  <2>2. Blocks[f] = BlocksOf(c) /\ Promise!Fn = Top
    BY <1>4 DEF BlocksNow
  <2> HIDE DEF Blocks
  <2> QED BY ONLY <1>6, <2>1, <2>2
<1>8. Captures' = [g \in 1..Promise!Fn |-> Captures[g] \cup IF g > f THEN {<<f, b, n>>} ELSE {}]
  <2>1. Promise!Fn = Top
    BY <1>4 DEF BlocksNow
  <2>2. f = Top => work' = work
    OBVIOUS
  <2>3. IInv'
    OBVIOUS
  <2>4. Captures' = CapturesTouched(f, <<f, BlockOf(c, i) + 1, n>>)
    BY <2>2, <2>3, TouchCaptures
  <2> HIDE DEF Captures
  <2> QED BY ONLY <1>2, <2>1, <2>4 DEF CapturesTouched
<1>9. Answer' = {<<IF f = Promise!Fn THEN "local" ELSE "upvalue", <<f, b, n>>>>}
  <2>1. Promise!Fn = Top
    BY <1>4 DEF BlocksNow
  <2> QED BY <1>2, <2>1, TouchAnswer
<1>10. Blocks[f][b][n].ready
  <2>1. /\ Distinct(c) /\ DOMAIN c.locals = 1..Len(c.locals) /\ BlockOf(c, i) \in 0..c.scopeDepth
        /\ c.scopeDepth \in Nat /\ c.locals[i].name = n
    BY <1>1 DEF Plain, Found, Resolves
  <2>2. BlockAt(c, BlockOf(c, i))[n] = Flags(c.locals[i])
    BY <2>1, BlockIs
  <2>3. b \in 1..c.scopeDepth + 1 /\ b - 1 = BlockOf(c, i)
    BY <1>2, <2>1
  <2>4. Blocks[f][b] = BlockAt(c, BlockOf(c, i))
    BY <1>4, <2>3 DEF BlocksNow
  <2>5. Blocks[f][b][n] = Flags(c.locals[i])
    BY ONLY <2>2, <2>4
  <2>6. PICK l : l = c.locals[i]
    OBVIOUS
  <2>7. Flags(l).ready
    <3>1. l.depth # -1
      BY <2>6
    <3> QED BY <3>1 DEF Flags
  <2> QED BY ONLY <2>5, <2>6, <2>7
<1>11. Classes' = Classes
  <2>1. ASSUME NEW k \in DOMAIN classes
        PROVE  compilers'[classes[k].fn].scopeDepth = compilers[classes[k].fn].scopeDepth
    <3>1. classes[k].fn \in 1..Top
      BY <1>1, ClassFacts
    <3> QED BY <1>6, <3>1
  <2> QED BY <2>1, ClassesSame
<1>12. n \in {"this", "super"} => Classes # <<>>
  BY <1>1, ClassesAre
<1>13. n = "super" => Promise!Last(Classes).super = <<f, b>>
  <2> SUFFICES ASSUME n = "super" PROVE Promise!Last(Classes).super = <<f, b>>
    OBVIOUS
  <2>1. \A s : Promise!Last(s) = Last(s)
    BY DEF Promise!Last, Last
  <2>2. SuperPlace(Last(classes)) = <<f, b>>
    BY <1>2, SuperPlaceIs
  <2>3. Len(classes) \in Nat \ {0} /\ Last(classes) = classes[Len(classes)]
    <3>1. classes \in Seq(ClassType) /\ classes # <<>> /\ Last(classes) = classes[Len(classes)]
      BY <1>1, ClassFacts
    <3> HIDE DEF ClassType
    <3> QED BY ONLY <3>1
  <2>4. Last(Classes).super = SuperPlace(Last(classes))
    <3>1. /\ Last(Classes) = Classes[Len(classes)]
          /\ \A k \in 1..Len(classes) : Classes[k] = [name |-> classes[k].name, super |-> SuperPlace(classes[k])]
      BY <1>1, ClassesAre
    <3>2. PICK m : m = Len(classes)
      OBVIOUS
    <3>3. m \in 1..m
      BY <2>3, <3>2
    <3>4. Last(Classes) = [name |-> classes[m].name, super |-> SuperPlace(classes[m])]
      BY ONLY <3>1, <3>2, <3>3
    <3>5. Last(Classes).super = SuperPlace(classes[m])
      BY ONLY <3>4
    <3> HIDE DEF Classes
    <3> QED BY ONLY <2>3, <3>2, <3>5
  <2> HIDE DEF Classes
  <2> QED BY ONLY <2>1, <2>2, <2>4
<1> HIDE DEF Blocks, Captures, Classes, Answer
<1>14. <<f, b>>[1] = f /\ <<f, b>>[2] = b
  OBVIOUS
<1>15. /\ Answer' # {}
       /\ n = "this" => Classes # <<>>
       /\ n = "super" => Classes # <<>> /\ Promise!Last(Classes).super = <<f, b>>
  BY <1>9, <1>12, <1>13
<1> QED BY ONLY <1>3, <1>7, <1>8, <1>9, <1>10, <1>11, <1>14, <1>15 DEF Promise!UseVariable

\* A name that is not found is a global.
LEMMA GlobalUsed ==
  ASSUME LexicalInv, ~hadError, ~hadError', work = NoWork, UNCHANGED <<compilers, classes, work>>, NEW n,
         \A f \in 1..Top : Lacks(compilers[f], n), emitted' = <<Instruction("OP_GET_GLOBAL", 0, n)>>
  PROVE  Promise!UseGlobal(n)
<1>1. \A f \in 1..Top : DOMAIN compilers[f].locals = 1..Len(compilers[f].locals)
  BY Open
<1>2. Promise!Declaring(n) = {}
  <2>1. \A p : p \in Promise!Declaring(n) <=>
          \E f \in 1..Top : \E i \in 1..Len(compilers[f].locals) :
            compilers[f].locals[i].name = n /\ p = <<f, BlockOf(compilers[f], i) + 1>>
    BY DeclaringIs
  <2>2. \A f \in 1..Top : \A i \in 1..Len(compilers[f].locals) : compilers[f].locals[i].name # n
    BY <1>1 DEF Lacks
  <2>3. PICK S : S = Promise!Declaring(n)
    OBVIOUS
  <2>4. \A p : p \notin S
    BY ONLY <2>1, <2>2, <2>3
  <2>5. S = {}
    BY ONLY <2>4
  <2> QED BY ONLY <2>3, <2>5
<1>3. Blocks' = Blocks
  BY DEF Blocks, Top
<1>4. Captures' = Captures
  <2>1. CapturesNow /\ CapturesNow'
    BY CapturesAre, CapturesAreNext
  <2>2. UpvalueVariables' = UpvalueVariables
    BY DEF UpvalueVariables, LocalVariable, Top, BlockOf
  <2> HIDE DEF UpvalueVariables
  <2> QED BY <2>1, <2>2 DEF CapturesNow, Top
<1>5. Classes' = Classes
  BY ClassesSame
<1>6. Answer' = {<<"global", <<0, 0, n>>>>}
  <2>1. PICK e : e = Instruction("OP_GET_GLOBAL", 0, n)
    OBVIOUS
  <2>2. e.op = "OP_GET_GLOBAL" /\ e.name = n /\ emitted' = <<e>> /\ work' = NoWork
    BY <2>1 DEF Instruction
  <2>3. Means(e)' = <<"global", <<0, 0, n>>>>
    BY <2>2 DEF Means
  <2>4. Answer' = {Means(emitted[k])' : k \in DOMAIN emitted'}
    BY <2>2 DEF Answer
  <2>5. DOMAIN emitted' = {1} /\ Means(emitted[1])' = Means(e)'
    BY <2>2 DEF Means, LocalVariable
  <2>6. Answer' = {Means(e)'}
    BY ONLY <2>4, <2>5
  <2> HIDE DEF Answer
  <2> QED BY ONLY <2>3, <2>6
<1> HIDE DEF Blocks, Captures, Classes, Answer
<1> QED BY ONLY <1>2, <1>3, <1>4, <1>5, <1>6 DEF Promise!UseGlobal

\* Slot 0 of the script is "this", and a class with a superclass has its "super".
LEMMA NeverGlobal ==
  ASSUME LexicalInv, ~hadError
  PROVE  /\ \E f \in 1..Top : ~Lacks(compilers[f], "this")
         /\ classes # <<>> /\ Last(classes).hasSuperclass => \E f \in 1..Top : ~Lacks(compilers[f], "super")
<1>1. /\ IInv /\ Top \in Nat \ {0}
      /\ \A g \in 1..Top : /\ Plain(compilers[g]) /\ Accepts(g, compilers[g], Waits(g), Supered(g))
  BY Open
<1>2. \E f \in 1..Top : ~Lacks(compilers[f], "this")
  <2>1. 1 \in 1..Top
    BY <1>1
  <2>2. compilers[1].locals[1].name = "this" /\ 1 \in DOMAIN compilers[1].locals
    BY <1>1, <2>1 DEF Accepts, Plain
  <2> QED BY <2>1, <2>2 DEF Lacks
<1>3. ASSUME classes # <<>>, Last(classes).hasSuperclass PROVE \E f \in 1..Top : ~Lacks(compilers[f], "super")
  <2>1. PICK m : m = Len(classes)
    OBVIOUS
  <2>2. m \in DOMAIN classes /\ Last(classes) = classes[m]
    <3>1. classes \in Seq(ClassType) /\ Last(classes) = classes[m]
      BY <1>1, <2>1, ClassFacts
    <3> HIDE DEF ClassType
    <3> QED BY <1>3, <2>1, <3>1
  <2>3. PICK h : h = classes[m].fn
    OBVIOUS
  <2>4. h \in 1..Top
    BY <1>1, <2>2, <2>3, ClassFacts
  <2>5. Supered(h)
    BY <1>3, <2>2, <2>3 DEF Supered
  <2> HIDE DEF Supered, Waits
  <2>6. Last(compilers[h].locals).name = "super"
    BY <1>1, <2>4, <2>5 DEF Accepts
  <2>7. Len(compilers[h].locals) \in DOMAIN compilers[h].locals
    BY <1>1, <2>4 DEF Plain
  <2> QED BY <2>4, <2>6, <2>7 DEF Lacks, Last
<1> QED BY <1>2, <1>3

\* namedVariable
LEMMA NameUsed ==
  ASSUME LexicalInv, IInv', ~hadError, ~hadError', work = NoWork, classes' = classes,
         NEW n \in Name \cup {"this", "super"}, NEW rest, NEW e, NamedVariable(n, rest, e),
         n \in {"this", "super"} => classes # <<>>, n = "super" => Last(classes).hasSuperclass
  PROVE  todo' = rest /\ e = NoError /\ (Promise!UseVariable(n) \/ (n \in Name /\ Promise!UseGlobal(n)))
<1>1. ASSUME NEW f \in 1..Top, NEW i \in 1..Len(compilers[f].locals), NEW d,
             Found(n, f, i), VariableTouched(n, f, i, compilers[f], d), compilers[f].locals[i].depth # -1,
             f = Top => work' = work /\ emitted' = <<Instruction("OP_GET_LOCAL", i, n)>>,
             f # Top => work' = [level |-> f + 1, index |-> i, isLocal |-> TRUE, name |-> n]
      PROVE  Promise!UseVariable(n)
  <2>1. PICK c : c = compilers[f]
    OBVIOUS
  <2>2. VariableTouched(n, f, i, c, d) /\ c.locals[i].depth # -1
    BY <1>1, <2>1
  <2> QED BY <1>1, <2>1, <2>2, VariableUsed
<1>2. ASSUME \A f \in 1..Top : Lacks(compilers[f], n), emitted' = <<Instruction("OP_GET_GLOBAL", 0, n)>>,
             UNCHANGED <<compilers, work>>
      PROVE  n \in Name /\ Promise!UseGlobal(n)
  <2>1. n \in Name
    BY <1>2, NeverGlobal
  <2>2. UNCHANGED <<compilers, classes, work>>
    BY <1>2
  <2> QED BY <1>2, <2>1, <2>2, GlobalUsed
<1>3. /\ todo' = rest /\ e = NoError
      /\ \/ \E f \in 1..Top : \E i \in 1..Len(compilers[f].locals) : \E d :
              /\ Found(n, f, i) /\ VariableTouched(n, f, i, compilers[f], d)
              /\ compilers[f].locals[i].depth # -1
              /\ f = Top => work' = work /\ emitted' = <<Instruction("OP_GET_LOCAL", i, n)>>
              /\ f # Top => work' = [level |-> f + 1, index |-> i, isLocal |-> TRUE, name |-> n]
         \/ /\ \A f \in 1..Top : Lacks(compilers[f], n)
            /\ emitted' = <<Instruction("OP_GET_GLOBAL", 0, n)>>
            /\ UNCHANGED <<compilers, work>>
  BY NameFound
<1> QED BY ONLY <1>1, <1>2, <1>3

\* A name is used, in Lexical's words.
Uses == \E n \in Name \cup {"this", "super"} : Promise!UseVariable(n) \/ (n \in Name /\ Promise!UseGlobal(n))

\* A use of a name, whatever production it is in
LEMMA UseFollows ==
  ASSUME LexicalInv, IInv', ~hadError, ~hadError', work = NoWork, classes' = classes,
         NEW n \in Name \cup {"this", "super"}, NEW rest, NEW e, NamedVariable(n, rest, e),
         n \in {"this", "super"} => classes # <<>>, n = "super" => Last(classes).hasSuperclass,
         pc' = "initializer" => pc = "initializer", NoSuperYet',
         \A j \in DOMAIN rest : rest[j] = "super" => classes # <<>> /\ Last(classes).hasSuperclass
  PROVE  Accepted' /\ Uses
<1>1. todo' = rest /\ (Promise!UseVariable(n) \/ (n \in Name /\ Promise!UseGlobal(n)))
  BY NameUsed
<1>2. SupersDue'
  BY <1>1 DEF SupersDue
<1>3. Accepted'
  BY <1>2, AcceptedNamed
<1> QED BY <1>1, <1>3 DEF Uses

\* Names in expressions: variables, this, and super with its receiver
LEMMA ExpressionFollows ==
  ASSUME LexicalInv, IInv', ~hadError, ~hadError',
         \/ \E n \in Name : Variable(n)
         \/ This \/ Super
  PROVE  Accepted' /\ Uses
<1>1. InExpression /\ UNCHANGED <<classes, pc>>
  BY DEF Variable, This, Super
<1>2. work = NoWork /\ pc' = pc /\ pc \in {"statement", "initializer"} /\ classes' = classes
  BY <1>1 DEF InExpression, Ready
<1>3. NoSuperYet'
  BY <1>2 DEF NoSuperYet
<1>4. hadError \in BOOLEAN /\ IInv
  BY Open, Unfold DEF Control
<1>5. \A j \in DOMAIN <<>> : <<>>[j] = "super" => classes # <<>> /\ Last(classes).hasSuperclass
  OBVIOUS
<1>6. ASSUME NEW n \in Name, Variable(n) PROVE Accepted' /\ Uses
  <2>1. n \notin {"this", "super"}
    BY ScopesAssumption
  <2>2. NamedVariable(n, <<>>, NoError)
    BY <1>6 DEF Variable
  <2>3. n \in Name \cup {"this", "super"}
    OBVIOUS
  <2> QED BY <1>2, <1>3, <1>5, <2>1, <2>2, <2>3, UseFollows
<1>7. ASSUME This PROVE Accepted' /\ Uses
  <2>1. classes # <<>>
    <3>1. SUFFICES ASSUME classes = <<>> PROVE FALSE
      OBVIOUS
    <3>2. Finish(Report("outside_a_class", "this"), <<>>)
      BY <1>7, <3>1 DEF This
    <3>3. Report("outside_a_class", "this") = NoError
      BY <1>4, <3>2, Finished
    <3> QED BY <3>3 DEF Report, NoError
  <2>2. NamedVariable("this", <<>>, NoError)
    BY <1>7, <2>1 DEF This
  <2>3. PICK n : n = "this"
    OBVIOUS
  <2>4. /\ NamedVariable(n, <<>>, NoError) /\ n \in Name \cup {"this", "super"}
        /\ n \in {"this", "super"} => classes # <<>>
        /\ n = "super" => Last(classes).hasSuperclass
    BY <2>1, <2>2, <2>3
  <2> QED BY <1>2, <1>3, <1>5, <2>4, UseFollows
<1>8. ASSUME Super PROVE Accepted' /\ Uses
  <2>1. NamedVariable("this", <<"super">>, SuperError)
    BY <1>8 DEF Super
  <2>2. PICK n, rest : n = "this" /\ rest = <<"super">>
    OBVIOUS
  <2>3. NamedVariable(n, rest, SuperError)
    BY <2>1, <2>2
  <2>4. SuperError = NoError
    BY <2>3, NameFound
  <2>5. classes # <<>> /\ Last(classes).hasSuperclass
    BY <2>4 DEF SuperError, Report, NoError
  <2>6. /\ n \in Name \cup {"this", "super"}
        /\ n \in {"this", "super"} => classes # <<>>
        /\ n = "super" => Last(classes).hasSuperclass
        /\ \A j \in DOMAIN rest : rest[j] = "super" => classes # <<>> /\ Last(classes).hasSuperclass
    BY <2>2, <2>5
  <2> QED BY <1>2, <1>3, <2>3, <2>6, UseFollows
<1> QED BY <1>6, <1>7, <1>8

\* What a class with no superclass yet is to Lexical
LEMMA Unheaded ==
  ASSUME LexicalInv, ~hadError, pc \in {"class", "inherits", "inherits_itself"}
  PROVE  /\ classes # <<>> /\ Last(classes).name \in Name
         /\ Classes # <<>> /\ Promise!Last(Classes).name = Last(classes).name
         /\ Promise!Last(Classes).super = <<0, 0>>
<1>1. IInv /\ InClassBody /\ ~Last(classes).hasSuperclass
  BY Open, Unfold DEF ClassesNest, NoSuperYet
<1>2. PICK m, C : m = Len(classes) /\ C = Classes
  OBVIOUS
<1>3. m \in Nat \ {0} /\ Last(classes) = classes[m] /\ classes[m].name \in Name
  BY <1>1, <1>2, InClass
<1>4. classes # <<>>
  BY <1>1 DEF InClassBody
<1>5. Last(C) = [name |-> classes[m].name, super |-> SuperPlace(classes[m])] /\ C # <<>>
  <2>1. /\ Last(Classes) = Classes[Len(classes)] /\ (Classes = <<>> <=> classes = <<>>)
        /\ \A k \in 1..Len(classes) : Classes[k] = [name |-> classes[k].name, super |-> SuperPlace(classes[k])]
    BY <1>1, ClassesAre
  <2>2. m \in 1..m
    BY <1>3
  <2> HIDE DEF Classes
  <2> QED BY ONLY <1>2, <1>4, <2>1, <2>2
<1>6. SuperPlace(classes[m]) = <<0, 0>>
  BY <1>1, <1>3 DEF SuperPlace
<1>7. Last(C).name = classes[m].name /\ Last(C).super = <<0, 0>>
  BY ONLY <1>5, <1>6
<1>8. \A s : Promise!Last(s) = Last(s)
  BY DEF Promise!Last, Last
<1> HIDE DEF Classes
<1> QED BY ONLY <1>2, <1>3, <1>4, <1>5, <1>7, <1>8

\* classDeclaration, the name of the superclass
LEMMA SuperclassFollows ==
  ASSUME LexicalInv, IInv', ~hadError, ~hadError', NEW s \in Name, Superclass(s)
  PROVE  Accepted' /\ Promise!Superclass(s) /\ work = NoWork /\ Header = "none"
<1>1. /\ work = NoWork /\ classes' = classes /\ pc = "class" /\ NamedVariable(s, <<>>, NoError)
      /\ pc' = IF s = Last(classes).name THEN "inherits_itself" ELSE "inherits"
  BY DEF Superclass, Ready
<1>2. NoSuperYet' /\ (pc' = "initializer" => pc = "initializer")
  BY <1>1, Open DEF NoSuperYet
<1>3. s \notin {"this", "super"} /\ s \in Name \cup {"this", "super"}
  BY ScopesAssumption
<1>4. \A j \in DOMAIN <<>> : <<>>[j] = "super" => classes # <<>> /\ Last(classes).hasSuperclass
  OBVIOUS
<1>5. Accepted'
  BY <1>1, <1>2, <1>3, <1>4, UseFollows
<1>6. Promise!UseVariable(s) \/ Promise!UseGlobal(s)
  BY <1>1, <1>3, NameUsed
<1>7. /\ Classes # <<>> /\ Promise!Last(Classes).name = Last(classes).name
      /\ Promise!Last(Classes).super = <<0, 0>>
  BY <1>1, Unheaded
<1>8. Header = "none" /\ Header' = IF s = Last(classes).name THEN "itself" ELSE "other"
  BY <1>1 DEF Header
<1> HIDE DEF Classes, Header
<1>9. Promise!Superclass(s)
  BY ONLY <1>6, <1>7, <1>8 DEF Promise!Superclass, Promise!Nowhere
<1> QED BY <1>1, <1>5, <1>8, <1>9

\* The names a production uses after its first, and that of a class before its body
LEMMA RestFollows ==
  ASSUME LexicalInv, IInv', ~hadError, ~hadError', ResolveNext \/ ClassBody
  PROVE  Accepted' /\ Uses
<1>1. work = NoWork /\ classes' = classes
  BY DEF ResolveNext, ClassBody, Ready
<1>2. IInv /\ SupersDue /\ NoSuperYet
  BY Open
<1>3. \A j \in DOMAIN <<>> : <<>>[j] = "super" => classes # <<>> /\ Last(classes).hasSuperclass
  OBVIOUS
<1>5. ASSUME ResolveNext PROVE Accepted' /\ Uses
  <2>1. PICK n, rest : n = Head(todo) /\ rest = Tail(todo)
    OBVIOUS
  <2>2. todo # <<>> /\ pc' = pc /\ NamedVariable(n, rest, NoError)
    BY <1>5, <2>1 DEF ResolveNext
  <2>3. todo \in Seq(Name \cup {"super"})
    BY <1>2, Unfold DEF Control
  <2>4. /\ n \in Name \cup {"super"} /\ 1 \in DOMAIN todo /\ n = todo[1]
        /\ \A j \in DOMAIN rest : j + 1 \in DOMAIN todo /\ rest[j] = todo[j + 1]
    BY <2>1, <2>2, <2>3
  <2>5. /\ n = "super" => classes # <<>> /\ Last(classes).hasSuperclass
        /\ \A j \in DOMAIN rest : rest[j] = "super" => classes # <<>> /\ Last(classes).hasSuperclass
    BY <1>2, <2>4 DEF SupersDue
  <2>6. n # "this" /\ n \in Name \cup {"this", "super"}
    BY <2>4, ScopesAssumption
  <2>7. NoSuperYet'
    BY <1>1, <1>2, <2>2 DEF NoSuperYet
  <2> QED BY <1>1, <2>2, <2>5, <2>6, <2>7, UseFollows
<1>6. ASSUME ClassBody PROVE Accepted' /\ Uses
  <2>1. PICK n : n = Last(classes).name
    OBVIOUS
  <2>2. pc = "class" /\ NamedVariable(n, <<>>, NoError) /\ pc' = "statement"
    BY <1>6, <2>1 DEF ClassBody
  <2>3. InClassBody
    BY <1>2, <2>2, Unfold DEF ClassesNest
  <2>4. n \in Name
    <3>1. PICK m : m = Len(classes)
      OBVIOUS
    <3>2. Last(classes) = classes[m] /\ classes[m].name \in Name
      BY <2>2, <2>3, <3>1, InClass
    <3> QED BY <2>1, <3>2
  <2>5. n \notin {"this", "super"} /\ n \in Name \cup {"this", "super"}
    BY <2>4, ScopesAssumption
  <2>6. NoSuperYet'
    BY <2>2 DEF NoSuperYet
  <2> QED BY <1>1, <1>3, <2>2, <2>5, <2>6, UseFollows
<1> QED BY <1>5, <1>6

-----------------------------------------------------------------------------
(* The first state of a program *)

StartsAnew ==
  /\ compilers = <<Compiler("this", 0)>> /\ classes = <<>> /\ pc = "statement" /\ todo = <<>> /\ work = NoWork
  /\ ~hadError /\ emitted = <<>>

Anew ==
  /\ Blocks = << <<Promise!Block({"this"})>> >> /\ Captures = <<{}>> /\ Classes = <<>> /\ Header = "none"
  /\ Answer = {} /\ Accepted

\* Before anything is parsed, there is the script with "this" in its slot 0.
LEMMA FirstState == StartsAnew => Anew
<1> SUFFICES ASSUME StartsAnew PROVE Anew
  OBVIOUS
<1>1. /\ compilers = <<Compiler("this", 0)>> /\ classes = <<>> /\ pc = "statement" /\ todo = <<>>
      /\ work = NoWork /\ ~hadError /\ emitted = <<>>
  BY DEF StartsAnew
<1>2. PICK c, d : d = 0 /\ c = Compiler("this", d)
  OBVIOUS
<1>3. Top = 1 /\ compilers[1] = c /\ compilers = <<c>>
  BY <1>1, <1>2 DEF Top
<1>4. /\ Accepts(1, c, FALSE, FALSE) /\ c.upvalues = <<>> /\ c.scopeDepth = 0
      /\ BlocksOf(c) = <<Promise!Block({"this"})>>
  BY <1>2, NewAccepted, NewBlocks
<1>5. Blocks = << <<Promise!Block({"this"})>> >>
  <2>1. Blocks = [f \in 1..1 |-> BlocksOf(compilers[f])]
    BY <1>1, <1>3 DEF Blocks
  <2>2. PICK B : B = <<Promise!Block({"this"})>>
    OBVIOUS
  <2>3. Blocks = [f \in 1..1 |-> B]
    BY <1>3, <1>4, <2>1, <2>2
  <2>4. [f \in 1..1 |-> B] = <<B>>
    OBVIOUS
  <2> HIDE DEF Blocks
  <2> QED BY ONLY <2>2, <2>3, <2>4
<1>6. Captures = <<{}>>
  <2>1. Captures = [f \in 1..1 |-> Range(UpvalueVariables[f])]
    BY <1>1, <1>3, CapturesAre DEF CapturesNow
  <2>2. UpvalueVariables = [f \in 1..Top |-> UpvaluesFrom(UpvalueVariables, f)]
    BY <1>3, <1>4, UpvaluesAre
  <2>3. UpvalueVariables[1] = UpvaluesFrom(UpvalueVariables, 1)
    <3> HIDE DEF UpvalueVariables
    <3> QED BY <1>3, <2>2
  <2>4. DOMAIN UpvalueVariables[1] = {}
    <3>1. DOMAIN UpvaluesFrom(UpvalueVariables, 1) = DOMAIN compilers[1].upvalues
      BY DEF UpvaluesFrom
    <3>2. DOMAIN compilers[1].upvalues = {}
      BY <1>3, <1>4
    <3> QED BY <2>3, <3>1, <3>2
  <2>5. PICK R : R = Range(UpvalueVariables[1])
    OBVIOUS
  <2>6. R = {}
    BY <2>4, <2>5 DEF Range
  <2>7. Captures = [f \in 1..1 |-> R]
    <3> HIDE DEF UpvalueVariables, Captures
    <3> QED BY <2>1, <2>5
  <2>8. [f \in 1..1 |-> R] = <<R>>
    OBVIOUS
  <2> QED BY ONLY <2>6, <2>7, <2>8
<1>7. Classes = <<>>
  BY <1>1 DEF Classes
<1>8. Answer = {}
  <2>1. Answer = {Means(emitted[k]) : k \in DOMAIN emitted}
    BY <1>1 DEF Answer
  <2>2. DOMAIN emitted = {}
    BY <1>1
  <2> QED BY <2>1, <2>2
<1>9. Accepted
  <2>1. Waits(1) = FALSE /\ Supered(1) = FALSE
    BY <1>1, <1>3 DEF Waits, Supered
  <2>2. Accepts(1, compilers[1], Waits(1), Supered(1))
    <3> HIDE DEF Waits, Supered
    <3> QED BY <1>3, <1>4, <2>1
  <2>3. SupersDue /\ NoSuperYet
    BY <1>1 DEF SupersDue, NoSuperYet
  <2>4. \A f \in 1..Top : f = 1
    BY <1>3
  <2> HIDE DEF Waits, Supered
  <2> QED BY <2>2, <2>3, <2>4, AcceptedIs
<1>10. Header = "none"
  BY <1>1 DEF Header
<1> HIDE DEF Blocks, Captures, Classes, Header, Answer
<1> QED BY <1>5, <1>6, <1>7, <1>8, <1>9, <1>10 DEF Anew

\* The same after a step.
LEMMA FirstStateNext == StartsAnew' => Anew'
BY FirstState, PTL

\* The next program starts from there as well.
LEMMA RestartFollows ==
  ASSUME LexicalInv, IInv', EndScript
  PROVE  Accepted' /\ Promise!Restart
<1>1. /\ compilers' = <<Compiler("this", 0)>> /\ ~hadError' /\ emitted' = <<>>
      /\ UNCHANGED <<classes, pc, todo, work>>
      /\ todo = <<>> /\ work = NoWork /\ pc = "statement" /\ ~InClassBody /\ Top = 1 /\ current.scopeDepth = 0
  BY DEF EndScript, AtStatement, Ready
<1>2. IInv
  BY DEF LexicalInv
<1>3. classes = <<>>
  <2>1. \A k \in DOMAIN classes : classes[k].fn < Top
    BY <1>1, <1>2, NoClassHere
  <2>2. classes \in Seq(ClassType) /\ DOMAIN classes = 1..Len(classes) /\ Len(classes) \in Nat
        /\ \A k \in 1..Len(classes) : classes[k].fn \in 1..Top
    BY <1>2, ClassFacts
  <2>3. SUFFICES ASSUME Len(classes) # 0 PROVE FALSE
    <3> HIDE DEF ClassType
    <3> QED BY <2>2
  <2>4. 1 \in 1..Len(classes)
    BY <2>2, <2>3
  <2>5. classes[1].fn < 1 /\ classes[1].fn \in 1..1
    BY <1>1, <2>1, <2>2, <2>4
  <2> QED BY ONLY <2>5
<1>4. StartsAnew'
  BY <1>1, <1>3 DEF StartsAnew
<1>5. Anew'
  BY <1>4, FirstStateNext
<1>6. hadError \/ Promise!Global
  <2> SUFFICES ASSUME ~hadError PROVE Promise!Global
    OBVIOUS
  <2>1. BlocksNow
    BY <1>2, BlocksAre
  <2> QED BY <1>1, <2>1 DEF BlocksNow
<1>7. Header = "none"
  BY <1>1 DEF Header
<1> HIDE DEF Blocks, Captures, Classes, Header, Answer
<1> QED BY <1>1, <1>5, <1>6, <1>7 DEF Anew, Promise!Restart

-----------------------------------------------------------------------------
(* Limits *)

\* Lexical counts with its own copy of Cardinality.
LEMMA SameCardinality == \A s : Promise!Cardinality(s) = Cardinality(s)
BY DEF Promise!Cardinality, Cardinality

\* A set listed without repetition
LEMMA Counted ==
  ASSUME NEW S, NEW n \in Nat, NEW s, s = [i \in 1..n |-> s[i]], \A i \in 1..n : s[i] \in S,
         \A x \in S : \E i \in 1..n : s[i] = x, \A i, j \in 1..n : s[i] = s[j] => i = j
  PROVE  IsFiniteSet(S) /\ Cardinality(S) = n
<1>1. IsFiniteSet(1..n) /\ Cardinality(1..n) = n
  <2>1. 1 \in Int /\ n \in Int
    OBVIOUS
  <2>2. IsFiniteSet(1..n) /\ Cardinality(1..n) = IF 1 > n THEN 0 ELSE n - 1 + 1
    BY ONLY <2>1, FS_Interval
  <2>3. (IF 1 > n THEN 0 ELSE n - 1 + 1) = n
    OBVIOUS
  <2> QED BY ONLY <2>2, <2>3
<1>2. s \in [1..n -> S]
  OBVIOUS
<1>3. s \in Bijection(1..n, S)
  BY <1>2 DEF Bijection, Injection, Surjection, IsInjective
<1>4. ExistsBijection(1..n, S)
  BY <1>3 DEF ExistsBijection
<1> QED BY ONLY <1>1, <1>4, FS_Bijection

\* Every local is another variable of its function.
LEMMA VariablesCounted ==
  ASSUME LexicalInv, ~hadError, NEW f \in 1..Top
  PROVE  Cardinality(Promise!Variables(f)) = Len(compilers[f].locals)
<1>1. IInv /\ Plain(compilers[f])
  BY Open
<1>2. BlocksNow
  BY <1>1, BlocksAre
<1>3. PICK c : c = compilers[f]
  OBVIOUS
<1>4. PICK n : n = Len(c.locals)
  OBVIOUS
<1>5. /\ Distinct(c) /\ DOMAIN c.locals = 1..n /\ c.scopeDepth \in Nat /\ n \in Nat
      /\ \A i \in 1..n : BlockOf(c, i) \in 0..c.scopeDepth
  BY <1>1, <1>3, <1>4 DEF Plain
<1>6. PICK s : s = [i \in 1..n |-> <<BlockOf(c, i) + 1, c.locals[i].name>>]
  OBVIOUS
<1>7. PICK S : S = Promise!Variables(f)
  OBVIOUS
<1>8. \A x : x \in S <=> \E b \in DOMAIN Blocks[f] : \E m \in DOMAIN Blocks[f][b] : x = <<b, m>>
  BY <1>7 DEF Promise!Variables
<1>9. /\ DOMAIN Blocks[f] = 1..c.scopeDepth + 1
      /\ \A b \in 1..c.scopeDepth + 1 : Blocks[f][b] = BlockAt(c, b - 1)
  BY <1>2, <1>3 DEF BlocksNow
<1>10. \A d : \A m : m \in DOMAIN BlockAt(c, d) <=> \E i \in DOMAIN c.locals : BlockOf(c, i) = d /\ c.locals[i].name = m
  BY <1>5, BlockIs
<1> HIDE DEF Blocks
<1>11. ASSUME NEW i \in 1..n PROVE s[i] \in S
  <2>1. PICK b : b = BlockOf(c, i) + 1
    OBVIOUS
  <2>2. b \in 1..c.scopeDepth + 1 /\ BlockOf(c, i) = b - 1
    BY <1>5, <2>1
  <2>3. c.locals[i].name \in DOMAIN Blocks[f][b]
    BY <1>5, <1>9, <1>10, <2>2
  <2>4. s[i] = <<b, c.locals[i].name>>
    BY <1>6, <2>1
  <2> QED BY <1>8, <1>9, <2>2, <2>3, <2>4
<1>12. ASSUME NEW x \in S PROVE \E i \in 1..n : s[i] = x
  <2>1. PICK b \in DOMAIN Blocks[f] : \E m \in DOMAIN Blocks[f][b] : x = <<b, m>>
    BY <1>8
  <2>2. PICK m \in DOMAIN Blocks[f][b] : x = <<b, m>>
    BY <2>1
  <2>3. PICK i \in 1..n : BlockOf(c, i) = b - 1 /\ c.locals[i].name = m
    BY <1>5, <1>9, <1>10
  <2>4. BlockOf(c, i) + 1 = b
    BY <1>5, <1>9, <2>3
  <2> QED BY <1>6, <2>2, <2>3, <2>4
<1>13. ASSUME NEW i \in 1..n, NEW j \in 1..n, s[i] = s[j] PROVE i = j
  <2>1. s[i] = <<BlockOf(c, i) + 1, c.locals[i].name>> /\ s[j] = <<BlockOf(c, j) + 1, c.locals[j].name>>
    BY <1>6
  <2>2. BlockOf(c, i) + 1 = BlockOf(c, j) + 1 /\ c.locals[i].name = c.locals[j].name
    <3>1. PICK a, b, x, y : /\ a = BlockOf(c, i) + 1 /\ b = BlockOf(c, j) + 1
                            /\ x = c.locals[i].name /\ y = c.locals[j].name
      OBVIOUS
    <3>2. <<a, x>> = <<b, y>>
      BY ONLY <1>13, <2>1, <3>1
    <3>3. a = b /\ x = y
      BY ONLY <3>2
    <3> QED BY ONLY <3>1, <3>3
  <2>3. BlockOf(c, i) = BlockOf(c, j)
    BY <1>5, <2>2
  <2> QED BY <1>5, <2>2, <2>3 DEF Distinct
<1>14. s = [i \in 1..n |-> s[i]]
  BY <1>6
<1>15. Cardinality(S) = n
  BY <1>5, <1>11, <1>12, <1>13, <1>14, Counted
<1> QED BY <1>3, <1>4, <1>7, <1>15

\* Every upvalue is another variable.
LEMMA CapturesCounted ==
  ASSUME LexicalInv, ~hadError, NEW f \in 1..Top
  PROVE  /\ IsFiniteSet(Range(UpvalueVariables[f]))
         /\ Cardinality(Range(UpvalueVariables[f])) = Len(compilers[f].upvalues)
<1>1. IInv /\ Told(f)
  BY Open, AllTold
<1>2. Resolved
  BY <1>1, UpvaluesResolved
<1>3. PICK n : n = Len(compilers[f].upvalues)
  OBVIOUS
<1>4. PICK s : s = UpvalueVariables[f]
  OBVIOUS
<1>5. s = [j \in 1..n |-> s[j]] /\ n \in Nat
  <2>1. n \in Nat /\ s = [j \in 1..n |-> OperandVariable(f - 1, compilers[f].upvalues[j])]
    BY <1>2, <1>3, <1>4 DEF Resolved
  <2> QED BY <2>1
<1>6. \A i, j \in 1..n : s[i] = s[j] => i = j
  BY <1>1, <1>3, <1>4 DEF Told
<1>7. DOMAIN s = 1..n
  BY <1>5
<1>8. PICK S : S = Range(s)
  OBVIOUS
<1>9. /\ \A i \in 1..n : s[i] \in S
      /\ \A x \in S : \E i \in 1..n : s[i] = x
  BY <1>7, <1>8 DEF Range
<1>10. IsFiniteSet(S) /\ Cardinality(S) = n
  BY ONLY <1>5, <1>6, <1>9, Counted
<1> QED BY ONLY <1>3, <1>4, <1>8, <1>10

\* Unless an upvalue is still to be added, the arrays have room for what there is.
LEMMA Limits ==
  ASSUME LexicalInv, ~hadError, work = NoWork
  PROVE  Promise!WithinLimits
<1>1. /\ IInv /\ \A f \in 1..Top : Fits(compilers[f])
  BY Open
<1>2. Promise!Fn = Top
  BY <1>1, BlocksAre DEF BlocksNow
<1>3. CapturesNow
  BY CapturesAre
<1>4. ASSUME NEW f \in 1..Top
      PROVE  Cardinality(Promise!Variables(f)) <= UINT8_COUNT /\ Cardinality(Captures[f]) <= UINT8_COUNT
  <2>1. Len(compilers[f].locals) \in 1..UINT8_COUNT /\ Len(compilers[f].upvalues) <= UINT8_COUNT
    BY <1>1 DEF Fits
  <2>2. Cardinality(Promise!Variables(f)) <= UINT8_COUNT
    <3>1. \A k \in 1..UINT8_COUNT : k <= UINT8_COUNT
      BY ScopesAssumption
    <3> QED BY <2>1, <3>1, VariablesCounted
  <2>3. Cardinality(Range(UpvalueVariables[f])) <= UINT8_COUNT
    BY <2>1, CapturesCounted
  <2>4. Captures[f] = Range(UpvalueVariables[f])
    <3> HIDE DEF Captures, UpvalueVariables
    <3> QED BY <1>3 DEF CapturesNow
  <2> HIDE DEF Captures, UpvalueVariables
  <2> QED BY ONLY <2>2, <2>3, <2>4
<1> HIDE DEF Captures
<1> QED BY ONLY <1>2, <1>4, SameCardinality DEF Promise!WithinLimits

-----------------------------------------------------------------------------
(* Errors *)

\* An error is reported, and then nothing is promised.
LEMMA Rejects ==
  ASSUME ~hadError, hadError', NEW rule \in Promise!Rules, NEW n \in Name \cup {"this", "super"},
         emitted' = <<Instruction(rule, 0, n)>>, Promise!Broken(rule, n)
  PROVE  Promise!Reject
<1>1. Blocks' = <<>> /\ Captures' = <<>> /\ Classes' = <<>> /\ Header' = "none"
  BY DEF Blocks, Captures, Classes, Header
<1>2. Answer' = {<<rule, <<0, 0, n>>>>}
  <2>1. PICK e : e = Instruction(rule, 0, n)
    OBVIOUS
  <2>2. e.op = rule /\ e.name = n /\ emitted' = <<e>>
    BY <2>1 DEF Instruction
  <2>3. Answer' = {<<emitted'[k].op, <<0, 0, emitted'[k].name>>>> : k \in DOMAIN emitted'}
    BY DEF Answer, Reported
  <2>4. DOMAIN emitted' = {1} /\ emitted'[1] = e
    BY <2>2
  <2> HIDE DEF Answer
  <2> QED BY ONLY <2>2, <2>3, <2>4
<1> HIDE DEF Blocks, Captures, Classes, Header, Answer
<1> QED BY <1>1, <1>2 DEF Promise!Reject

\* A declaration is refused for a reason.
LEMMA DeclareRejects ==
  ASSUME LexicalInv, ~hadError, hadError', AtStatement, NEW n \in Name, Finish(DeclareError(current, n), <<>>)
  PROVE  Promise!Reject
<1>1. /\ IInv /\ hadError \in BOOLEAN /\ ~InClassBody /\ pc # "initializer"
  BY Open, Unfold DEF Control, AtStatement
<1>2. /\ Fits(current) /\ Scoped(current) /\ Settled(current) /\ Top \in 1..Top /\ current = compilers[Top]
      /\ Plain(current)
  BY <1>1, AtHome
<1>3. PICK e : e = DeclareError(current, n)
  OBVIOUS
<1>4. e # NoError /\ emitted' = <<Instruction(e.rule, 0, e.name)>>
  BY <1>1, <1>3, Finished
<1>5. /\ Promise!Fn = Top /\ Promise!Here = BlockAt(current, current.scopeDepth)
      /\ (Promise!Global <=> Top = 1 /\ current.scopeDepth = 0)
  BY <1>1, BlocksAre DEF BlocksNow
<1>6. current.scopeDepth # 0 /\ ~Promise!Global
  BY <1>3, <1>4, <1>5 DEF DeclareError
<1>7. n \in Name \cup {"this", "super"}
  OBVIOUS
<1>8. CASE Clashes(current, n)
  <2>1. e = Report("redeclared", n)
    BY <1>3, <1>6, <1>8 DEF DeclareError
  <2>2. emitted' = <<Instruction("redeclared", 0, n)>>
    BY <1>4, <2>1 DEF Report
  <2>3. n \in DOMAIN Promise!Here
    BY <1>2, <1>5, <1>8, ClashIs
  <2>4. ~Promise!MayDeclare(n)
    BY <1>6, <2>3 DEF Promise!MayDeclare
  <2>5. PICK rule : rule = "redeclared"
    OBVIOUS
  <2>6. rule \in Promise!Rules /\ emitted' = <<Instruction(rule, 0, n)>> /\ Promise!Broken(rule, n)
    BY <2>2, <2>4, <2>5 DEF Promise!Rules, Promise!Broken
  <2> QED BY <1>7, <2>6, Rejects
<1>9. CASE ~Clashes(current, n)
  <2>1. e = Report("too_many_locals", n) /\ Len(current.locals) = UINT8_COUNT
    BY <1>3, <1>4, <1>6, <1>9 DEF DeclareError
  <2>2. emitted' = <<Instruction("too_many_locals", 0, n)>>
    BY <1>4, <2>1 DEF Report
  <2>3. Cardinality(Promise!Variables(Top)) = UINT8_COUNT
    BY <1>2, <2>1, VariablesCounted
  <2>4. Promise!Cardinality(Promise!Variables(Promise!Fn)) >= UINT8_COUNT
    BY <1>5, <2>3, SameCardinality, ScopesAssumption
  <2>5. PICK rule : rule = "too_many_locals"
    OBVIOUS
  <2>6. rule \in Promise!Rules /\ emitted' = <<Instruction(rule, 0, n)>> /\ Promise!Broken(rule, n)
    BY <1>6, <2>2, <2>4, <2>5 DEF Promise!Rules, Promise!Broken
  <2> QED BY <1>7, <2>6, Rejects
<1> QED BY <1>8, <1>9

\* A local is read before it is initialized.
LEMMA UnreadyRejects ==
  ASSUME LexicalInv, ~hadError, hadError', NEW n \in Name \cup {"this", "super"}, NEW f \in 1..Top,
         NEW i \in 1..Len(compilers[f].locals), Found(n, f, i), compilers[f].locals[i].depth = -1,
         emitted' = <<Instruction("own_initializer", 0, n)>>
  PROVE  Promise!Reject
<1>1. IInv /\ Plain(compilers[f])
  BY Open
<1>2. PICK c, b : c = compilers[f] /\ b = BlockOf(c, i) + 1
  OBVIOUS
<1>3. Promise!Innermost(n) = <<f, b>> /\ Promise!Declaring(n) # {}
  BY <1>2, InnermostIs
<1>4. BlocksNow
  BY <1>1, BlocksAre
<1>5. ~Blocks[f][b][n].ready
  <2>1. /\ Distinct(c) /\ DOMAIN c.locals = 1..Len(c.locals) /\ BlockOf(c, i) \in 0..c.scopeDepth
        /\ c.scopeDepth \in Nat /\ c.locals[i].name = n
    BY <1>1, <1>2 DEF Plain, Found, Resolves
  <2>2. BlockAt(c, BlockOf(c, i))[n] = Flags(c.locals[i])
    BY <1>2, <2>1, BlockIs
  <2>3. b \in 1..c.scopeDepth + 1 /\ b - 1 = BlockOf(c, i)
    BY <1>2, <2>1
  <2>4. Blocks[f][b] = BlockAt(c, BlockOf(c, i))
    BY <1>2, <1>4, <2>3 DEF BlocksNow
  <2>5. Blocks[f][b][n] = Flags(c.locals[i])
    BY ONLY <2>2, <2>4
  <2>6. PICK l : l = c.locals[i]
    OBVIOUS
  <2>7. ~Flags(l).ready
    <3>1. l.depth = -1
      BY <1>2, <2>6
    <3> QED BY <3>1 DEF Flags
  <2> QED BY ONLY <2>5, <2>6, <2>7
<1> HIDE DEF Blocks
<1>6. <<f, b>>[1] = f /\ <<f, b>>[2] = b
  OBVIOUS
<1>7. Promise!Unready(n)
  BY ONLY <1>3, <1>5, <1>6 DEF Promise!Unready
<1>8. PICK rule : rule = "own_initializer"
  OBVIOUS
<1>9. rule \in Promise!Rules /\ emitted' = <<Instruction(rule, 0, n)>> /\ Promise!Broken(rule, n)
  BY <1>3, <1>7, <1>8 DEF Promise!Rules, Promise!Broken
<1> QED BY <1>9, Rejects

\* namedVariable after an error e, or without one
LEMMA NameRejects ==
  ASSUME LexicalInv, ~hadError, hadError', NEW n \in Name \cup {"this", "super"}, NEW rest, NEW e,
         NamedVariable(n, rest, e)
  PROVE  Promise!Reject \/ (e # NoError /\ emitted' = <<Instruction(e.rule, 0, e.name)>>)
<1>1. IInv /\ hadError \in BOOLEAN
  BY Open, Unfold DEF Control
<1>2. ASSUME NEW x, NEW code, Finish(x, code) PROVE x # NoError /\ emitted' = <<Instruction(x.rule, 0, x.name)>>
  BY <1>1, <1>2, Finished
<1>3. SUFFICES ASSUME ~(e # NoError /\ emitted' = <<Instruction(e.rule, 0, e.name)>>) PROVE Promise!Reject
  OBVIOUS
<1>4. ASSUME NEW f \in 1..Top, NEW i \in 1..Len(compilers[f].locals), NEW code, Found(n, f, i),
             Finish(First(e, OwnInitializer(compilers[f].locals[i])), code)
      PROVE  Promise!Reject
  <2>1. PICK x : x = First(e, OwnInitializer(compilers[f].locals[i]))
    OBVIOUS
  <2>2. x # NoError /\ emitted' = <<Instruction(x.rule, 0, x.name)>>
    BY <1>2, <1>4, <2>1
  <2>3. e = NoError /\ x = OwnInitializer(compilers[f].locals[i])
    BY <1>3, <2>1, <2>2 DEF First
  <2>4. compilers[f].locals[i].depth = -1 /\ x = Report("own_initializer", compilers[f].locals[i].name)
    BY <2>2, <2>3 DEF OwnInitializer
  <2>5. compilers[f].locals[i].name = n
    BY <1>4 DEF Found, Resolves
  <2>6. emitted' = <<Instruction("own_initializer", 0, n)>>
    BY <2>2, <2>4, <2>5 DEF Report
  <2> QED BY <1>4, <2>4, <2>6, UnreadyRejects
<1>5. ASSUME NEW code, Finish(e, code) PROVE Promise!Reject
  BY <1>2, <1>3, <1>5
<1>6. \/ \E f \in 1..Top : \E i \in 1..Len(compilers[f].locals) : \E code :
           Found(n, f, i) /\ Finish(First(e, OwnInitializer(compilers[f].locals[i])), code)
      \/ \E code : Finish(e, code)
  BY <1>1, NamedView, ZenonT(60)
<1> QED BY <1>4, <1>5, <1>6

\* A name in an expression, or in the header of a class
LEMMA UseRejects ==
  ASSUME LexicalInv, ~hadError, hadError',
         \/ \E n \in Name : Variable(n) \/ Superclass(n)
         \/ ResolveNext \/ ClassBody
  PROVE  Promise!Reject
<1>1. IInv
  BY Open
<1>2. ASSUME NEW n \in Name \cup {"this", "super"}, NEW rest, NamedVariable(n, rest, NoError) PROVE Promise!Reject
  BY <1>2, NameRejects
<1>3. ASSUME NEW n \in Name, Variable(n) \/ Superclass(n) PROVE Promise!Reject
  BY <1>2, <1>3 DEF Variable, Superclass
<1>4. ASSUME ResolveNext PROVE Promise!Reject
  <2>1. todo \in Seq(Name \cup {"super"})
    BY <1>1, Unfold DEF Control
  <2>2. NamedVariable(Head(todo), Tail(todo), NoError) /\ todo # <<>>
    BY <1>4 DEF ResolveNext
  <2>3. Head(todo) \in Name \cup {"this", "super"}
    BY <2>1, <2>2
  <2> QED BY <1>2, <2>2, <2>3
<1>5. ASSUME ClassBody PROVE Promise!Reject
  <2>1. pc = "class" /\ NamedVariable(Last(classes).name, <<>>, NoError)
    BY <1>5 DEF ClassBody
  <2>2. InClassBody
    BY <1>1, <2>1, Unfold DEF ClassesNest
  <2>3. Last(classes).name \in Name
    <3>1. PICK m : m = Len(classes)
      OBVIOUS
    <3>2. Last(classes) = classes[m] /\ classes[m].name \in Name
      BY <2>1, <2>2, <3>1, InClass
    <3> QED BY <3>2
  <2> QED BY <1>2, <2>1, <2>3
<1> QED BY <1>3, <1>4, <1>5

\* this and super where there is no class, or none with a superclass
LEMMA ReceiverRejects ==
  ASSUME LexicalInv, ~hadError, hadError', This \/ Super
  PROVE  Promise!Reject
<1>1. IInv /\ hadError \in BOOLEAN
  BY Open, Unfold DEF Control
<1>2. Classes = <<>> <=> classes = <<>>
  BY <1>1, ClassesAre
<1>3. ASSUME NEW n \in {"this", "super"}, classes = <<>>, emitted' = <<Instruction("outside_a_class", 0, n)>>
      PROVE  Promise!Reject
  <2>1. PICK rule : rule = "outside_a_class"
    OBVIOUS
  <2>2. Promise!Broken(rule, n)
    BY <1>2, <1>3, <2>1 DEF Promise!Broken
  <2>3. rule \in Promise!Rules /\ n \in Name \cup {"this", "super"} /\ emitted' = <<Instruction(rule, 0, n)>>
    BY <1>3, <2>1 DEF Promise!Rules
  <2> QED BY ONLY ~hadError, hadError', <2>2, <2>3, Rejects
<1>4. ASSUME This PROVE Promise!Reject
  <2>1. CASE classes = <<>>
    <3>1. Finish(Report("outside_a_class", "this"), <<>>)
      BY <1>4, <2>1 DEF This
    <3>2. PICK e : e = Report("outside_a_class", "this")
      OBVIOUS
    <3>3. emitted' = <<Instruction(e.rule, 0, e.name)>>
      BY <1>1, <3>1, <3>2, Finished
    <3>4. emitted' = <<Instruction("outside_a_class", 0, "this")>>
      BY <3>2, <3>3 DEF Report
    <3> QED BY <1>3, <2>1, <3>4
  <2>2. CASE classes # <<>>
    <3>1. NamedVariable("this", <<>>, NoError)
      BY <1>4, <2>2 DEF This
    <3>2. PICK n : n = "this"
      OBVIOUS
    <3>3. NamedVariable(n, <<>>, NoError) /\ n \in Name \cup {"this", "super"}
      BY <3>1, <3>2
    <3> QED BY <3>3, NameRejects
  <2> QED BY <2>1, <2>2
<1>5. ASSUME Super PROVE Promise!Reject
  <2>1. PICK n, e : n = "this" /\ e = SuperError
    OBVIOUS
  <2>2. NamedVariable(n, <<"super">>, e) /\ n \in Name \cup {"this", "super"}
    BY <1>5, <2>1 DEF Super
  <2>3. Promise!Reject \/ (e # NoError /\ emitted' = <<Instruction(e.rule, 0, e.name)>>)
    BY <2>2, NameRejects
  <2>4. SUFFICES ASSUME e # NoError, emitted' = <<Instruction(e.rule, 0, e.name)>> PROVE Promise!Reject
    BY <2>3
  <2>5. CASE classes = <<>>
    <3>1. e = Report("outside_a_class", "super")
      BY <2>1, <2>5 DEF SuperError
    <3>2. emitted' = <<Instruction("outside_a_class", 0, "super")>>
      BY <2>4, <3>1 DEF Report
    <3> QED BY <1>3, <2>5, <3>2
  <2>6. CASE classes # <<>>
    <3>1. e = Report("no_superclass", "super") /\ ~Last(classes).hasSuperclass
      BY <2>1, <2>4, <2>6 DEF SuperError
    <3>2. emitted' = <<Instruction("no_superclass", 0, "super")>>
      BY <2>4, <3>1 DEF Report
    <3>3. PICK m, C : m = Len(classes) /\ C = Classes
      OBVIOUS
    <3>4. m \in Nat /\ m # 0 /\ Last(classes) = classes[m]
      <4>1. classes \in Seq(ClassType) /\ Last(classes) = classes[m]
        BY <1>1, <3>3, ClassFacts
      <4> HIDE DEF ClassType
      <4> QED BY <2>6, <3>3, <4>1
    <3>5. Last(C) = [name |-> classes[m].name, super |-> SuperPlace(classes[m])]
      <4>1. /\ Last(Classes) = Classes[Len(classes)]
            /\ \A k \in 1..Len(classes) : Classes[k] = [name |-> classes[k].name, super |-> SuperPlace(classes[k])]
        BY <1>1, ClassesAre
      <4>2. m \in 1..m
        BY <3>4
      <4> HIDE DEF Classes
      <4> QED BY ONLY <3>3, <4>1, <4>2
    <3>6. SuperPlace(classes[m]) = <<0, 0>>
      BY <3>1, <3>4 DEF SuperPlace
    <3>7. Last(C).super = <<0, 0>>
      BY ONLY <3>5, <3>6
    <3>8. Promise!Last(Classes).super = Promise!Nowhere /\ Classes # <<>>
      <4>1. \A s : Promise!Last(s) = Last(s)
        BY DEF Promise!Last, Last
      <4>2. Classes # <<>>
        BY <1>2, <2>6
      <4>3. Promise!Nowhere = <<0, 0>>
        BY DEF Promise!Nowhere
      <4> HIDE DEF Classes
      <4> QED BY ONLY <3>3, <3>7, <4>1, <4>2, <4>3
    <3>9. PICK rule, s : rule = "no_superclass" /\ s = "super"
      OBVIOUS
    <3>10. /\ rule \in Promise!Rules /\ s \in Name \cup {"this", "super"}
           /\ emitted' = <<Instruction(rule, 0, s)>> /\ Promise!Broken(rule, s)
      <4> HIDE DEF Classes
      <4> QED BY ONLY <3>2, <3>8, <3>9 DEF Promise!Rules, Promise!Broken
    <3> QED BY ONLY ~hadError, hadError', <3>10, Rejects
  <2> QED BY <2>5, <2>6
<1> QED BY <1>4, <1>5

\* A class that inherits from itself, or a scope of "super" that there is no room for
LEMMA InheritRejects ==
  ASSUME LexicalInv, ~hadError, hadError', Inherit
  PROVE  Promise!Reject
<1>1. PICK n, e : /\ n = Last(classes).name
                  /\ e = First(IF pc = "inherits_itself" THEN Report("inherits_itself", n) ELSE NoError,
                               IF Len(current.locals) = UINT8_COUNT
                               THEN Report("too_many_locals", "super") ELSE NoError)
  OBVIOUS
<1>2. Finish(e, <<>>) /\ pc \in {"inherits", "inherits_itself"}
  BY <1>1 DEF Inherit
<1>3. IInv /\ hadError \in BOOLEAN /\ Top \in 1..Top /\ current = compilers[Top]
      /\ Plain(current) /\ Scoped(current)
  BY Open, Unfold DEF Control
<1>4. e # NoError /\ emitted' = <<Instruction(e.rule, 0, e.name)>>
  BY <1>2, <1>3, Finished
<1>7. CASE pc = "inherits_itself"
  <2>1. e = Report("inherits_itself", n)
    BY <1>1, <1>7 DEF First, Report, NoError
  <2>2. emitted' = <<Instruction("inherits_itself", 0, n)>>
    BY <1>4, <2>1 DEF Report
  <2>3. n \in Name /\ Promise!Last(Classes).name = n
    BY <1>1, <1>2, Unheaded
  <2>4. Header = "itself"
    BY <1>7 DEF Header
  <2>6. PICK rule : rule = "inherits_itself"
    OBVIOUS
  <2>7. /\ rule \in Promise!Rules /\ n \in Name \cup {"this", "super"}
        /\ emitted' = <<Instruction(rule, 0, n)>> /\ Promise!Broken(rule, n)
    <3> HIDE DEF Classes, Header
    <3> QED BY ONLY <2>2, <2>3, <2>4, <2>6 DEF Promise!Rules, Promise!Broken
  <2> QED BY ONLY ~hadError, hadError', <2>7, Rejects
<1>8. CASE pc # "inherits_itself"
  <2>1. e = Report("too_many_locals", "super") /\ Len(current.locals) = UINT8_COUNT
    BY <1>1, <1>4, <1>8 DEF First
  <2>2. emitted' = <<Instruction("too_many_locals", 0, "super")>>
    BY <1>4, <2>1 DEF Report
  <2>3. /\ Promise!Fn = Top /\ (Promise!Global <=> Top = 1 /\ current.scopeDepth = 0)
    BY <1>3, BlocksAre DEF BlocksNow
  <2>4. ~Promise!Global
    <3>1. PICK c : c = current
      OBVIOUS
    <3>2. 2 \in 2..Len(c.locals) /\ 2 \in 1..Len(c.locals)
      BY <1>3, <2>1, <3>1, ScopesAssumption
    <3>3. BlockOf(c, 2) > 0 /\ BlockOf(c, 2) \in 0..c.scopeDepth
      BY <1>3, <3>1, <3>2 DEF Scoped, Plain
    <3>4. c.scopeDepth # 0
      BY ONLY <3>3
    <3> QED BY <2>3, <3>1, <3>4
  <2>5. Cardinality(Promise!Variables(Top)) = UINT8_COUNT
    BY <1>3, <2>1, VariablesCounted
  <2>6. Promise!Cardinality(Promise!Variables(Promise!Fn)) >= UINT8_COUNT
    BY <2>3, <2>5, SameCardinality, ScopesAssumption
  <2>7. PICK rule, s : rule = "too_many_locals" /\ s = "super"
    OBVIOUS
  <2>8. /\ rule \in Promise!Rules /\ s \in Name \cup {"this", "super"}
        /\ emitted' = <<Instruction(rule, 0, s)>> /\ Promise!Broken(rule, s)
    BY <2>2, <2>4, <2>6, <2>7 DEF Promise!Rules, Promise!Broken
  <2> QED BY ONLY ~hadError, hadError', <2>8, Rejects
<1> QED BY <1>7, <1>8

\* A function captures one variable more than there is room for.
LEMMA CaptureRejects ==
  ASSUME LexicalInv, ~hadError, hadError', AddUpvalue
  PROVE  Promise!Reject
<1>1. PICK f, u : f = work.level /\ u = [index |-> work.index, isLocal |-> work.isLocal]
  OBVIOUS
<1>2. /\ IInv /\ Top \in Nat \ {0} /\ WorkReaches /\ Control /\ hadError \in BOOLEAN
      /\ \A g \in 1..Top : Fits(compilers[g]) /\ Plain(compilers[g]) /\ Told(g)
  BY Open, Unfold, AllTold DEF Control
<1>3. PICK c : c = compilers[f]
  OBVIOUS
<1>4. work # NoWork
  BY DEF AddUpvalue
<1>5. /\ f \in 2..Top /\ work.index \in 1..UINT8_COUNT /\ work.isLocal \in BOOLEAN
      /\ work.name \in Name \cup {"this", "super"}
  BY <1>1, <1>2, <1>4 DEF Control, WorkTyped
<1>6. f \in 1..Top /\ f - 1 \in 1..Top /\ f - 1 \in Nat \ {0}
  BY <1>2, <1>5
<1>7. Resolved
  BY <1>2, UpvaluesResolved
<1>8. /\ ~ \E j \in DOMAIN c.upvalues : Same(c.upvalues[j], u)
      /\ Len(c.upvalues) = UINT8_COUNT
      /\ emitted' = <<Instruction("too_many_captures", 0, work.name)>>
  <2> DEFINE known == \E j \in DOMAIN c.upvalues : Same(c.upvalues[j], u)
             full  == ~known /\ Len(c.upvalues) = UINT8_COUNT
  <2>1. \E code : Finish(IF full THEN Report("too_many_captures", work.name) ELSE NoError, code)
    BY <1>1, <1>3, ZenonT(60) DEF AddUpvalue
  <2>2. PICK e : e = IF full THEN Report("too_many_captures", work.name) ELSE NoError
    OBVIOUS
  <2>3. e # NoError /\ emitted' = <<Instruction(e.rule, 0, e.name)>>
    BY <1>2, <2>1, <2>2, Finished
  <2>4. full /\ e = Report("too_many_captures", work.name)
    <3> HIDE DEF full
    <3> QED BY <2>2, <2>3
  <2>5. emitted' = <<Instruction("too_many_captures", 0, work.name)>>
    BY <2>3, <2>4 DEF Report
  <2> QED BY <2>4, <2>5
<1>9. PICK b, v : b = f - 1 /\ v = OperandVariable(b, u)
  OBVIOUS
<1>10. OperandVariable(work.level - 1, work) = v
  BY <1>1, <1>9 DEF OperandVariable
<1>11. v \notin Range(UpvalueVariables[f])
  <2>1. SUFFICES ASSUME v \in Range(UpvalueVariables[f]) PROVE FALSE
    OBVIOUS
  <2>2. /\ UpvalueVariables[f] = [j \in 1..Len(c.upvalues) |-> OperandVariable(b, c.upvalues[j])]
        /\ DOMAIN c.upvalues = 1..Len(c.upvalues)
    BY <1>3, <1>6, <1>7, <1>9 DEF Resolved
  <2>3. PICK j \in 1..Len(c.upvalues) : v = OperandVariable(b, c.upvalues[j])
    <3> HIDE DEF UpvalueVariables
    <3> QED BY <2>1, <2>2 DEF Range
  <2>4. PICK w : w = c.upvalues[j]
    OBVIOUS
  <2>5. Reaches(compilers[b], w)
    <3>1. Operands
      BY <1>2, Unfold
    <3> QED BY <1>3, <1>5, <1>9, <2>2, <2>4, <3>1 DEF Operands
  <2>6. Reaches(compilers[b], u)
    BY <1>1, <1>2, <1>4, <1>9 DEF WorkReaches, Reaches
  <2>7. w.isLocal \in BOOLEAN /\ u.isLocal \in BOOLEAN
    <3>1. c.upvalues \in Seq(UpvalueType)
      BY <1>2, <1>3, <1>6, Parts DEF Fits
    <3>2. w \in UpvalueType
      <4> HIDE DEF UpvalueType
      <4> QED BY <2>4, <3>1
    <3>3. w.isLocal \in BOOLEAN
      BY <3>2 DEF UpvalueType
    <3> QED BY <1>1, <1>5, <3>3
  <2>8. b \in Nat \ {0} /\ Told(b) /\ Plain(compilers[b]) /\ DOMAIN compilers[b].upvalues = 1..Len(compilers[b].upvalues)
    BY <1>2, <1>6, <1>7, <1>9 DEF Resolved
  <2>9. OperandVariable(b, w) = OperandVariable(b, u)
    BY <1>9, <2>3, <2>4
  <2>10. Same(w, u)
    BY ONLY <2>5, <2>6, <2>7, <2>8, <2>9, OperandsDiffer
  <2> QED BY <1>8, <2>2, <2>4, <2>10
<1>12. Cardinality(Captures[f]) = UINT8_COUNT + 1
  <2>1. Captures[f] = Range(UpvalueVariables[f]) \cup {v}
    <3>1. Pending(f) = {v}
      BY <1>1, <1>4, <1>5, <1>10 DEF Pending
    <3>2. Captures[f] = Range(UpvalueVariables[f]) \cup Pending(f)
      BY <1>6 DEF Captures
    <3> QED BY ONLY <3>1, <3>2
  <2>2. PICK R : R = Range(UpvalueVariables[f])
    OBVIOUS
  <2>3. IsFiniteSet(R) /\ Cardinality(R) = UINT8_COUNT
    BY <1>3, <1>6, <1>8, <2>2, CapturesCounted
  <2>4. Cardinality(R \cup {v}) = UINT8_COUNT + 1
    BY ONLY <1>11, <2>2, <2>3, FS_AddElement
  <2> HIDE DEF Captures
  <2> QED BY ONLY <2>1, <2>2, <2>4
<1>13. \E g \in 1..Promise!Fn : Promise!Cardinality(Captures[g]) > UINT8_COUNT
  <2>1. Promise!Fn = Top
    BY <1>2, BlocksAre DEF BlocksNow
  <2> HIDE DEF Captures
  <2> QED BY ONLY <1>6, <1>12, <2>1, SameCardinality, ScopesAssumption
<1>14. PICK rule, n : rule = "too_many_captures" /\ n = work.name
  OBVIOUS
<1>15. /\ rule \in Promise!Rules /\ n \in Name \cup {"this", "super"}
       /\ emitted' = <<Instruction(rule, 0, n)>> /\ Promise!Broken(rule, n)
  <2> HIDE DEF Captures
  <2> QED BY ONLY <1>5, <1>8, <1>13, <1>14 DEF Promise!Rules, Promise!Broken
<1> QED BY ONLY ~hadError, hadError', <1>15, Rejects

\* After an error the parser goes on unwatched.
LEMMA IgnoredAfter ==
  ASSUME hadError, Next
  PROVE  Promise!Ignore \/ EndScript
<1>1. ASSUME NEW e, NEW code, Finish(e, code) PROVE Promise!Ignore
  <2>1. hadError' /\ emitted' = <<>>
    BY <1>1 DEF Finish
  <2>2. Blocks' = Blocks /\ Captures' = Captures /\ Classes' = Classes /\ Header' = Header
    BY <2>1 DEF Blocks, Captures, Classes, Header
  <2>3. Answer' = {}
    <3>1. Answer' = {<<emitted'[k].op, <<0, 0, emitted'[k].name>>>> : k \in DOMAIN emitted'}
      BY <2>1 DEF Answer, Reported
    <3>2. DOMAIN emitted' = {}
      BY <2>1
    <3> QED BY <3>1, <3>2
  <2> HIDE DEF Blocks, Captures, Classes, Header, Answer
  <2> QED BY <2>1, <2>2, <2>3 DEF Promise!Ignore
<1>2. ASSUME NEW n, NEW rest, NEW e, NamedVariable(n, rest, e) PROVE Promise!Ignore
  BY <1>1, <1>2 DEF NamedVariable
<1>3. ASSUME NEW n \in Name, VarDeclaration(n) \/ FunDeclaration(n) \/ ClassDeclaration(n) PROVE Promise!Ignore
  BY <1>1, <1>3 DEF VarDeclaration, FunDeclaration, ClassDeclaration
<1>4. ASSUME NEW n \in Name, Superclass(n) \/ Variable(n) PROVE Promise!Ignore
  BY <1>2, <1>4 DEF Superclass, Variable
<1>5. ASSUME DefineVariable \/ BeginScope \/ Method \/ EndFunction PROVE Promise!Ignore
  BY <1>1, <1>5 DEF DefineVariable, BeginScope, Method, EndFunction
<1>6. ASSUME EndScope PROVE Promise!Ignore
  <2>1. \E k : Finish(NoError, EndScopeCode(current, k))
    BY <1>6 DEF EndScope
  <2> QED BY <1>1, <2>1
<1>7. ASSUME EndClass PROVE Promise!Ignore
  <2>1. (\E k : Finish(NoError, EndScopeCode(current, k))) \/ Finish(NoError, <<>>)
    BY <1>7 DEF EndClass
  <2> QED BY <1>1, <2>1
<1>8. ASSUME This PROVE Promise!Ignore
  <2>1. Finish(Report("outside_a_class", "this"), <<>>) \/ NamedVariable("this", <<>>, NoError)
    BY <1>8 DEF This
  <2> QED BY <1>1, <1>2, <2>1
<1>9. ASSUME Super \/ ResolveNext \/ ClassBody PROVE Promise!Ignore
  BY <1>2, <1>9 DEF Super, ResolveNext, ClassBody
<1>10. ASSUME AddUpvalue PROVE Promise!Ignore
  <2>1. \E e, code : Finish(e, code)
    BY <1>10, ZenonT(60) DEF AddUpvalue
  <2> QED BY <1>1, <2>1
<1>11. ASSUME Inherit PROVE Promise!Ignore
  <2>1. \E e, code : Finish(e, code)
    BY <1>11, ZenonT(60) DEF Inherit
  <2> QED BY <1>1, <2>1
<1> QED BY <1>3, <1>4, <1>5, <1>6, <1>7, <1>8, <1>9, <1>10, <1>11 DEF Next

\* Nothing changes what the arrays stand for but a change of the variables.
LEMMA MappedKept ==
  ASSUME UNCHANGED vars
  PROVE  UNCHANGED Promise!vars
<1>1. /\ compilers' = compilers /\ classes' = classes /\ work' = work /\ hadError' = hadError /\ emitted' = emitted
      /\ pc' = pc
  BY DEF vars
<1>2. UpvalueVariables' = UpvalueVariables
  BY <1>1 DEF UpvalueVariables, LocalVariable, Top, BlockOf
<1>3. Top' = Top /\ current' = current
  BY <1>1 DEF Top, current
<1>4. \A f, i : LocalVariable(f, i)' = LocalVariable(f, i)
  BY <1>1 DEF LocalVariable, BlockOf
<1> HIDE DEF UpvalueVariables
<1>5. Blocks' = Blocks
  BY <1>1, <1>3 DEF Blocks
<1>6. OperandVariable(work.level - 1, work)' = OperandVariable(work.level - 1, work)
  BY <1>1, <1>2 DEF OperandVariable, LocalVariable, BlockOf
<1>7. Captures' = Captures
  <2>1. \A f : Pending(f)' = Pending(f)
    BY <1>1, <1>6 DEF Pending
  <2> QED BY <1>1, <1>2, <1>3, <2>1 DEF Captures
<1>8. Classes' = Classes
  BY <1>1 DEF Classes, SuperPlace
<1>9. Answer' = Answer
  <2>1. \A k : Means(emitted[k])' = Means(emitted[k])
    BY <1>1, <1>2, <1>3 DEF Means, LocalVariable, BlockOf
  <2>2. Reported' = Reported
    BY <1>1 DEF Reported
  <2> HIDE DEF Means, Reported
  <2> QED BY <1>1, <1>6, <2>1, <2>2 DEF Answer
<1>10. Header' = Header
  BY <1>1 DEF Header
<1> HIDE DEF Blocks, Captures, Classes, Header, Answer
<1> QED BY <1>1, <1>5, <1>7, <1>8, <1>9, <1>10 DEF Promise!vars

\* A class that names itself as its superclass is not accepted.
LEMMA InheritsAnother ==
  ASSUME LexicalInv, ~hadError, ~hadError', Inherit
  PROVE  pc # "inherits_itself"
<1>1. SUFFICES ASSUME pc = "inherits_itself" PROVE FALSE
  OBVIOUS
<1>2. PICK n, full : /\ n = Last(classes).name
                     /\ full = IF Len(current.locals) = UINT8_COUNT
                               THEN Report("too_many_locals", "super") ELSE NoError
  OBVIOUS
<1>3. Finish(First(Report("inherits_itself", n), full), <<>>)
  BY <1>1, <1>2 DEF Inherit
<1>4. hadError \in BOOLEAN
  BY Open, Unfold DEF Control
<1>5. First(Report("inherits_itself", n), full) = NoError
  BY <1>3, <1>4, Finished
<1> QED BY <1>5 DEF First, Report, NoError

\* A step by which an accepted program stays accepted is one of Lexical, past
\* no limit, or on the way back from resolveUpvalue, which decides nothing.
LEMMA AcceptedStep ==
  ASSUME LexicalInv, IInv', ~hadError, ~hadError', Next
  PROVE  Accepted' /\ (Promise!Next \/ UNCHANGED Promise!vars)
<1>1. CASE AddUpvalue
  <2>1. /\ Accepted' /\ Blocks' = Blocks /\ Captures' = Captures /\ Classes' = Classes /\ Answer' = Answer
    BY <1>1, AddUpvalueFollows
  <2>2. hadError \in BOOLEAN /\ hadError' \in BOOLEAN
    BY DEF LexicalInv, IInv, TypeOK
  <2>3. hadError' = hadError
    BY <2>2
  <2>4. Header' = Header
    BY <1>1, <2>3 DEF AddUpvalue, Header
  <2> HIDE DEF Blocks, Captures, Classes, Header, Answer
  <2> QED BY <2>1, <2>3, <2>4 DEF Promise!vars
<1>2. CASE EndScript
  <2>1. Accepted' /\ Promise!Restart
    BY <1>2, RestartFollows
  <2> QED BY <2>1 DEF Promise!Next
<1>3. ASSUME work = NoWork, Accepted' /\ Promise!Step,
             pc \notin {"inherits", "inherits_itself"}, pc' \notin {"inherits", "inherits_itself"}
      PROVE  Accepted' /\ (Promise!Next \/ UNCHANGED Promise!vars)
  <2>1. Promise!WithinLimits
    BY <1>3, Limits
  <2>2. Header = "none" /\ Header' = "none"
    BY <1>3 DEF Header
  <2> HIDE DEF Header
  <2> QED BY <1>3, <2>1, <2>2 DEF Promise!Next
<1>4. ASSUME Accepted' /\ Uses PROVE Accepted' /\ Promise!Step
  <2>1. PICK n \in Name \cup {"this", "super"} : Promise!UseVariable(n) \/ (n \in Name /\ Promise!UseGlobal(n))
    BY <1>4 DEF Uses
  <2> QED BY <1>4, <2>1 DEF Promise!Step
<1>5. CASE \E n \in Name : VarDeclaration(n)
  <2>1. PICK n \in Name : VarDeclaration(n)
    BY <1>5
  <2>2. Accepted' /\ Promise!Declare(n, FALSE)
    BY <2>1, VarDeclarationFollows
  <2>3. Promise!Step
    BY <2>2 DEF Promise!Step
  <2>4. work = NoWork /\ pc = "statement" /\ pc' = "initializer"
    BY <2>1 DEF VarDeclaration, AtStatement, Ready
  <2> QED BY <1>3, <2>2, <2>3, <2>4
<1>6. CASE \E n \in Name : FunDeclaration(n)
  <2>1. PICK n \in Name : FunDeclaration(n)
    BY <1>6
  <2>2. Accepted' /\ Promise!MayDeclare(n) /\ Promise!BeginFunction(Promise!Declared(n, TRUE), "none")
    BY <2>1, FunDeclarationFollows
  <2>3. Promise!Step
    BY <2>2 DEF Promise!Step
  <2>4. work = NoWork /\ pc = "statement" /\ pc' = "statement"
    BY <2>1 DEF FunDeclaration, AtStatement, Ready
  <2> QED BY <1>3, <2>2, <2>3, <2>4
<1>7. CASE \E n \in Name : ClassDeclaration(n)
  <2>1. PICK n \in Name : ClassDeclaration(n)
    BY <1>7
  <2>2. Accepted' /\ Promise!BeginClass(n)
    BY <2>1, ClassDeclarationFollows
  <2>3. Promise!Step
    BY <2>2 DEF Promise!Step
  <2>4. work = NoWork /\ pc = "statement" /\ pc' = "class"
    BY <2>1 DEF ClassDeclaration, AtStatement, Ready
  <2> QED BY <1>3, <2>2, <2>3, <2>4
<1>8. CASE (\E n \in Name : Variable(n)) \/ This \/ Super
  <2>1. Accepted' /\ Uses
    BY <1>8, ExpressionFollows
  <2>2. work = NoWork /\ pc \in {"statement", "initializer"} /\ pc' = pc
    BY <1>8 DEF Variable, This, Super, InExpression, Ready
  <2> QED BY <1>3, <1>4, <2>1, <2>2
<1>9. CASE ResolveNext \/ ClassBody
  <2>1. Accepted' /\ Uses
    BY <1>9, RestFollows
  <2>2. work = NoWork /\ pc \in {"statement", "initializer", "class"}
        /\ pc' \in {"statement", "initializer"}
    BY <1>9 DEF ResolveNext, ClassBody, Ready, LexicalInv, UsesLeft
  <2> QED BY <1>3, <1>4, <2>1, <2>2
<1>10. CASE DefineVariable
  <2>1. Accepted' /\ Promise!Define
    BY <1>10, DefineFollows
  <2>2. work = NoWork /\ pc = "initializer" /\ pc' = "statement"
    BY <1>10 DEF DefineVariable, Ready
  <2>3. Promise!Step
    BY <2>1 DEF Promise!Step
  <2> QED BY <1>3, <2>1, <2>2, <2>3
<1>11. CASE BeginScope
  <2>1. Accepted' /\ Promise!Begin
    BY <1>11, BeginFollows
  <2>2. work = NoWork /\ pc = "statement" /\ pc' = "statement"
    BY <1>11 DEF BeginScope, AtStatement, Ready
  <2>3. Promise!Step
    BY <2>1 DEF Promise!Step
  <2> QED BY <1>3, <2>1, <2>2, <2>3
<1>12. CASE EndScope
  <2>1. Accepted' /\ Promise!End
    BY <1>12, EndFollows
  <2>2. work = NoWork /\ pc = "statement" /\ pc' = "statement"
    BY <1>12 DEF EndScope, AtStatement, Ready
  <2>3. Promise!Step
    BY <2>1 DEF Promise!Step
  <2> QED BY <1>3, <2>1, <2>2, <2>3
<1>13. CASE Method
  <2>1. Accepted' /\ Promise!BeginFunction(Blocks, "this")
    BY <1>13, MethodFollows
  <2>2. work = NoWork /\ pc = "statement" /\ pc' = "statement"
    BY <1>13 DEF Method, Ready
  <2>3. Promise!Step
    BY <2>1 DEF Promise!Step
  <2> QED BY <1>3, <2>1, <2>2, <2>3
<1>14. CASE EndFunction
  <2>1. Accepted' /\ Promise!EndFunction
    BY <1>14, EndFunctionFollows
  <2>2. work = NoWork /\ pc = "statement" /\ pc' = "statement"
    BY <1>14 DEF EndFunction, AtStatement, Ready
  <2>3. Promise!Step
    BY <2>1 DEF Promise!Step
  <2> QED BY <1>3, <2>1, <2>2, <2>3
<1>15. CASE Inherit
  <2>1. Accepted' /\ Promise!Inherit
    BY <1>15, InheritFollows
  <2>2. work = NoWork /\ pc \in {"inherits", "inherits_itself"} /\ pc' = "statement"
    BY <1>15 DEF Inherit, Ready
  <2>3. pc # "inherits_itself"
    BY <1>15, InheritsAnother
  <2>4. Header = "other" /\ Header' = "none"
    BY <2>2, <2>3 DEF Header
  <2>5. Promise!WithinLimits
    BY <2>2, Limits
  <2> HIDE DEF Header
  <2> QED BY <2>1, <2>4, <2>5 DEF Promise!Next, Promise!ClassHeader
<1>16. CASE EndClass
  <2>1. Accepted' /\ Promise!EndClass
    BY <1>16, EndClassFollows
  <2>2. work = NoWork /\ pc = "statement" /\ pc' = "statement"
    BY <1>16 DEF EndClass, Ready
  <2>3. Promise!Step
    BY <2>1 DEF Promise!Step
  <2> QED BY <1>3, <2>1, <2>2, <2>3
<1>17. CASE \E s \in Name : Superclass(s)
  <2>1. PICK s \in Name : Superclass(s)
    BY <1>17
  <2>2. Accepted' /\ Promise!Superclass(s) /\ work = NoWork /\ Header = "none"
    BY <2>1, SuperclassFollows
  <2>3. Promise!WithinLimits
    BY <2>2, Limits
  <2>4. Promise!ClassHeader
    BY <2>2 DEF Promise!ClassHeader
  <2> QED BY <2>2, <2>3, <2>4 DEF Promise!Next
<1> QED BY <1>1, <1>2, <1>5, <1>6, <1>7, <1>8, <1>9, <1>10, <1>11, <1>12, <1>13, <1>14, <1>15, <1>16, <1>17 DEF Next

\* A step that reports the first error of a program has broken a rule of it.
LEMMA FirstError ==
  ASSUME LexicalInv, IInv', ~hadError, hadError', Next
  PROVE  Promise!Reject
<1>1. \A code : ~Finish(NoError, code)
  BY DEF Finish
<1>2. \A e, code : Finish(e, code) => emitted' = <<Instruction(e.rule, 0, e.name)>> /\ Finish(e, <<>>)
  BY DEF Finish
<1>3. ~DefineVariable /\ ~BeginScope /\ ~EndScope /\ ~Method /\ ~EndFunction
  BY <1>1 DEF DefineVariable, BeginScope, EndScope, Method, EndFunction
<1>4. ~EndClass
  <2>1. EndClass => (\E k : Finish(NoError, EndScopeCode(current, k))) \/ Finish(NoError, <<>>)
    BY DEF EndClass
  <2> QED BY <1>1, <2>1
<1>5. ~EndScript
  BY DEF EndScript
<1>6. ASSUME NEW n \in Name, VarDeclaration(n) \/ FunDeclaration(n) \/ ClassDeclaration(n)
      PROVE  Promise!Reject
  <2>1. AtStatement /\ Finish(DeclareError(current, n), <<>>)
    BY <1>6 DEF VarDeclaration, FunDeclaration, ClassDeclaration
  <2> QED BY <2>1, DeclareRejects
<1>7. ASSUME \/ \E n \in Name : Variable(n) \/ Superclass(n)
             \/ ResolveNext \/ ClassBody
      PROVE  Promise!Reject
  BY <1>7, UseRejects
<1>8. ASSUME This \/ Super PROVE Promise!Reject
  BY <1>8, ReceiverRejects
<1>9. ASSUME Inherit PROVE Promise!Reject
  BY <1>9, InheritRejects
<1>10. ASSUME AddUpvalue PROVE Promise!Reject
  BY <1>10, CaptureRejects
<1> QED BY <1>3, <1>4, <1>5, <1>6, <1>7, <1>8, <1>9, <1>10 DEF Next

\* Every step is one of Lexical or changes nothing that Lexical sees.
LEMMA StepFollows ==
  ASSUME LexicalInv, IInv', [Next]_vars
  PROVE  [Promise!Next]_(Promise!vars)
<1>1. CASE UNCHANGED vars
  BY <1>1, MappedKept
<1>2. CASE Next /\ hadError
  <2>1. Promise!Ignore \/ EndScript
    BY <1>2, IgnoredAfter
  <2>2. EndScript => Promise!Restart
    BY RestartFollows
  <2> QED BY <2>1, <2>2 DEF Promise!Next
<1>3. CASE Next /\ ~hadError /\ hadError'
  BY <1>3, FirstError DEF Promise!Next
<1>4. CASE Next /\ ~hadError /\ ~hadError'
  BY <1>4, AcceptedStep
<1> QED BY <1>1, <1>2, <1>3, <1>4

\* Only super and Inherit leave names to resolve, when their production has gone on.
LEMMA UsesLeftKept ==
  ASSUME UsesLeft, [Next]_vars
  PROVE  UsesLeft'
<1>1. CASE UNCHANGED vars
  BY <1>1 DEF UsesLeft, vars
<1>2. ASSUME NEW n, NEW e, NamedVariable(n, <<>>, e) PROVE UsesLeft'
  BY <1>2 DEF NamedVariable, UsesLeft
<1>3. ASSUME NEW n \in Name, VarDeclaration(n) \/ FunDeclaration(n) \/ ClassDeclaration(n) PROVE UsesLeft'
  BY <1>3 DEF VarDeclaration, FunDeclaration, ClassDeclaration, AtStatement, Ready, UsesLeft
<1>4. ASSUME NEW n \in Name, Superclass(n) \/ Variable(n) PROVE UsesLeft'
  BY <1>2, <1>4 DEF Superclass, Variable
<1>5. ASSUME DefineVariable \/ BeginScope \/ EndScope \/ Method \/ EndFunction \/ EndClass \/ EndScript
      PROVE  UsesLeft'
  BY <1>5 DEF DefineVariable, BeginScope, EndScope, Method, EndFunction, EndClass, EndScript,
              AtStatement, Ready, UsesLeft
<1>6. ASSUME This \/ ClassBody PROVE UsesLeft'
  <2>1. \/ todo' = todo /\ todo = <<>>
        \/ \E n : NamedVariable(n, <<>>, NoError)
    BY <1>6 DEF This, ClassBody, InExpression, Ready
  <2>2. CASE todo' = todo /\ todo = <<>>
    BY <2>2 DEF UsesLeft
  <2> QED BY <1>2, <2>1, <2>2
<1>7. CASE Super \/ ResolveNext \/ Inherit \/ AddUpvalue
  <2>1. pc' \in {"statement", "initializer"} \/ (todo' = todo /\ pc' = pc)
    BY <1>7 DEF Super, ResolveNext, Inherit, AddUpvalue, InExpression, UsesLeft
  <2> QED BY <2>1 DEF UsesLeft
<1> QED BY <1>1, <1>3, <1>4, <1>5, <1>6, <1>7 DEF Next

\* Every step of the compiler keeps what it relies on about accepted programs.
LEMMA LexicalKept == LexicalInv /\ [Next]_vars => LexicalInv'
<1> SUFFICES ASSUME LexicalInv, [Next]_vars PROVE LexicalInv'
  OBVIOUS
<1>1. IInv'
  BY Preserved DEF LexicalInv
<1>2. ASSUME ~hadError' PROVE Accepted'
  <2>1. CASE UNCHANGED vars
    <3>1. Accepted' = Accepted
      BY <2>1 DEF Accepted, vars, Top, Waits, Supered, Classed
    <3>2. ~hadError
      BY <1>2, <2>1 DEF vars
    <3> QED BY <3>1, <3>2 DEF LexicalInv
  <2>2. CASE Next /\ ~hadError
    BY <1>1, <1>2, <2>2, AcceptedStep
  <2>3. CASE Next /\ hadError
    <3>1. Promise!Ignore \/ EndScript
      BY <2>3, IgnoredAfter
    <3>2. EndScript
      BY <1>2, <3>1 DEF Promise!Ignore
    <3> QED BY <1>1, <3>2, RestartFollows
  <2> QED BY <2>1, <2>2, <2>3
<1>3. UsesLeft'
  BY UsesLeftKept DEF LexicalInv
<1> QED BY <1>1, <1>2, <1>3 DEF LexicalInv

\* The compiler begins where Lexical does, with an empty program.
LEMMA BeginsAlike == Init => LexicalInv /\ Promise!Init
<1> SUFFICES ASSUME Init PROVE LexicalInv /\ Promise!Init
  OBVIOUS
<1>1. IInv
  BY Initially
<1>2. StartsAnew
  BY DEF Init, StartsAnew
<1>3. Anew
  BY <1>2, FirstState
<1>4. UsesLeft
  BY <1>2 DEF StartsAnew, UsesLeft
<1> QED BY <1>1, <1>3, <1>4 DEF Anew, LexicalInv, Promise!Init, Init

\* What the compiler relies on while it has reported no error, for every bound:
\* a block declares a name once, only a class with a superclass has a "super",
\* as the last local of a block of its own, and no upvalue is added twice, so
\* the arrays of compiler.c are the nested blocks of the program.
THEOREM AcceptedAlways == Spec => []LexicalInv
<1>1. Init => LexicalInv
  BY BeginsAlike
<1> QED BY <1>1, LexicalKept, PTL DEF Spec

\* Every name is resolved to the variable of the innermost block that declares
\* it, through however many functions, whatever the length of the arrays and
\* the depth of nesting; exactly the captured variables of a block are closed
\* and exactly the unread ones reported; a closure captures exactly the
\* variables its function uses; and an error is reported exactly when a rule
\* or a limit is broken: namedVariable, endScope, function and what they call.
THEOREM Implements == Spec => KeepsPromise
<1>1. Init => Promise!Init
  BY BeginsAlike
<1>2. LexicalInv /\ LexicalInv' /\ [Next]_vars => [Promise!Next]_(Promise!vars)
  BY StepFollows DEF LexicalInv
<1> QED BY <1>1, <1>2, AcceptedAlways, PTL DEF Spec, KeepsPromise, Promise!Spec

=============================================================================
