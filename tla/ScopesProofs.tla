---------------------------- MODULE ScopesProofs ----------------------------
(***************************************************************************)
(* Scopes.tla keeps its arrays in bounds and in order, and gives functions *)
(* upvalue operands that reach captured locals, for any limits, any names  *)
(* and any program, correct or not.                                        *)
(***************************************************************************)
EXTENDS ScopesInv, TLAPS

-----------------------------------------------------------------------------
(* One function's arrays *)

\* What OP_CLOSURE operands of inner functions rely on stays.
Grows(c, d) ==
  /\ Len(c.locals) <= Len(d.locals)
  /\ \A i \in DOMAIN c.locals : c.locals[i].isCaptured => d.locals[i].isCaptured
  /\ Len(c.upvalues) <= Len(d.upvalues)

Fits(c) ==
  /\ c \in CompilerType /\ Len(c.locals) \in 1..UINT8_COUNT /\ Len(c.upvalues) <= UINT8_COUNT
  /\ Ordered(c)

\* Sequences are taken apart here, with the type of their elements unexpanded.
LEMMA Parts ==
  ASSUME NEW c, c \in CompilerType
  PROVE  /\ c.locals \in Seq(LocalType) /\ DOMAIN c.locals = 1..Len(c.locals)
         /\ c.upvalues \in Seq(UpvalueType) /\ DOMAIN c.upvalues = 1..Len(c.upvalues)
         /\ c.scopeDepth \in 0..MaxScope /\ c.scopeDepth \in Int
         /\ Len(c.locals) \in Nat /\ Len(c.upvalues) \in Nat
         /\ \A i \in 1..Len(c.locals) : c.locals[i] \in LocalType /\ c.locals[i].depth \in Int
         /\ \A ls \in Seq(LocalType) : [c EXCEPT !.locals = ls] \in CompilerType
         /\ \A us \in Seq(UpvalueType) : [c EXCEPT !.upvalues = us] \in CompilerType
         /\ \A d \in 0..MaxScope : [c EXCEPT !.scopeDepth = d] \in CompilerType
<1>1. /\ c.locals \in Seq(LocalType) /\ c.upvalues \in Seq(UpvalueType) /\ c.scopeDepth \in 0..MaxScope
  BY DEF CompilerType
<1>2. \A ls \in Seq(LocalType) : [c EXCEPT !.locals = ls] \in CompilerType
  BY DEF CompilerType
<1>3. \A us \in Seq(UpvalueType) : [c EXCEPT !.upvalues = us] \in CompilerType
  BY DEF CompilerType
<1>4. \A d \in 0..MaxScope : [c EXCEPT !.scopeDepth = d] \in CompilerType
  BY DEF CompilerType
<1>5. \A i \in 1..Len(c.locals) : c.locals[i] \in LocalType
  BY <1>1
<1>6. \A l \in LocalType : l.depth \in Int
  BY ScopesAssumption DEF LocalType
<1> QED BY <1>1, <1>2, <1>3, <1>4, <1>5, <1>6, ScopesAssumption

LEMMA MarkFacts ==
  ASSUME NEW c, Fits(c), HasVariable(c)
  PROVE  /\ Fits(MarkInitialized(c)) /\ Settled(MarkInitialized(c))
         /\ HasVariable(MarkInitialized(c)) /\ Grows(c, MarkInitialized(c))
         /\ MarkInitialized(c).upvalues = c.upvalues
         /\ MarkInitialized(c).scopeDepth = c.scopeDepth
<1> USE ScopesAssumption
<1> DEFINE m == MarkInitialized(c)
<1>0. c \in CompilerType
  BY DEF Fits
<1>1. CASE c.scopeDepth = 0
  <2>1. m = c
    BY <1>1 DEF MarkInitialized
  <2>2. Settled(c)
    BY <1>0, <1>1, Parts DEF Fits, Ordered, Settled
  <2>3. Grows(c, c)
    BY <1>0, Parts DEF Grows
  <2> QED BY <2>1, <2>2, <2>3
<1>2. CASE c.scopeDepth # 0
  <2> DEFINE n == Len(c.locals)
             l == [c.locals[n] EXCEPT !.depth = c.scopeDepth]
             ls == [c.locals EXCEPT ![n] = l]
  <2>1. /\ c.scopeDepth \in 1..MaxScope /\ n \in 2..UINT8_COUNT /\ c.locals \in Seq(LocalType)
        /\ c.scopeDepth \in -1..MaxScope /\ c.scopeDepth \in Int
        /\ DOMAIN c.locals = 1..n
    BY <1>0, <1>2, Parts DEF Fits, HasVariable
  <2>2. m = [c EXCEPT !.locals = ls]
    BY <1>2 DEF MarkInitialized
  <2>3. c.locals[n] \in LocalType
    BY <2>1
  <2>4. l \in LocalType /\ l.depth = c.scopeDepth /\ l.isCaptured = c.locals[n].isCaptured
    BY <2>1, <2>3 DEF LocalType
  <2>5. ls \in Seq(LocalType) /\ Len(ls) = n /\ DOMAIN ls = 1..n
    BY <2>1, <2>4
  <2>6. m.locals = ls /\ m.upvalues = c.upvalues /\ m.scopeDepth = c.scopeDepth /\ m \in CompilerType
    <3>1. m \in CompilerType
      BY <1>0, <2>2, <2>5, Parts, ZenonT(60)
    <3>2. m.locals = ls /\ m.upvalues = c.upvalues /\ m.scopeDepth = c.scopeDepth
      BY <1>0, <2>2 DEF CompilerType
    <3> QED BY <3>1, <3>2
  <2>7. \A i \in 1..n : ls[i] = IF i = n THEN l ELSE c.locals[i]
    BY <2>1
  <2>8. \A i \in 1..n : c.locals[i].depth \in Int /\ c.locals[i].depth <= c.scopeDepth
    BY <1>0, <2>1, Parts DEF Fits, Ordered
  <2>9. Ordered(m) /\ Settled(m)
    <3> HIDE DEF l, ls, m
    <3>1. \A i \in 1..n : ls[i].depth = IF i = n THEN c.scopeDepth ELSE c.locals[i].depth
      BY <2>4, <2>7
    <3>2. c.locals[1].depth = 0 /\ \A i \in 1..n : i # n => c.locals[i].depth # -1
      BY <2>1 DEF Fits, Ordered
    <3>3. \A i, j \in 1..n : i < j /\ j # n => c.locals[i].depth <= c.locals[j].depth
      BY <2>1, <3>2 DEF Fits, Ordered
    <3>4. \A i, j \in 1..n : i < j => ls[i].depth <= ls[j].depth
      <4> SUFFICES ASSUME NEW i \in 1..n, NEW j \in 1..n, i < j PROVE ls[i].depth <= ls[j].depth
        OBVIOUS
      <4>1. i # n /\ ls[i].depth = c.locals[i].depth
        BY <2>1, <3>1
      <4>2. CASE j = n
        BY <4>1, <4>2, <2>1, <2>8, <3>1
      <4>3. CASE j # n
        BY <4>1, <4>3, <3>1, <3>3
      <4> QED BY <4>2, <4>3
    <3>5. ls[1].depth = 0 /\ \A i \in 1..n : ls[i].depth # -1 /\ ls[i].depth <= c.scopeDepth
      BY <2>1, <2>8, <3>1, <3>2, SMTT(30)
    <3> QED BY <2>5, <2>6, <3>4, <3>5 DEF Ordered, Settled
  <2>10. Grows(c, m)
    BY <1>0, <2>1, <2>4, <2>5, <2>6, <2>7, Parts DEF Grows
  <2>11. Len(m.locals) = n /\ Len(m.upvalues) <= UINT8_COUNT
    BY <2>5, <2>6 DEF Fits
  <2> QED BY <2>1, <2>6, <2>9, <2>10, <2>11 DEF Fits, HasVariable
<1> QED BY <1>1, <1>2

LEMMA AddFacts ==
  ASSUME NEW c, Fits(c), Settled(c), c.scopeDepth > 0, NEW n \in Name \cup {"super"}
  PROVE  /\ Fits(AddLocal(c, n)) /\ HasVariable(AddLocal(c, n)) /\ Grows(c, AddLocal(c, n))
         /\ AddLocal(c, n).upvalues = c.upvalues
         /\ AddLocal(c, n).scopeDepth = c.scopeDepth
<1> USE ScopesAssumption
<1> DEFINE m == AddLocal(c, n)
<1>0. c \in CompilerType
  BY DEF Fits
<1>1. CASE Len(c.locals) = UINT8_COUNT
  BY <1>0, <1>1, Parts DEF AddLocal, Fits, HasVariable, Grows
<1>2. CASE Len(c.locals) # UINT8_COUNT
  <2> DEFINE l == Local(n, -1)
             k == Len(c.locals)
             ls == Append(c.locals, l)
  <2>1. /\ c.locals \in Seq(LocalType) /\ k \in 1..(UINT8_COUNT - 1) /\ c.scopeDepth \in 1..MaxScope
        /\ DOMAIN c.locals = 1..k
    BY <1>0, <1>2, Parts DEF Fits
  <2>2. m = [c EXCEPT !.locals = ls]
    BY <1>2 DEF AddLocal
  <2>3. l \in LocalType /\ l.depth = -1
    BY DEF Local, LocalType
  <2>4. ls \in Seq(LocalType) /\ Len(ls) = k + 1 /\ DOMAIN ls = 1..(k + 1)
    BY <2>1, <2>3
  <2>5. m.locals = ls /\ m.upvalues = c.upvalues /\ m.scopeDepth = c.scopeDepth /\ m \in CompilerType
    <3>1. m \in CompilerType
      <4> HIDE DEF ls
      <4> QED BY <1>0, <2>2, <2>4, Parts
    <3>2. m.locals = ls /\ m.upvalues = c.upvalues /\ m.scopeDepth = c.scopeDepth
      BY <1>0, <2>2 DEF CompilerType
    <3> QED BY <3>1, <3>2
  <2>6. ls[k + 1] = l /\ \A i \in 1..k : ls[i] = c.locals[i]
    BY <2>1, <2>3
  <2>7. Ordered(m)
    BY <2>1, <2>3, <2>4, <2>5, <2>6, SMTT(30) DEF Ordered, Settled, Fits
  <2>8. Grows(c, m)
    BY <1>0, <2>1, <2>4, <2>5, <2>6, Parts DEF Grows
  <2> QED BY <2>1, <2>4, <2>5, <2>7, <2>8 DEF Fits, HasVariable
<1> QED BY <1>1, <1>2

LEMMA DeclareFacts ==
  ASSUME NEW c, Fits(c), Settled(c), NEW n \in Name
  PROVE  /\ Fits(DeclareVariable(c, n)) /\ HasVariable(DeclareVariable(c, n))
         /\ Grows(c, DeclareVariable(c, n))
         /\ DeclareVariable(c, n).upvalues = c.upvalues
         /\ DeclareVariable(c, n).scopeDepth = c.scopeDepth
<1>1. CASE c.scopeDepth = 0
  BY <1>1 DEF DeclareVariable, Fits, HasVariable, Grows, CompilerType
<1>2. CASE c.scopeDepth # 0
  <2>1. c.scopeDepth > 0
    BY <1>2, ScopesAssumption DEF Fits, CompilerType
  <2> QED BY <1>2, <2>1, AddFacts DEF DeclareVariable
<1> QED BY <1>1, <1>2

LEMMA EndedFacts ==
  ASSUME NEW c, Fits(c), Settled(c), c.scopeDepth > 0, NEW k \in 0..Len(c.locals), Keeps(c, k)
  PROVE  Fits(Ended(c, k)) /\ Settled(Ended(c, k)) /\ Ended(c, k).upvalues = c.upvalues
         /\ Ended(c, k).scopeDepth = c.scopeDepth - 1
<1> USE ScopesAssumption
<1> DEFINE m  == Ended(c, k)
           n  == Len(c.locals)
           d  == c.scopeDepth - 1
           ls == SubSeq(c.locals, 1, k)
<1>0. c \in CompilerType
  BY DEF Fits
<1>1. /\ c.locals \in Seq(LocalType) /\ c.scopeDepth \in 1..MaxScope /\ n \in 1..UINT8_COUNT
      /\ d \in 0..MaxScope /\ DOMAIN c.locals = 1..n
      /\ \A i \in 1..n : c.locals[i].depth \in Int
  BY <1>0, Parts DEF Fits
<1>2. c.locals[1].depth = 0 /\ \A i \in 1..n : c.locals[i].depth # -1
  BY <1>1 DEF Fits, Ordered, Settled
<1>3. k >= 1
  <2>1. k = 0 => c.locals[1].depth > d
    BY <1>1 DEF Keeps
  <2> QED BY <2>1, <1>1, <1>2
<1>4. m = [[c EXCEPT !.scopeDepth = d] EXCEPT !.locals = ls]
  BY <1>0 DEF Ended, CompilerType
<1>5. ls \in Seq(LocalType) /\ Len(ls) = k /\ DOMAIN ls = 1..k /\ \A i \in 1..k : ls[i] = c.locals[i]
  BY <1>1, <1>3
<1>6. m \in CompilerType
  <2>1. [c EXCEPT !.scopeDepth = d] \in CompilerType
    BY <1>0, <1>1, Parts
  <2>2. \A e : e \in CompilerType => [e EXCEPT !.locals = ls] \in CompilerType
    BY <1>5, Parts
  <2> HIDE DEF m, ls, d
  <2> QED BY <2>1, <2>2, <1>4
<1>7. m.locals = ls /\ m.upvalues = c.upvalues /\ m.scopeDepth = d
  BY <1>0, <1>4 DEF CompilerType
<1>8. \A i \in 1..k : c.locals[i].depth <= d
  <2>1. c.locals[k].depth <= d
    BY <1>3 DEF Keeps
  <2>2. \A i \in 1..k : i < k => c.locals[i].depth <= c.locals[k].depth
    BY <1>1, <1>2, <1>3, SMTT(30) DEF Fits, Ordered
  <2> QED BY <2>1, <2>2, <1>1, <1>3, SMTT(30)
<1>9. \A i, j \in 1..k : i < j => c.locals[i].depth <= c.locals[j].depth
  BY <1>1, <1>2, SMTT(30) DEF Fits, Ordered
<1>10. Ordered(m) /\ Settled(m)
  <2>1. ls[1].depth = 0 /\ \A i \in 1..k : ls[i].depth <= d /\ ls[i].depth # -1
    BY <1>1, <1>2, <1>3, <1>5, <1>8
  <2>2. \A i, j \in 1..k : i < j => ls[i].depth <= ls[j].depth
    BY <1>5, <1>9
  <2> HIDE DEF m, ls, d
  <2> QED BY <1>5, <1>7, <2>1, <2>2 DEF Ordered, Settled
<1> QED BY <1>1, <1>3, <1>5, <1>6, <1>7, <1>10 DEF Fits

\* A block, or the scope of a superclass, begins.
LEMMA DeeperFacts ==
  ASSUME NEW c, Fits(c), Settled(c), c.scopeDepth < MaxScope
  PROVE  LET m == [c EXCEPT !.scopeDepth = @ + 1]
         IN Fits(m) /\ Settled(m) /\ m.upvalues = c.upvalues /\ m.scopeDepth = c.scopeDepth + 1
            /\ m.locals = c.locals /\ m.scopeDepth > 0
<1> DEFINE d == c.scopeDepth + 1
           m == [c EXCEPT !.scopeDepth = d]
<1>0. c \in CompilerType
  BY DEF Fits
<1>1. /\ d \in 1..MaxScope /\ d \in 0..MaxScope /\ c.scopeDepth \in 0..MaxScope
      /\ \A i \in 1..Len(c.locals) : c.locals[i].depth \in Int
  BY <1>0, Parts, ScopesAssumption
<1>2. m \in CompilerType
  <2> HIDE DEF d
  <2> QED BY <1>0, <1>1, Parts
<1>3. m.locals = c.locals /\ m.upvalues = c.upvalues /\ m.scopeDepth = d
  BY <1>0 DEF CompilerType
<1>4. \A i \in 1..Len(c.locals) : c.locals[i].depth <= d
  BY <1>1, ScopesAssumption DEF Fits, Ordered
<1>5. Ordered(m) /\ Settled(m)
  <2> HIDE DEF m
  <2> QED BY <1>1, <1>3, <1>4 DEF Fits, Ordered, Settled
<1> QED BY <1>1, <1>2, <1>3, <1>5 DEF Fits

\* A local is marked as read or captured.
LEMMA TouchFacts ==
  ASSUME NEW c, Fits(c), NEW i \in 1..Len(c.locals), NEW l \in LocalType,
         l.depth = c.locals[i].depth, c.locals[i].isCaptured => l.isCaptured
  PROVE  LET m == [c EXCEPT !.locals[i] = l]
         IN /\ Fits(m) /\ Grows(c, m) /\ m.upvalues = c.upvalues /\ m.scopeDepth = c.scopeDepth
            /\ (Settled(c) => Settled(m)) /\ (HasVariable(c) => HasVariable(m))
            /\ Len(m.locals) = Len(c.locals) /\ m.locals[i] = l
<1> DEFINE n  == Len(c.locals)
           ls == [c.locals EXCEPT ![i] = l]
           m  == [c EXCEPT !.locals = ls]
<1>0. c \in CompilerType
  BY DEF Fits
<1>1. c.locals \in Seq(LocalType) /\ DOMAIN c.locals = 1..n /\ n \in Nat
  BY <1>0, Parts
<1>2. ls \in Seq(LocalType) /\ Len(ls) = n /\ \A j \in 1..n : ls[j] = IF j = i THEN l ELSE c.locals[j]
  BY <1>1
<1>3. m \in CompilerType
  <2> HIDE DEF ls
  <2> QED BY <1>0, <1>2, Parts
<1>4. m.locals = ls /\ m.upvalues = c.upvalues /\ m.scopeDepth = c.scopeDepth
  BY <1>0 DEF CompilerType
<1>5. \A j \in 1..n : ls[j].depth = c.locals[j].depth
  BY <1>2
<1>6. Ordered(m) /\ (Settled(c) => Settled(m))
  <2> HIDE DEF m, ls
  <2> QED BY <1>1, <1>2, <1>4, <1>5 DEF Fits, Ordered, Settled
<1>7. Grows(c, m)
  <2> HIDE DEF m, ls
  <2> QED BY <1>0, <1>1, <1>2, <1>4, Parts DEF Grows
<1> QED BY <1>2, <1>3, <1>4, <1>6, <1>7 DEF Fits, HasVariable

LEMMA UpvalueFacts ==
  ASSUME NEW c, Fits(c), NEW us \in Seq(UpvalueType), Len(us) <= UINT8_COUNT,
         Len(c.upvalues) <= Len(us)
  PROVE  LET m == [c EXCEPT !.upvalues = us]
         IN /\ Fits(m) /\ Grows(c, m) /\ m.upvalues = us /\ m.scopeDepth = c.scopeDepth
            /\ m.locals = c.locals
            /\ (Settled(c) => Settled(m)) /\ (HasVariable(c) => HasVariable(m))
<1> DEFINE m == [c EXCEPT !.upvalues = us]
<1>0. c \in CompilerType
  BY DEF Fits
<1>1. m \in CompilerType
  BY <1>0, Parts
<1>2. m.locals = c.locals /\ m.upvalues = us /\ m.scopeDepth = c.scopeDepth
  BY <1>0 DEF CompilerType
<1>3. Ordered(m) /\ (Settled(c) => Settled(m)) /\ (HasVariable(c) => HasVariable(m))
  <2> HIDE DEF m
  <2> QED BY <1>2 DEF Fits, Ordered, Settled, HasVariable
<1>4. Grows(c, m)
  <2> HIDE DEF m
  <2> QED BY <1>0, <1>2, Parts DEF Grows
<1> QED BY <1>1, <1>2, <1>3, <1>4 DEF Fits

LEMMA NewFacts ==
  ASSUME NEW s \in {"none", "this"}, NEW d \in 0..1
  PROVE  LET c == Compiler(s, d)
         IN Fits(c) /\ Settled(c) /\ c.upvalues = <<>> /\ c.scopeDepth = d
<1> DEFINE c  == Compiler(s, d)
           l  == Local(s, 0)
<1>1. l \in LocalType /\ l.depth = 0
  BY ScopesAssumption DEF Local, LocalType
<1>2. c = [locals |-> <<l>>, upvalues |-> <<>>, scopeDepth |-> d]
  BY DEF Compiler
<1>3. /\ <<l>> \in Seq(LocalType) /\ Len(<<l>>) = 1 /\ <<l>>[1] = l
      /\ <<>> \in Seq(UpvalueType) /\ d \in 0..MaxScope
  BY <1>1, ScopesAssumption
<1>4. c \in CompilerType /\ c.locals = <<l>> /\ c.upvalues = <<>> /\ c.scopeDepth = d
  <2> HIDE DEF l
  <2> QED BY <1>2, <1>3 DEF CompilerType
<1>5. Ordered(c) /\ Settled(c)
  <2> HIDE DEF c, l
  <2> QED BY <1>1, <1>3, <1>4 DEF Ordered, Settled
<1> QED BY <1>3, <1>4, <1>5, ScopesAssumption DEF Fits

-----------------------------------------------------------------------------
(* The invariant, in the form the steps use it *)

Bounded == /\ compilers \in Seq(CompilerType) /\ Top \in 1..MaxFunctions
           /\ \A f \in 1..Top : Fits(compilers[f])

Operands == /\ \A f \in 2..Top : \A j \in DOMAIN compilers[f].upvalues :
                 Reaches(compilers[f - 1], compilers[f].upvalues[j])
            /\ compilers[1].upvalues = <<>>

WorkReaches == work # NoWork => Reaches(compilers[work.level - 1], work)

ClassesTyped == classes \in Seq([name : Name, hasSuperclass : BOOLEAN, fn : 1..Top])

WorkTyped == work = NoWork \/ work \in [level : 2..Top, index : 1..UINT8_COUNT, isLocal : BOOLEAN,
                                        name : Name \cup {"this", "super"}]

Control == /\ ClassesTyped /\ WorkTyped
           /\ pc \in {"statement", "initializer", "class", "inherits", "inherits_itself"}
           /\ todo \in Seq(Name \cup {"super"}) /\ hadError \in BOOLEAN

LEMMA Unfold ==
  ASSUME IInv
  PROVE  /\ Bounded /\ Operands /\ WorkReaches /\ Control /\ NamesWait /\ ClassesNest
         /\ \A f \in 1..(Top - 1) : Settled(compilers[f])
         /\ pc # "initializer" => Settled(current)
         /\ DOMAIN compilers = 1..Top /\ Fits(current) /\ current = compilers[Top]
         /\ Top \in Nat \ {0}
<1>1. Bounded
  <2>1. compilers \in Seq(CompilerType) /\ Top \in 1..MaxFunctions
    BY DEF IInv, TypeOK
  <2>2. \A f \in 1..Top : compilers[f] \in CompilerType
    <3> HIDE DEF CompilerType
    <3> QED BY <2>1 DEF Top
  <2> QED BY <2>1, <2>2 DEF IInv, TypeOK, ArraysOrdered, Bounded, Fits
<1>2. Operands /\ WorkReaches
  BY DEF IInv, OperandsReach, Operands, WorkReaches
<1>3. Control
  BY DEF IInv, TypeOK, Control, ClassesTyped, WorkTyped
<1>4. DOMAIN compilers = 1..Top /\ Top \in Nat \ {0} /\ current = compilers[Top] /\ Fits(current)
  BY <1>1, ScopesAssumption DEF Bounded, Top, current
<1> QED BY <1>1, <1>2, <1>3, <1>4 DEF IInv, ArraysOrdered

LEMMA Fold ==
  ASSUME Bounded', Operands', WorkReaches', Control', NamesWait', ClassesNest',
         \A f \in 1..(Top' - 1) : Settled(compilers'[f]), pc' # "initializer" => Settled(current')
  PROVE  IInv'
<1>1. TypeOK'
  BY DEF Bounded, Control, TypeOK, Fits, ClassesTyped, WorkTyped
<1>2. OperandsReach'
  BY DEF Operands, WorkReaches, OperandsReach
<1>3. ArraysOrdered'
  BY DEF Bounded, ArraysOrdered, Fits
<1> QED BY <1>1, <1>2, <1>3 DEF IInv

LEMMA FinishTyped == \A e, code : Finish(e, code) => hadError' \in BOOLEAN
BY DEF Finish

LEMMA ReachesGrown ==
  ASSUME NEW c \in CompilerType, NEW d \in CompilerType, Grows(c, d), NEW u, Reaches(c, u)
  PROVE  Reaches(d, u)
<1>1. DOMAIN c.locals \subseteq DOMAIN d.locals /\ DOMAIN c.upvalues \subseteq DOMAIN d.upvalues
  <2> HIDE DEF CompilerType
  <2> QED BY Parts DEF Grows
<1> QED BY <1>1 DEF Grows, Reaches

LEMMA ExceptElement ==
  ASSUME NEW S, NEW s \in Seq(S), NEW f \in 1..Len(s), NEW x \in S
  PROVE  LET t == [s EXCEPT ![f] = x]
         IN /\ t \in Seq(S) /\ Len(t) = Len(s) /\ DOMAIN s = 1..Len(s)
            /\ \A g \in 1..Len(s) : t[g] = IF g = f THEN x ELSE s[g]
OBVIOUS

\* A step that changes one function, f, of those that are being compiled
LEMMA EditStep ==
  ASSUME IInv, NEW f \in 1..Top, NEW d, Fits(d), compilers' = [compilers EXCEPT ![f] = d],
         f < Top => /\ Settled(d) /\ Grows(compilers[f], d)
                    /\ HasVariable(compilers[f]) => HasVariable(d),
         f > 1 => \A j \in DOMAIN d.upvalues : Reaches(compilers[f - 1], d.upvalues[j]),
         f = 1 => d.upvalues = <<>>,
         pc' # "initializer" => Settled(IF f = Top THEN d ELSE current),
         pc' = "initializer" => HasVariable(IF f = Top THEN d ELSE current),
         \A g \in 1..(Top - 1) : (\A k \in DOMAIN classes' : classes'[k].fn # g)
                                    => \A k \in DOMAIN classes : classes[k].fn # g,
         Control', WorkReaches', ClassesNest'
  PROVE  IInv'
<1>1. /\ Bounded /\ Operands /\ NamesWait /\ DOMAIN compilers = 1..Top
      /\ Top \in Nat \ {0} /\ Top \in 1..MaxFunctions
      /\ \A g \in 1..(Top - 1) : Settled(compilers[g])
  BY Unfold DEF Bounded
<1>2. d \in CompilerType
  BY DEF Fits
<1>3. /\ compilers' \in Seq(CompilerType) /\ Top' = Top
      /\ \A g \in 1..Top : compilers'[g] = IF g = f THEN d ELSE compilers[g]
  <2>1. compilers \in Seq(CompilerType) /\ Top = Len(compilers) /\ Top' = Len(compilers')
    BY <1>1, ZenonT(60) DEF Bounded, Top
  <2> QED BY <1>2, <2>1, SMTT(30)
<1>4. Bounded'
  BY <1>1, <1>3 DEF Bounded
<1>5. current' = IF f = Top THEN d ELSE current
  BY <1>1, <1>3 DEF current
<1>6. Operands'
  <2>1. compilers'[1].upvalues = <<>>
    BY <1>1, <1>3 DEF Operands
  <2>2. ASSUME NEW g \in 2..Top, NEW u, Reaches(compilers[g - 1], u)
        PROVE  Reaches(compilers'[g - 1], u)
    <3>1. g - 1 \in 1..Top /\ (g - 1 = f => f < Top)
      BY <1>1
    <3>2. CASE g - 1 # f
      BY <1>3, <2>2, <3>1, <3>2
    <3>3. CASE g - 1 = f
      <4>1. compilers'[g - 1] = d /\ Grows(compilers[g - 1], d) /\ compilers[g - 1] \in CompilerType
        BY <1>1, <1>3, <3>1, <3>3 DEF Bounded, Fits
      <4> QED BY <1>2, <2>2, <4>1, ReachesGrown
    <3> QED BY <3>2, <3>3
  <2>3. ASSUME NEW g \in 2..Top, NEW j \in DOMAIN compilers'[g].upvalues
        PROVE  Reaches(compilers[g - 1], compilers'[g].upvalues[j])
    BY <1>1, <1>3, <2>3 DEF Operands
  <2> QED BY <1>3, <2>1, <2>2, <2>3 DEF Operands
<1>7. NamesWait'
  <2>1. pc' = "initializer" => HasVariable(current')
    BY <1>5
  <2>2. ASSUME NEW g \in 1..(Top - 1), \A k \in DOMAIN classes' : classes'[k].fn # g
        PROVE  HasVariable(compilers'[g])
    <3>1. HasVariable(compilers[g])
      BY <2>2, <1>1 DEF NamesWait
    <3> QED BY <1>1, <1>3, <3>1
  <2> QED BY <1>3, <2>1, <2>2 DEF NamesWait
<1>8. \A g \in 1..(Top' - 1) : Settled(compilers'[g])
  BY <1>1, <1>3
<1> QED BY <1>3, <1>4, <1>5, <1>6, <1>7, <1>8, Fold

\* A step between whose ends no class begins or ends
LEMMA NestKept ==
  ASSUME IInv, NEW f \in 1..Top, NEW d, Fits(d), compilers' = [compilers EXCEPT ![f] = d],
         classes' = classes,
         \A k \in DOMAIN classes : classes[k].fn = f /\ classes[k].hasSuperclass => d.scopeDepth > 0,
         pc' \in {"class", "inherits", "inherits_itself"} => InClassBody,
         pc' \in {"inherits", "inherits_itself"} =>
           /\ f = Top => d.scopeDepth < MaxScope
           /\ f # Top => current.scopeDepth < MaxScope
  PROVE  /\ Top' = Top /\ current' = (IF f = Top THEN d ELSE current)
         /\ ClassesTyped' /\ ClassesNest'
         /\ \A g \in 1..Top : compilers'[g] = IF g = f THEN d ELSE compilers[g]
<1>1. /\ Bounded /\ ClassesTyped /\ ClassesNest /\ DOMAIN compilers = 1..Top
      /\ Top \in Nat \ {0} /\ current = compilers[Top]
  BY Unfold, SMTT(30) DEF Control
<1>2. compilers \in Seq(CompilerType) /\ Top = Len(compilers) /\ Top' = Len(compilers')
  BY <1>1, ZenonT(60) DEF Bounded, Top
<1>3. Top' = Top /\ \A g \in 1..Top : compilers'[g] = IF g = f THEN d ELSE compilers[g]
  <2>1. d \in CompilerType
    BY DEF Fits
  <2> HIDE DEF CompilerType
  <2> QED BY <1>1, <1>2, <2>1, ExceptElement, ZenonT(60)
<1>4. current' = IF f = Top THEN d ELSE current
  BY <1>1, <1>3 DEF current
<1>5. ClassesTyped'
  BY <1>1, <1>3 DEF ClassesTyped
<1>6. \A k \in DOMAIN classes : classes[k].fn \in 1..Top
  <2> DEFINE T == [name : Name, hasSuperclass : BOOLEAN, fn : 1..Top]
  <2>1. \A x \in T : x.fn \in 1..Top
    OBVIOUS
  <2>2. classes \in Seq(T)
    BY <1>1 DEF ClassesTyped
  <2> HIDE DEF T
  <2> QED BY <2>1, <2>2
<1>7. InClassBody' = InClassBody
  BY <1>3 DEF InClassBody, Last
<1>8. ASSUME NEW k \in DOMAIN classes, classes[k].hasSuperclass
      PROVE  compilers'[classes[k].fn].scopeDepth > 0
  BY <1>1, <1>3, <1>6, <1>8 DEF ClassesNest
<1> QED BY <1>1, <1>3, <1>4, <1>5, <1>7, <1>8 DEF ClassesNest

-----------------------------------------------------------------------------
(* Names *)

LEMMA NamedFacts ==
  ASSUME IInv, work = NoWork, NEW n \in Name \cup {"this", "super"},
         NEW rest \in Seq(Name \cup {"super"}), NEW e, NamedVariable(n, rest, e),
         classes' = classes,
         \/ pc' = pc
         \/ /\ pc = "class" /\ pc' \in {"statement", "inherits", "inherits_itself"}
            /\ pc' # "statement" => current.scopeDepth < MaxScope
  PROVE  IInv'
<1> USE ScopesAssumption
<1>1. /\ Bounded /\ Operands /\ Control /\ NamesWait /\ ClassesNest /\ DOMAIN compilers = 1..Top
      /\ Top \in Nat \ {0} /\ current = compilers[Top]
      /\ pc # "initializer" => Settled(current)
      /\ \A f \in 1..(Top - 1) : Settled(compilers[f])
  BY Unfold
<1>2. /\ todo' \in Seq(Name \cup {"super"}) /\ hadError' \in BOOLEAN
      /\ pc' \in {"statement", "initializer", "class", "inherits", "inherits_itself"}
  BY <1>1, FinishTyped DEF NamedVariable, Control
<1>3. /\ pc' # "initializer" => Settled(current)
      /\ pc' = "initializer" => HasVariable(current)
      /\ pc' \in {"class", "inherits", "inherits_itself"} => InClassBody
      /\ pc' \in {"inherits", "inherits_itself"} => current.scopeDepth < MaxScope
  BY <1>1 DEF NamesWait, ClassesNest
<1>4. ASSUME NEW f \in 1..Top, NEW d, Fits(d), compilers' = [compilers EXCEPT ![f] = d],
             Grows(compilers[f], d), d.upvalues = compilers[f].upvalues,
             d.scopeDepth = compilers[f].scopeDepth,
             Settled(compilers[f]) => Settled(d), HasVariable(compilers[f]) => HasVariable(d),
             Top' = Top /\ current' = (IF f = Top THEN d ELSE current) =>
               WorkTyped' /\ WorkReaches'
      PROVE  IInv'
  <2>1. \A k \in DOMAIN classes : classes[k].fn = f /\ classes[k].hasSuperclass => d.scopeDepth > 0
    BY <1>1, <1>4 DEF ClassesNest
  <2>2. Top' = Top /\ current' = (IF f = Top THEN d ELSE current) /\ ClassesTyped' /\ ClassesNest'
    BY <1>1, <1>3, <1>4, <2>1, NestKept
  <2>3. Control' /\ WorkReaches'
    BY <1>2, <1>4, <2>2 DEF Control
  <2>4. f > 1 => \A j \in DOMAIN d.upvalues : Reaches(compilers[f - 1], d.upvalues[j])
    BY <1>1, <1>4 DEF Operands
  <2>5. f = 1 => d.upvalues = <<>>
    BY <1>1, <1>4 DEF Operands
  <2>6. /\ pc' # "initializer" => Settled(IF f = Top THEN d ELSE current)
        /\ pc' = "initializer" => HasVariable(IF f = Top THEN d ELSE current)
    BY <1>1, <1>3, <1>4
  <2>7. f < Top => Settled(d)
    BY <1>1, <1>4
  <2> QED BY <1>4, <2>2, <2>3, <2>4, <2>5, <2>6, <2>7, EditStep
<1>5. ASSUME NEW i \in DOMAIN current.locals,
             compilers' = [compilers EXCEPT ![Top].locals[i].read = TRUE], work' = work
      PROVE  IInv'
  <2> DEFINE l == [current.locals[i] EXCEPT !.read = TRUE]
             d == [current EXCEPT !.locals[i] = l]
  <2>1. Fits(current) /\ current \in CompilerType
    BY <1>1 DEF Bounded, Fits
  <2>2. i \in 1..Len(current.locals) /\ current.locals[i] \in LocalType
    BY <2>1, Parts
  <2>3. l \in LocalType /\ l.depth = current.locals[i].depth /\ l.isCaptured = current.locals[i].isCaptured
    BY <2>2 DEF LocalType
  <2>4. /\ Fits(d) /\ Grows(current, d) /\ d.upvalues = current.upvalues
        /\ d.scopeDepth = current.scopeDepth
        /\ (Settled(current) => Settled(d)) /\ (HasVariable(current) => HasVariable(d))
    <3> HIDE DEF l
    <3> QED BY <2>1, <2>2, <2>3, TouchFacts, SMTT(30)
  <2>5. compilers' = [compilers EXCEPT ![Top] = d]
    BY <1>1, <1>5
  <2>6. WorkTyped' /\ WorkReaches'
    BY <1>5 DEF WorkTyped, WorkReaches, NoWork
  <2>7. Top \in 1..Top
    BY <1>1
  <2> HIDE DEF d
  <2> QED BY <1>1, <1>4, <2>4, <2>5, <2>6, <2>7
<1>6. ASSUME NEW f \in 1..(Top - 1), NEW i \in DOMAIN compilers[f].locals,
             compilers' = [compilers EXCEPT ![f].locals[i] = Captured(@)],
             work' = [level |-> f + 1, index |-> i, isLocal |-> TRUE, name |-> n]
      PROVE  IInv'
  <2> DEFINE c == compilers[f]
             l == Captured(c.locals[i])
             d == [c EXCEPT !.locals[i] = l]
  <2>1. Fits(c) /\ c \in CompilerType /\ f \in 1..Top /\ f < Top
    BY <1>1 DEF Bounded, Fits
  <2>2. i \in 1..Len(c.locals) /\ c.locals[i] \in LocalType /\ i \in 1..UINT8_COUNT
    BY <2>1, Parts DEF Fits
  <2>3. l \in LocalType /\ l.depth = c.locals[i].depth /\ l.isCaptured
    BY <2>2 DEF LocalType, Captured
  <2>4. /\ Fits(d) /\ Grows(c, d) /\ d.upvalues = c.upvalues /\ d.scopeDepth = c.scopeDepth
        /\ (Settled(c) => Settled(d)) /\ (HasVariable(c) => HasVariable(d))
        /\ Len(d.locals) = Len(c.locals) /\ d.locals[i] = l
    <3> HIDE DEF l, c
    <3> QED BY <2>1, <2>2, <2>3, TouchFacts
  <2>5. compilers' = [compilers EXCEPT ![f] = d]
    BY <1>1, <1>6
  <2>6. Top' = Top => WorkTyped'
    BY <1>1, <1>6, <2>2 DEF WorkTyped
  <2>7. WorkReaches'
    <3>1. d \in CompilerType
      BY <2>4 DEF Fits
    <3>2. i \in DOMAIN d.locals /\ d.locals[i].isCaptured
      <4> HIDE DEF d, l
      <4> QED BY <2>2, <2>3, <2>4, <3>1, Parts
    <3>3. work'.level - 1 = f /\ work'.isLocal /\ work'.index = i /\ compilers'[f] = d
      BY <1>1, <1>6, <2>1, <2>5
    <3> HIDE DEF d
    <3> QED BY <3>2, <3>3 DEF WorkReaches, Reaches
  <2> HIDE DEF d
  <2> QED BY <1>4, <2>1, <2>4, <2>5, <2>6, <2>7
<1>7. ASSUME compilers' = compilers, work' = work
      PROVE  IInv'
  <2>1. compilers' = [compilers EXCEPT ![Top] = current]
    BY <1>1, <1>7 DEF Bounded
  <2>2. Fits(current) /\ Grows(current, current)
    BY <1>1, Parts DEF Bounded, Grows, Fits
  <2>3. WorkTyped' /\ WorkReaches'
    BY <1>7 DEF WorkTyped, WorkReaches, NoWork
  <2>4. Top \in 1..Top
    BY <1>1
  <2> QED BY <1>1, <1>4, <2>1, <2>2, <2>3, <2>4
<1> QED BY <1>5, <1>6, <1>7 DEF NamedVariable

LEMMA SameCompilers ==
  ASSUME IInv, UNCHANGED <<compilers, classes, pc, work>>,
         todo' \in Seq(Name \cup {"super"}), hadError' \in BOOLEAN
  PROVE  IInv'
<1>1. /\ Bounded /\ Operands /\ WorkReaches /\ Control /\ NamesWait /\ ClassesNest
      /\ \A f \in 1..(Top - 1) : Settled(compilers[f])
      /\ pc # "initializer" => Settled(current)
  BY Unfold
<1>2. Top' = Top /\ current' = current /\ InClassBody' = InClassBody
  BY DEF Top, current, InClassBody
<1>3. Bounded' /\ Operands' /\ WorkReaches'
  BY <1>1, <1>2 DEF Bounded, Operands, WorkReaches
<1>4. Control'
  BY <1>1, <1>2 DEF Control, ClassesTyped, WorkTyped
<1>5. NamesWait' /\ ClassesNest'
  BY <1>1, <1>2 DEF NamesWait, ClassesNest
<1> QED BY <1>1, <1>2, <1>3, <1>4, <1>5, Fold

LEMMA ClassNames ==
  ASSUME IInv, pc \in {"class", "inherits", "inherits_itself"}
  PROVE  classes # <<>> /\ Len(classes) \in DOMAIN classes /\ Last(classes) = classes[Len(classes)]
         /\ Last(classes).name \in Name /\ Last(classes).fn = Top
<1> DEFINE T == [name : Name, hasSuperclass : BOOLEAN, fn : 1..Top]
<1>1. InClassBody /\ classes \in Seq(T)
  BY Unfold DEF ClassesNest, Control, ClassesTyped
<1>2. \A x \in T : x.name \in Name
  OBVIOUS
<1> HIDE DEF T
<1> QED BY <1>1, <1>2 DEF InClassBody, Last

LEMMA NameSteps ==
  ASSUME IInv,
         \/ \E n \in Name : Variable(n) \/ Superclass(n)
         \/ This \/ Super \/ ResolveNext \/ ClassBody
  PROVE  IInv'
<1>1. /\ todo \in Seq(Name \cup {"super"}) /\ <<>> \in Seq(Name \cup {"super"})
      /\ <<"super">> \in Seq(Name \cup {"super"})
  BY Unfold DEF Control
<1>2. ASSUME NEW n \in Name, Variable(n) PROVE IInv'
  BY <1>1, <1>2, NamedFacts DEF Variable, InExpression, Ready
<1>3. ASSUME NEW n \in Name, Superclass(n) PROVE IInv'
  <2>1. pc' \in {"statement", "inherits", "inherits_itself"}
    BY <1>3 DEF Superclass
  <2> QED BY <1>1, <1>3, <2>1, NamedFacts DEF Superclass, Ready
<1>4. CASE This
  <2>1. CASE classes = <<>>
    <3>1. hadError' \in BOOLEAN
      BY <1>4, <2>1, FinishTyped DEF This
    <3> QED BY <1>1, <1>4, <2>1, <3>1, SameCompilers DEF This
  <2>2. CASE classes # <<>>
    BY <1>1, <1>4, <2>2, NamedFacts DEF This, InExpression, Ready
  <2> QED BY <2>1, <2>2
<1>5. CASE Super
  BY <1>1, <1>5, NamedFacts DEF Super, InExpression, Ready
<1>6. CASE ResolveNext
  <2>1. Head(todo) \in Name \cup {"this", "super"} /\ Tail(todo) \in Seq(Name \cup {"super"})
    BY <1>1, <1>6 DEF ResolveNext
  <2> QED BY <1>6, <2>1, NamedFacts DEF ResolveNext
<1>7. CASE ClassBody
  <2>1. Last(classes).name \in Name \cup {"this", "super"}
    BY <1>7, ClassNames DEF ClassBody
  <2> QED BY <1>1, <1>7, <2>1, NamedFacts DEF ClassBody, Ready
<1> QED BY <1>2, <1>3, <1>4, <1>5, <1>6, <1>7

LEMMA AddUpvalueStep ==
  ASSUME IInv, AddUpvalue
  PROVE  IInv'
<1> USE ScopesAssumption
<1>0. PICK f : f = work.level
  OBVIOUS
<1> DEFINE c     == compilers[f]
           u     == [index |-> work.index, isLocal |-> work.isLocal]
           known == \E j \in DOMAIN c.upvalues : Same(c.upvalues[j], u)
           full  == ~known /\ Len(c.upvalues) = UINT8_COUNT
           after == IF known \/ full THEN c.upvalues ELSE Append(c.upvalues, u)
           d     == [c EXCEPT !.upvalues = after]
<1>1. /\ Bounded /\ Operands /\ WorkReaches /\ Control /\ NamesWait /\ ClassesNest
      /\ DOMAIN compilers = 1..Top /\ Top \in Nat \ {0} /\ current = compilers[Top]
      /\ pc # "initializer" => Settled(current)
      /\ \A g \in 1..(Top - 1) : Settled(compilers[g])
  BY Unfold
<1>2. /\ work # NoWork /\ compilers' = [compilers EXCEPT ![f] = d] /\ UNCHANGED <<classes, pc, todo>>
  BY <1>0 DEF AddUpvalue
<1>3. /\ work \in [level : 2..Top, index : 1..UINT8_COUNT, isLocal : BOOLEAN,
                   name : Name \cup {"this", "super"}]
      /\ f \in 2..Top /\ f \in 1..Top /\ u \in UpvalueType
  BY <1>0, <1>1, <1>2 DEF Control, WorkTyped, UpvalueType
<1>4. Fits(c) /\ c \in CompilerType
  BY <1>1, <1>3 DEF Bounded, Fits
<1>5. c.upvalues \in Seq(UpvalueType) /\ Len(c.upvalues) \in 0..UINT8_COUNT /\ DOMAIN c.upvalues = 1..Len(c.upvalues)
  BY <1>4, Parts DEF Fits
<1>6. /\ after \in Seq(UpvalueType) /\ Len(after) \in 0..UINT8_COUNT /\ DOMAIN after = 1..Len(after)
      /\ Len(c.upvalues) <= Len(after)
      /\ \A j \in DOMAIN after : (j \in DOMAIN c.upvalues /\ after[j] = c.upvalues[j]) \/ after[j] = u
  <2> HIDE DEF u, c, UpvalueType
  <2>1. CASE known \/ full
    BY <1>5, <2>1
  <2>2. CASE ~(known \/ full)
    <3> HIDE DEF known
    <3> QED BY <1>3, <1>5, <2>2
  <2> QED BY <2>1, <2>2
<1>7. /\ Fits(d) /\ Grows(c, d) /\ d.upvalues = after /\ d.scopeDepth = c.scopeDepth
      /\ (Settled(c) => Settled(d)) /\ (HasVariable(c) => HasVariable(d))
  <2> HIDE DEF after, c
  <2> QED BY <1>4, <1>5, <1>6, UpvalueFacts
<1>8. ASSUME NEW j \in DOMAIN after PROVE Reaches(compilers[f - 1], after[j])
  <2>1. Reaches(compilers[f - 1], u)
    BY <1>0, <1>1, <1>2 DEF WorkReaches, Reaches
  <2>2. \A k \in DOMAIN c.upvalues : Reaches(compilers[f - 1], c.upvalues[k])
    BY <1>1, <1>3 DEF Operands
  <2> HIDE DEF after, u, c
  <2> QED BY <1>6, <1>8, <2>1, <2>2
<1> HIDE DEF d, after, known, full, u
<1>9. /\ Top' = Top /\ current' = (IF f = Top THEN d ELSE current) /\ ClassesTyped' /\ ClassesNest'
      /\ compilers'[f] = d
  <2>1. \A k \in DOMAIN classes : classes[k].fn = f /\ classes[k].hasSuperclass => d.scopeDepth > 0
    BY <1>1, <1>7 DEF ClassesNest
  <2>2. /\ pc' \in {"class", "inherits", "inherits_itself"} => InClassBody
        /\ pc' \in {"inherits", "inherits_itself"} => current.scopeDepth < MaxScope
    BY <1>1, <1>2 DEF ClassesNest
  <2>3. /\ f \in 1..Top /\ Fits(d) /\ compilers' = [compilers EXCEPT ![f] = d] /\ classes' = classes
        /\ pc' \in {"inherits", "inherits_itself"} =>
             /\ f = Top => d.scopeDepth < MaxScope
             /\ f # Top => current.scopeDepth < MaxScope
    BY <1>1, <1>2, <1>3, <1>7, <2>2
  <2>4. pc' \in {"class", "inherits", "inherits_itself"} => InClassBody
    BY <2>2
  <2> HIDE DEF c
  <2>5. /\ Top' = Top /\ current' = (IF f = Top THEN d ELSE current) /\ ClassesTyped' /\ ClassesNest'
        /\ \A g \in 1..Top : compilers'[g] = IF g = f THEN d ELSE compilers[g]
    BY ONLY IInv, <2>1, <2>3, <2>4, NestKept, ZenonT(60)
  <2> QED BY <2>3, <2>5
<1>10. WorkTyped' /\ WorkReaches'
  <2>1. CASE f = Top
    BY <1>0, <2>1 DEF WorkTyped, WorkReaches, AddUpvalue
  <2>2. CASE f # Top
    <3>1. PICK i \in DOMAIN after : work' = [work EXCEPT !.level = @ + 1, !.index = i, !.isLocal = FALSE]
      BY <1>0, <2>2, ZenonT(60) DEF AddUpvalue, after, full, known, u
    <3>2. i \in 1..UINT8_COUNT
      BY <1>6
    <3>3. work' = [level |-> f + 1, index |-> i, isLocal |-> FALSE, name |-> work.name]
      BY <1>0, <1>3, <3>1
    <3>4. f + 1 \in 2..Top /\ work.name \in Name \cup {"this", "super"}
      BY <1>1, <1>3, <2>2
    <3>5. WorkTyped'
      BY <1>9, <3>2, <3>3, <3>4 DEF WorkTyped
    <3>6. work'.level - 1 = f /\ ~work'.isLocal /\ work'.index = i
      BY <1>3, <3>3
    <3>7. Reaches(d, work')
      BY <1>7, <3>6 DEF Reaches
    <3> QED BY <1>9, <3>5, <3>6, <3>7 DEF WorkReaches
  <2> QED BY <2>1, <2>2
<1>11. Control'
  <2>1. hadError' \in BOOLEAN
    BY FinishTyped DEF AddUpvalue
  <2> QED BY <1>1, <1>2, <1>9, <1>10, <2>1 DEF Control
<1>12. /\ pc' # "initializer" => Settled(IF f = Top THEN d ELSE current)
       /\ pc' = "initializer" => HasVariable(IF f = Top THEN d ELSE current)
       /\ f < Top => Settled(d)
  BY <1>1, <1>2, <1>3, <1>7 DEF NamesWait
<1>13. /\ f # 1 /\ f \in 1..Top /\ compilers' = [compilers EXCEPT ![f] = d]
       /\ \A j \in DOMAIN d.upvalues : Reaches(compilers[f - 1], d.upvalues[j])
       /\ Fits(d) /\ Grows(compilers[f], d) /\ (HasVariable(compilers[f]) => HasVariable(d))
  BY <1>2, <1>3, <1>7, <1>8
<1> HIDE DEF c
<1> QED BY <1>2, <1>9, <1>10, <1>11, <1>12, <1>13, EditStep

-----------------------------------------------------------------------------
(* Declarations, blocks and classes *)

LEMMA TopKept ==
  ASSUME IInv, NEW d, Fits(d), compilers' = With(d)
  PROVE  /\ Top' = Top /\ current' = d /\ compilers' = [compilers EXCEPT ![Top] = d] /\ Top \in 1..Top
         /\ \A g \in 1..Top : compilers'[g] = IF g = Top THEN d ELSE compilers[g]
<1>1. compilers \in Seq(CompilerType) /\ Top \in Nat \ {0} /\ d \in CompilerType
  BY Unfold DEF Bounded, Fits
<1>2. /\ Len(compilers') = Len(compilers) /\ compilers' = [compilers EXCEPT ![Top] = d]
      /\ \A g \in 1..Top : compilers'[g] = IF g = Top THEN d ELSE compilers[g]
  <2> HIDE DEF CompilerType
  <2> QED BY <1>1, ExceptElement DEF With, Top
<1>3. Top' = Top
  BY <1>2 DEF Top
<1> QED BY <1>1, <1>2, <1>3 DEF current

LEMMA TopStep ==
  ASSUME IInv, Ready, UNCHANGED work, NEW d, Fits(d), compilers' = With(d), d.upvalues = current.upvalues,
         hadError' \in BOOLEAN, todo' \in Seq(Name \cup {"super"}),
         pc' \in {"statement", "initializer", "class", "inherits", "inherits_itself"},
         pc' # "initializer" => Settled(d), pc' = "initializer" => HasVariable(d),
         \A g \in 1..(Top - 1) : (\A k \in DOMAIN classes' : classes'[k].fn # g)
                                    => \A k \in DOMAIN classes : classes[k].fn # g,
         ClassesTyped', ClassesNest'
  PROVE  IInv'
<1>1. /\ Operands /\ WorkReaches /\ Top \in Nat \ {0} /\ current = compilers[Top]
  BY Unfold
<1>2. Control' /\ WorkReaches'
  BY DEF Control, WorkTyped, WorkReaches, Ready
<1>3. compilers' = [compilers EXCEPT ![Top] = d] /\ Top \in 1..Top
  BY TopKept
<1>4. /\ Top > 1 => \A j \in DOMAIN d.upvalues : Reaches(compilers[Top - 1], d.upvalues[j])
      /\ Top = 1 => d.upvalues = <<>>
  BY <1>1 DEF Operands
<1>5. /\ pc' # "initializer" => Settled(IF Top = Top THEN d ELSE current)
      /\ pc' = "initializer" => HasVariable(IF Top = Top THEN d ELSE current)
      /\ ~(Top < Top) /\ ClassesNest'
      /\ \A g \in 1..(Top - 1) : (\A k \in DOMAIN classes' : classes'[k].fn # g)
                                    => \A k \in DOMAIN classes : classes[k].fn # g
  BY <1>1
<1> QED BY ONLY IInv, Fits(d), <1>2, <1>3, <1>4, <1>5, EditStep

\* The same when no class begins or ends and the parser is at a statement.
LEMMA BlockStep ==
  ASSUME IInv, Ready, UNCHANGED <<work, todo, classes>>, NEW d, Fits(d), compilers' = With(d),
         d.upvalues = current.upvalues, hadError' \in BOOLEAN,
         pc' \in {"statement", "initializer"},
         pc' = "statement" => Settled(d), pc' = "initializer" => HasVariable(d),
         \A k \in DOMAIN classes : classes[k].fn = Top /\ classes[k].hasSuperclass => d.scopeDepth > 0
  PROVE  IInv'
<1>1. todo' \in Seq(Name \cup {"super"})
  BY Unfold DEF Control
<1>2. compilers' = [compilers EXCEPT ![Top] = d] /\ Top \in 1..Top
  BY TopKept
<1>3. ClassesTyped' /\ ClassesNest'
  BY <1>2, NestKept
<1> QED BY <1>1, <1>3, TopStep

LEMMA NoClassHere ==
  ASSUME IInv, ~InClassBody
  PROVE  \A k \in DOMAIN classes : classes[k].fn < Top
<1> DEFINE T == [name : Name, hasSuperclass : BOOLEAN, fn : 1..Top]
<1>1. classes \in Seq(T) /\ ClassesNest /\ Top \in Nat
  BY Unfold DEF Control, ClassesTyped
<1>2. \A x \in T : x.fn \in 1..Top
  OBVIOUS
<1>3. SUFFICES ASSUME NEW k \in DOMAIN classes PROVE classes[k].fn < Top
  OBVIOUS
<1> DEFINE n == Len(classes)
<1>4. n \in DOMAIN classes /\ classes[n].fn # Top /\ k <= n
  <2> HIDE DEF T
  <2> QED BY <1>1, <1>3 DEF InClassBody, Last
<1>5. classes[n].fn \in 1..Top /\ classes[k].fn \in 1..Top
  <2> HIDE DEF T
  <2> QED BY <1>1, <1>2, <1>3, <1>4
<1>6. k < n => classes[k].fn < classes[n].fn
  BY <1>1, <1>3, <1>4 DEF ClassesNest
<1>7. k \in Nat /\ n \in Nat
  <2> HIDE DEF T
  <2> QED BY <1>1, <1>3
<1> QED BY <1>1, <1>4, <1>5, <1>6, <1>7

LEMMA BlockSteps ==
  ASSUME IInv,
         \/ \E n \in Name : VarDeclaration(n)
         \/ DefineVariable \/ BeginScope \/ EndScope
  PROVE  IInv'
<1>1. /\ Fits(current) /\ NamesWait /\ ClassesNest /\ current = compilers[Top] /\ Top \in Nat \ {0}
      /\ pc # "initializer" => Settled(current)
  BY Unfold
<1>2. \A k \in DOMAIN classes : classes[k].fn = Top /\ classes[k].hasSuperclass => current.scopeDepth > 0
  BY <1>1 DEF ClassesNest
<1>3. ~InClassBody => \A k \in DOMAIN classes : classes[k].fn # Top
  BY <1>1, NoClassHere, Unfold DEF Control, ClassesTyped
<1>4. ASSUME NEW n \in Name, VarDeclaration(n) PROVE IInv'
  <2> DEFINE d == DeclareVariable(current, n)
  <2>1. /\ Ready /\ pc = "statement" /\ pc' = "initializer" /\ compilers' = With(d)
        /\ UNCHANGED <<work, todo, classes>> /\ hadError' \in BOOLEAN
    BY <1>4, FinishTyped DEF VarDeclaration, AtStatement
  <2>2. Fits(d) /\ HasVariable(d) /\ d.upvalues = current.upvalues /\ d.scopeDepth = current.scopeDepth
    BY <1>1, <2>1, DeclareFacts
  <2> HIDE DEF d
  <2> QED BY <1>2, <2>1, <2>2, BlockStep
<1>5. CASE DefineVariable
  <2> DEFINE d == MarkInitialized(current)
  <2>1. /\ Ready /\ pc = "initializer" /\ pc' = "statement" /\ compilers' = With(d)
        /\ UNCHANGED <<work, todo, classes>> /\ hadError' \in BOOLEAN
    BY <1>5, FinishTyped DEF DefineVariable
  <2>2. Fits(d) /\ Settled(d) /\ d.upvalues = current.upvalues /\ d.scopeDepth = current.scopeDepth
    BY <1>1, <2>1, MarkFacts DEF NamesWait
  <2> HIDE DEF d
  <2> QED BY <1>2, <2>1, <2>2, BlockStep
<1>6. CASE BeginScope
  <2> DEFINE d == [current EXCEPT !.scopeDepth = @ + 1]
  <2>1. /\ Ready /\ pc = "statement" /\ pc' = "statement" /\ compilers' = With(d)
        /\ UNCHANGED <<work, todo, classes>> /\ hadError' \in BOOLEAN
        /\ current.scopeDepth < MaxScope
    BY <1>6, FinishTyped DEF BeginScope, AtStatement
  <2>2. Fits(d) /\ Settled(d) /\ d.upvalues = current.upvalues /\ d.scopeDepth > 0
    BY <1>1, <2>1, DeeperFacts
  <2> HIDE DEF d
  <2> QED BY <2>1, <2>2, BlockStep
<1>7. CASE EndScope
  <2>1. PICK k \in 0..Len(current.locals) :
          Keeps(current, k) /\ compilers' = With(Ended(current, k)) /\ Finish(NoError, EndScopeCode(current, k))
    BY <1>7 DEF EndScope
  <2> DEFINE d == Ended(current, k)
  <2>2. /\ Ready /\ pc = "statement" /\ pc' = "statement" /\ compilers' = With(d) /\ ~InClassBody
        /\ UNCHANGED <<work, todo, classes>> /\ hadError' \in BOOLEAN
        /\ current.scopeDepth > IF Top = 1 THEN 0 ELSE 1
    BY <1>7, <2>1, FinishTyped DEF EndScope, AtStatement
  <2>3. current.scopeDepth > 0
    <3>1. current.scopeDepth \in Int
      BY <1>1, Parts DEF Fits
    <3> QED BY <2>2, <3>1
  <2>4. Fits(d) /\ Settled(d) /\ d.upvalues = current.upvalues
    BY <1>1, <2>1, <2>2, <2>3, EndedFacts
  <2> HIDE DEF d
  <2> QED BY <1>3, <2>2, <2>4, BlockStep
<1> QED BY <1>4, <1>5, <1>6, <1>7

\* What the steps that begin and end classes need of the chain of classes
ClassType == [name : Name, hasSuperclass : BOOLEAN, fn : 1..Top]

LEMMA ClassFacts ==
  ASSUME IInv
  PROVE  /\ classes \in Seq(ClassType) /\ DOMAIN classes = 1..Len(classes) /\ Len(classes) \in Nat
         /\ \A k \in 1..Len(classes) : classes[k] \in ClassType /\ classes[k].fn \in 1..Top
         /\ InClassBody => Len(classes) >= 1 /\ classes[Len(classes)].fn = Top
         /\ Last(classes) = classes[Len(classes)] /\ Front(classes) = SubSeq(classes, 1, Len(classes) - 1)
<1>1. classes \in Seq(ClassType)
  BY Unfold DEF Control, ClassesTyped, ClassType
<1>2. \A x \in ClassType : x.fn \in 1..Top
  BY DEF ClassType
<1> QED BY <1>1, <1>2 DEF InClassBody, Last, Front

LEMMA ClassDeclarationStep ==
  ASSUME IInv, NEW n \in Name, ClassDeclaration(n)
  PROVE  IInv'
<1> DEFINE c == DeclareVariable(current, n)
           d == MarkInitialized(c)
           x == [name |-> n, hasSuperclass |-> FALSE, fn |-> Top]
<1>1. /\ Fits(current) /\ ClassesNest /\ current = compilers[Top] /\ Top \in Nat \ {0}
      /\ pc # "initializer" => Settled(current)
      /\ todo \in Seq(Name \cup {"super"})
  BY Unfold DEF Control
<1>2. /\ Ready /\ pc = "statement" /\ pc' = "class" /\ compilers' = With(d) /\ ~InClassBody
      /\ UNCHANGED <<work, todo>> /\ classes' = Append(classes, x) /\ hadError' \in BOOLEAN
  BY FinishTyped DEF ClassDeclaration, AtStatement
<1>3. Fits(c) /\ HasVariable(c) /\ c.upvalues = current.upvalues
  BY <1>1, <1>2, DeclareFacts
<1>4. Fits(d) /\ Settled(d) /\ d.upvalues = current.upvalues
  <2> HIDE DEF c
  <2> QED BY <1>3, MarkFacts
<1> HIDE DEF d
<1>5. /\ Top' = Top /\ current' = d
      /\ \A g \in 1..Top : compilers'[g] = IF g = Top THEN d ELSE compilers[g]
  BY <1>2, <1>4, TopKept
<1> DEFINE m == Len(classes)
<1>6. /\ classes' \in Seq(ClassType) /\ Len(classes') = m + 1 /\ DOMAIN classes' = 1..(m + 1)
      /\ classes'[m + 1] = x /\ \A k \in 1..m : classes'[k] = classes[k]
      /\ DOMAIN classes = 1..m /\ m \in Nat
  <2>1. x \in ClassType
    BY <1>1 DEF ClassType
  <2> HIDE DEF x
  <2> QED BY <1>2, <2>1, ClassFacts
<1>7. x.fn = Top /\ x.hasSuperclass = FALSE
  OBVIOUS
<1> HIDE DEF x
<1>8. \A k \in 1..m : classes[k].fn < Top /\ classes[k].fn \in 1..Top
  BY <1>2, <1>6, NoClassHere, ClassFacts
<1>9. ClassesTyped'
  BY <1>5, <1>6 DEF ClassesTyped, ClassType
<1>10. InClassBody'
  BY <1>5, <1>6, <1>7 DEF InClassBody, Last
<1>11. \A j, k \in 1..(m + 1) : j < k => classes'[j].fn < classes'[k].fn
  <2> SUFFICES ASSUME NEW j \in 1..(m + 1), NEW k \in 1..(m + 1), j < k
               PROVE  classes'[j].fn < classes'[k].fn
    OBVIOUS
  <2>1. j \in 1..m /\ classes'[j] = classes[j]
    BY <1>6
  <2>2. CASE k = m + 1
    BY <1>6, <1>7, <1>8, <2>1, <2>2
  <2>3. CASE k # m + 1
    <3>1. k \in 1..m /\ classes'[k] = classes[k]
      BY <1>6, <2>3
    <3> QED BY <1>1, <1>6, <2>1, <3>1 DEF ClassesNest
  <2> QED BY <2>2, <2>3
<1>12. ASSUME NEW k \in 1..(m + 1), classes'[k].hasSuperclass
       PROVE  compilers'[classes'[k].fn].scopeDepth > 0
  <2>1. k \in 1..m /\ classes'[k] = classes[k]
    BY <1>6, <1>7, <1>12
  <2>2. compilers'[classes[k].fn] = compilers[classes[k].fn]
    BY <1>1, <1>5, <1>8, <2>1
  <2> QED BY <1>1, <1>6, <1>12, <2>1, <2>2 DEF ClassesNest
<1>13. ClassesNest'
  BY <1>2, <1>6, <1>10, <1>11, <1>12 DEF ClassesNest
<1>14. ASSUME NEW g \in 1..(Top - 1), \A k \in DOMAIN classes' : classes'[k].fn # g,
              NEW k \in DOMAIN classes
       PROVE  classes[k].fn # g
  <2>1. k \in DOMAIN classes' /\ classes'[k] = classes[k]
    BY <1>6, <1>14
  <2> QED BY <1>14, <2>1
<1> QED BY <1>1, <1>2, <1>4, <1>9, <1>13, <1>14, TopStep

LEMMA InheritStep ==
  ASSUME IInv, Inherit
  PROVE  IInv'
<1> DEFINE b == [current EXCEPT !.scopeDepth = @ + 1]
           c == AddLocal(b, "super")
           d == MarkInitialized(c)
           m == Len(classes)
<1>1. /\ Fits(current) /\ ClassesNest /\ current = compilers[Top] /\ Top \in Nat \ {0}
      /\ pc # "initializer" => Settled(current)
  BY Unfold
<1>2. /\ Ready /\ pc \in {"inherits", "inherits_itself"} /\ pc' = "statement" /\ compilers' = With(d)
      /\ UNCHANGED work /\ hadError' \in BOOLEAN
      /\ todo' = <<Last(classes).name, Last(classes).name>>
  BY FinishTyped DEF Inherit
<1>3. Fits(b) /\ Settled(b) /\ b.upvalues = current.upvalues /\ b.scopeDepth > 0
  <2>1. current.scopeDepth < MaxScope
    BY <1>1, <1>2 DEF ClassesNest
  <2> QED BY <1>1, <1>2, <2>1, DeeperFacts
<1>4. Fits(c) /\ HasVariable(c) /\ c.upvalues = current.upvalues /\ c.scopeDepth > 0
  <2> HIDE DEF b
  <2> QED BY <1>3, AddFacts
<1>5. Fits(d) /\ Settled(d) /\ d.upvalues = current.upvalues /\ d.scopeDepth > 0
  <2> HIDE DEF c
  <2> QED BY <1>4, MarkFacts
<1> HIDE DEF d
<1>6. /\ Top' = Top /\ current' = d
      /\ \A g \in 1..Top : compilers'[g] = IF g = Top THEN d ELSE compilers[g]
  BY <1>2, <1>5, TopKept
<1>7. /\ classes \in Seq(ClassType) /\ DOMAIN classes = 1..m /\ m \in 1..m /\ m \in Nat
      /\ \A k \in 1..m : classes[k].fn \in 1..Top
      /\ classes[m] \in ClassType /\ classes[m].fn = Top /\ classes[m].name \in Name
      /\ Last(classes) = classes[m]
  <2>1. InClassBody
    BY <1>1, <1>2 DEF ClassesNest
  <2>2. \A x \in ClassType : x.name \in Name
    BY DEF ClassType
  <2> QED BY <2>1, <2>2, ClassFacts
<1>8. /\ classes' \in Seq(ClassType) /\ DOMAIN classes' = 1..m
      /\ \A k \in 1..m : classes'[k].fn = classes[k].fn
      /\ \A k \in 1..m : k # m => classes'[k] = classes[k]
  <2> DEFINE x == [classes[m] EXCEPT !.hasSuperclass = TRUE]
  <2>1. x \in ClassType /\ x.fn = classes[m].fn
    BY <1>7 DEF ClassType
  <2>2. classes' = [classes EXCEPT ![m] = x]
    BY <1>7 DEF Inherit
  <2> HIDE DEF x
  <2> QED BY <1>7, <2>1, <2>2
<1>9. ClassesTyped'
  BY <1>6, <1>8 DEF ClassesTyped, ClassType
<1>10. ASSUME NEW k \in 1..m, classes'[k].hasSuperclass
       PROVE  compilers'[classes'[k].fn].scopeDepth > 0
  <2>1. classes'[k].fn = classes[k].fn /\ classes[k].fn \in 1..Top
    BY <1>7, <1>8
  <2>2. CASE classes[k].fn = Top
    BY <1>1, <1>5, <1>6, <2>1, <2>2
  <2>3. CASE classes[k].fn # Top
    <3>1. classes'[k] = classes[k]
      BY <1>7, <1>8, <2>3, ZenonT(60)
    <3> QED BY <1>1, <1>6, <1>7, <1>10, <2>1, <2>3, <3>1, SMTT(30) DEF ClassesNest
  <2> QED BY <2>2, <2>3
<1>11. ClassesNest'
  BY <1>1, <1>2, <1>7, <1>8, <1>10 DEF ClassesNest
<1>12. todo' \in Seq(Name \cup {"super"})
  BY <1>2, <1>7, SMTT(30)
<1>13. ASSUME NEW g \in 1..(Top - 1), \A k \in DOMAIN classes' : classes'[k].fn # g,
              NEW k \in DOMAIN classes
       PROVE  classes[k].fn # g
  BY <1>7, <1>8, <1>13
<1> QED BY <1>2, <1>5, <1>9, <1>11, <1>12, <1>13, TopStep

LEMMA EndClassStep ==
  ASSUME IInv, EndClass
  PROVE  IInv'
<1> DEFINE m == Len(classes)
<1>1. /\ Fits(current) /\ ClassesNest /\ current = compilers[Top] /\ Top \in Nat \ {0} /\ Bounded
      /\ pc # "initializer" => Settled(current)
      /\ todo \in Seq(Name \cup {"super"})
  BY Unfold DEF Control
<1>2. /\ Ready /\ pc = "statement" /\ pc' = "statement" /\ InClassBody
      /\ UNCHANGED <<work, todo>> /\ hadError' \in BOOLEAN /\ classes' = Front(classes)
  BY FinishTyped DEF EndClass
<1>3. /\ classes \in Seq(ClassType) /\ DOMAIN classes = 1..m /\ m \in Nat /\ m >= 1 /\ m \in 1..m
      /\ \A k \in 1..m : classes[k].fn \in 1..Top
      /\ classes[m].fn = Top /\ Last(classes) = classes[m] /\ classes' = SubSeq(classes, 1, m - 1)
  BY <1>2, ClassFacts
<1>4. PICK d : Fits(d) /\ Settled(d) /\ d.upvalues = current.upvalues /\ compilers' = With(d)
  <2>1. CASE classes[m].hasSuperclass
    <3>1. PICK k \in 0..Len(current.locals) : Keeps(current, k) /\ compilers' = With(Ended(current, k))
      BY <1>3, <2>1 DEF EndClass
    <3>2. current.scopeDepth > 0
      BY <1>1, <1>3, <2>1 DEF ClassesNest
    <3> QED BY <1>1, <1>2, <3>1, <3>2, EndedFacts
  <2>2. CASE ~classes[m].hasSuperclass
    <3>1. compilers' = compilers
      BY <1>3, <2>2 DEF EndClass
    <3>2. compilers' = With(current)
      BY <1>1, <3>1 DEF With, Bounded
    <3> QED BY <1>1, <1>2, <3>2
  <2> QED BY <2>1, <2>2
<1>5. /\ Top' = Top /\ current' = d
      /\ \A g \in 1..Top : compilers'[g] = IF g = Top THEN d ELSE compilers[g]
  BY <1>4, TopKept
<1>6. /\ classes' \in Seq(ClassType) /\ DOMAIN classes' = 1..(m - 1)
      /\ \A k \in 1..(m - 1) : classes'[k] = classes[k] /\ k \in 1..m /\ k < m
  BY <1>3
<1>7. ClassesTyped'
  BY <1>5, <1>6 DEF ClassesTyped, ClassType
<1>8. ASSUME NEW k \in 1..(m - 1)
      PROVE  compilers'[classes'[k].fn] = compilers[classes[k].fn]
  <2>1. classes[k].fn < Top
    BY <1>1, <1>3, <1>6, <1>8 DEF ClassesNest
  <2> QED BY <1>1, <1>3, <1>5, <1>6, <2>1
<1>9. ClassesNest'
  <2>1. \A j, k \in DOMAIN classes' : j < k => classes'[j].fn < classes'[k].fn
    BY <1>1, <1>3, <1>6 DEF ClassesNest
  <2>2. \A k \in DOMAIN classes' : classes'[k].hasSuperclass => compilers'[classes'[k].fn].scopeDepth > 0
    BY <1>1, <1>3, <1>6, <1>8 DEF ClassesNest
  <2> QED BY <1>2, <2>1, <2>2 DEF ClassesNest
<1>10. ASSUME NEW g \in 1..(Top - 1), \A k \in DOMAIN classes' : classes'[k].fn # g,
              NEW k \in DOMAIN classes
       PROVE  classes[k].fn # g
  <2>1. CASE k = m
    BY <1>1, <1>3, <2>1
  <2>2. CASE k # m
    <3>1. k \in DOMAIN classes' /\ classes'[k] = classes[k]
      BY <1>3, <1>6, <2>2
    <3> QED BY <1>10, <3>1
  <2> QED BY <2>1, <2>2
<1> QED BY <1>1, <1>2, <1>4, <1>7, <1>9, <1>10, TopStep

-----------------------------------------------------------------------------
(* Functions *)

LEMMA PushKept ==
  ASSUME IInv, NEW d, Fits(d), NEW e, Fits(e), compilers' = Append(With(d), e)
  PROVE  /\ compilers' \in Seq(CompilerType) /\ Top' = Top + 1
         /\ \A g \in 1..Top : compilers'[g] = IF g = Top THEN d ELSE compilers[g]
         /\ compilers'[Top + 1] = e
<1>1. compilers \in Seq(CompilerType) /\ d \in CompilerType /\ e \in CompilerType /\ Top \in Nat \ {0}
  BY Unfold DEF Bounded, Fits
<1> HIDE DEF CompilerType
<1>2. /\ With(d) \in Seq(CompilerType) /\ Len(With(d)) = Top
      /\ \A g \in 1..Top : With(d)[g] = IF g = Top THEN d ELSE compilers[g]
  BY <1>1, ExceptElement DEF With, Top
<1> QED BY <1>1, <1>2 DEF Top

LEMMA PushStep ==
  ASSUME IInv, Ready, pc = "statement", UNCHANGED <<classes, pc, todo, work>>, hadError' \in BOOLEAN,
         NEW d, Fits(d), Settled(d), d.upvalues = current.upvalues, d.scopeDepth = current.scopeDepth,
         NEW e, Fits(e), Settled(e), e.upvalues = <<>>, Top < MaxFunctions,
         compilers' \in Seq(CompilerType), Top' = Top + 1,
         \A g \in 1..Top : compilers'[g] = IF g = Top THEN d ELSE compilers[g],
         compilers'[Top + 1] = e,
         (\A k \in DOMAIN classes : classes[k].fn # Top) => HasVariable(d)
  PROVE  IInv'
<1>1. /\ Bounded /\ Operands /\ Control /\ NamesWait /\ ClassesNest
      /\ Top \in Nat \ {0} /\ current = compilers[Top]
      /\ \A g \in 1..(Top - 1) : Settled(compilers[g])
  BY Unfold
<1>2. /\ compilers' \in Seq(CompilerType) /\ Top' = Top + 1
      /\ \A g \in 1..Top : compilers'[g] = IF g = Top THEN d ELSE compilers[g]
      /\ compilers'[Top + 1] = e
  OBVIOUS
<1>3. Top' \in 1..MaxFunctions
  BY <1>1, <1>2, ScopesAssumption
<1>4. ASSUME NEW g \in 1..(Top + 1) PROVE Fits(compilers'[g]) /\ Settled(compilers'[g])
  <2>1. CASE g = Top + 1
    BY <1>2, <2>1
  <2>2. CASE g = Top
    BY <1>1, <1>2, <2>2
  <2>3. CASE g \in 1..(Top - 1)
    <3>1. g \in 1..Top /\ g # Top
      BY <1>1, <2>3
    <3>2. compilers'[g] = compilers[g]
      BY <3>1
    <3> QED BY <1>1, <2>3, <3>1, <3>2 DEF Bounded
  <2> QED BY <1>1, <2>1, <2>2, <2>3
<1>5. Bounded' /\ current' = e
  BY <1>2, <1>3, <1>4 DEF Bounded, current
<1>6. Operands'
  <2>1. compilers'[1].upvalues = <<>>
    BY <1>1, <1>2 DEF Operands
  <2>2. ASSUME NEW g \in 2..(Top + 1), NEW j \in DOMAIN compilers'[g].upvalues
        PROVE  Reaches(compilers'[g - 1], compilers'[g].upvalues[j])
    <3>1. g # Top + 1
      BY <1>2, <2>2
    <3>2. g \in 2..Top /\ g - 1 \in 1..Top /\ g - 1 # Top
      BY <1>1, <3>1
    <3>3. compilers'[g - 1] = compilers[g - 1] /\ compilers'[g].upvalues = compilers[g].upvalues
      BY <1>1, <1>2, <3>2
    <3> QED BY <1>1, <2>2, <3>2, <3>3 DEF Operands
  <2> QED BY <1>2, <2>1, <2>2 DEF Operands
<1>7. WorkReaches' /\ Control'
  <2>1. ClassesTyped'
    <3> DEFINE T == [name : Name, hasSuperclass : BOOLEAN, fn : 1..(Top + 1)]
    <3>1. \A x \in ClassType : x \in T
      BY <1>1 DEF ClassType
    <3>2. classes \in Seq(T)
      <4> HIDE DEF T
      <4> QED BY <3>1, ClassFacts
    <3> QED BY <1>2, <3>2 DEF ClassesTyped
  <2>2. WorkReaches' /\ WorkTyped'
    BY DEF WorkReaches, WorkTyped, Ready
  <2> QED BY <1>1, <2>1, <2>2 DEF Control
<1>8. NamesWait'
  <2>1. ASSUME NEW g \in 1..Top, \A k \in DOMAIN classes : classes[k].fn # g
        PROVE  HasVariable(compilers'[g])
    <3>1. CASE g = Top
      BY <1>1, <1>2, <2>1, <3>1
    <3>2. CASE g # Top
      <4>1. g \in 1..(Top - 1)
        BY <1>1, <3>2
      <4> QED BY <1>1, <1>2, <2>1, <3>2, <4>1 DEF NamesWait
    <3> QED BY <3>1, <3>2
  <2>2. Top' - 1 = Top
    BY <1>1, <1>2
  <2> QED BY <2>1, <2>2 DEF NamesWait
<1>9. ClassesNest'
  <2>1. \A k \in DOMAIN classes : classes[k].fn \in 1..Top
    BY ClassFacts
  <2>2. \A k \in DOMAIN classes : compilers'[classes[k].fn].scopeDepth = compilers[classes[k].fn].scopeDepth
    BY <1>1, <1>2, <2>1
  <2> QED BY <1>1, <2>2 DEF ClassesNest
<1>10. \A g \in 1..(Top' - 1) : Settled(compilers'[g])
  BY <1>1, <1>2, <1>4
<1> QED BY <1>5, <1>6, <1>7, <1>8, <1>9, <1>10, Fold

LEMMA BeginFunctionSteps ==
  ASSUME IInv, Method \/ \E n \in Name : FunDeclaration(n)
  PROVE  IInv'
<1>1. /\ Fits(current) /\ Bounded /\ current = compilers[Top] /\ Top \in Nat \ {0}
      /\ pc # "initializer" => Settled(current)
  BY Unfold
<1>2. CASE Method
  <2> DEFINE e == Compiler("this", 1)
  <2>1. /\ Ready /\ pc = "statement" /\ UNCHANGED <<classes, pc, todo, work>> /\ InClassBody
        /\ hadError' \in BOOLEAN /\ compilers' = Append(compilers, e) /\ Top < MaxFunctions
    BY <1>2, FinishTyped DEF Method
  <2>2. compilers' = Append(With(current), e)
    BY <1>1, <2>1 DEF With, Bounded
  <2>3. Fits(e) /\ Settled(e) /\ e.upvalues = <<>>
    BY NewFacts
  <2>4. ~ \A k \in DOMAIN classes : classes[k].fn # Top
    BY <2>1, ClassFacts
  <2> HIDE DEF e
  <2>5. /\ compilers' \in Seq(CompilerType) /\ Top' = Top + 1
        /\ \A g \in 1..Top : compilers'[g] = IF g = Top THEN current ELSE compilers[g]
        /\ compilers'[Top + 1] = e
    BY <1>1, <2>2, <2>3, PushKept
  <2>6. Settled(current)
    BY <1>1, <2>1
  <2>7. hadError' \in BOOLEAN /\ Top < MaxFunctions
    BY <2>1
  <2>8. Ready /\ pc = "statement" /\ UNCHANGED <<classes, pc, todo, work>>
    BY <2>1
  <2>9. Fits(current)
    BY <1>1
  <2> QED BY ONLY IInv, <2>3, <2>4, <2>5, <2>6, <2>7, <2>8, <2>9, PushStep
<1>3. ASSUME NEW n \in Name, FunDeclaration(n) PROVE IInv'
  <2> DEFINE e == Compiler("none", 1)
             c == DeclareVariable(current, n)
             d == MarkInitialized(c)
  <2>1. /\ Ready /\ pc = "statement" /\ UNCHANGED <<classes, pc, todo, work>>
        /\ hadError' \in BOOLEAN /\ compilers' = Append(With(d), e) /\ Top < MaxFunctions
    BY <1>3, FinishTyped DEF FunDeclaration, AtStatement
  <2>2. /\ Fits(c) /\ HasVariable(c) /\ c.upvalues = current.upvalues
        /\ c.scopeDepth = current.scopeDepth
    BY <1>1, <2>1, DeclareFacts
  <2>3. /\ Fits(d) /\ Settled(d) /\ HasVariable(d) /\ d.upvalues = current.upvalues
        /\ d.scopeDepth = current.scopeDepth
    <3> HIDE DEF c
    <3> QED BY <2>2, MarkFacts
  <2>4. Fits(e) /\ Settled(e) /\ e.upvalues = <<>>
    BY NewFacts
  <2> HIDE DEF d, e
  <2> QED BY <1>1, <2>1, <2>3, <2>4, PushKept, PushStep, ZenonT(60)
<1> QED BY <1>2, <1>3

LEMMA EndFunctionStep ==
  ASSUME IInv, EndFunction
  PROVE  IInv'
<1> DEFINE b        == Top - 1
           isMethod == classes # <<>> /\ Last(classes).fn = b
           d        == IF ~isMethod THEN MarkInitialized(compilers[b]) ELSE compilers[b]
<1>1. /\ Bounded /\ Operands /\ Control /\ NamesWait /\ ClassesNest
      /\ Top \in Nat \ {0} /\ compilers \in Seq(CompilerType)
      /\ \A g \in 1..(Top - 1) : Settled(compilers[g])
  BY Unfold DEF Bounded
<1>2. /\ Ready /\ pc = "statement" /\ ~InClassBody /\ UNCHANGED <<classes, pc, todo, work>>
      /\ hadError' \in BOOLEAN /\ Top > 1
      /\ compilers' = [f \in 1..b |-> IF f = b /\ ~isMethod THEN MarkInitialized(compilers[f]) ELSE compilers[f]]
  BY FinishTyped DEF EndFunction, AtStatement
<1>3. b \in 1..b /\ b \in 1..Top /\ b \in Nat \ {0} /\ b + 1 = Top /\ Fits(compilers[b]) /\ Settled(compilers[b])
  BY <1>1, <1>2 DEF Bounded
<1>4. \A k \in DOMAIN classes : classes[k].fn \in 1..b
  BY <1>1, <1>3, <1>2, NoClassHere, ClassFacts
<1>5. ~isMethod => \A k \in DOMAIN classes : classes[k].fn # b
  <2> SUFFICES ASSUME ~isMethod, NEW k \in DOMAIN classes PROVE classes[k].fn # b
    OBVIOUS
  <2> DEFINE n == Len(classes)
  <2>1. n \in DOMAIN classes /\ k <= n /\ k \in Nat /\ n \in Nat /\ classes[n].fn # b
    BY ClassFacts
  <2>2. k < n => classes[k].fn < classes[n].fn
    BY <1>1, <2>1 DEF ClassesNest
  <2>3. classes[n].fn \in 1..b /\ classes[k].fn \in 1..b
    BY <1>4, <2>1
  <2> HIDE DEF isMethod, n
  <2> QED BY <1>3, <2>1, <2>2, <2>3
<1>6. ~isMethod => HasVariable(compilers[b])
  <2> HIDE DEF isMethod
  <2> QED BY <1>1, <1>3, <1>5 DEF NamesWait
<1>7. /\ Fits(d) /\ Settled(d) /\ d.upvalues = compilers[b].upvalues
      /\ d.scopeDepth = compilers[b].scopeDepth
  BY <1>3, <1>6, MarkFacts
<1>8. /\ compilers' \in Seq(CompilerType) /\ Top' = b
      /\ \A g \in 1..b : compilers'[g] = IF g = b THEN d ELSE compilers[g]
  <2>1. compilers' = [f \in 1..b |-> IF f = b THEN d ELSE compilers[f]]
    BY <1>2
  <2>2. \A f \in 1..b : (IF f = b THEN d ELSE compilers[f]) \in CompilerType
    <3>1. \A f \in 1..b : compilers[f] \in CompilerType
      BY <1>1, <1>3 DEF Bounded, Fits
    <3> QED BY <1>7, <3>1 DEF Fits
  <2> HIDE DEF d, b, CompilerType
  <2>3. compilers' \in Seq(CompilerType) /\ Len(compilers') = b
    BY <1>3, <2>1, <2>2
  <2> QED BY <1>3, <2>1, <2>3 DEF Top
<1> HIDE DEF d, isMethod
<1>9. Bounded' /\ current' = d
  <2>1. Top' \in 1..MaxFunctions
    <3>1. Top \in 1..MaxFunctions
      BY <1>1 DEF Bounded
    <3> HIDE DEF b
    <3> QED BY <1>3, <1>8, <3>1, ScopesAssumption
  <2>2. ASSUME NEW g \in 1..b PROVE Fits(compilers'[g])
    <3>1. CASE g = b
      BY <1>7, <1>8, <3>1
    <3>2. CASE g # b
      <4>1. g \in 1..Top /\ compilers'[g] = compilers[g]
        BY <1>3, <1>8, <3>2
      <4> QED BY <1>1, <4>1 DEF Bounded
    <3> QED BY <3>1, <3>2
  <2> QED BY <1>3, <1>8, <2>1, <2>2 DEF Bounded, current
<1>10. Operands'
  <2>1. \A g \in 1..b : compilers'[g].upvalues = compilers[g].upvalues
    BY <1>7, <1>8
  <2>2. ASSUME NEW g \in 2..b, NEW j \in DOMAIN compilers'[g].upvalues
        PROVE  Reaches(compilers'[g - 1], compilers'[g].upvalues[j])
    <3>1. g \in 1..b /\ g \in 2..Top /\ g - 1 \in 1..b /\ g - 1 # b
      BY <1>3
    <3>2. compilers'[g - 1] = compilers[g - 1] /\ compilers'[g].upvalues = compilers[g].upvalues
      BY <1>8, <2>1, <3>1
    <3> QED BY <1>1, <2>2, <3>1, <3>2 DEF Operands
  <2>3. compilers'[1].upvalues = <<>>
    BY <1>1, <1>3, <2>1 DEF Operands
  <2> QED BY <1>8, <2>2, <2>3 DEF Operands
<1>11. WorkReaches' /\ Control'
  <2>1. ClassesTyped'
    <3> DEFINE T == [name : Name, hasSuperclass : BOOLEAN, fn : 1..b]
    <3>1. ASSUME NEW x \in ClassType, x.fn \in 1..b PROVE x \in T
      BY <3>1 DEF ClassType
    <3>2. classes \in Seq(T)
      <4> HIDE DEF T
      <4> QED BY <1>4, <3>1, ClassFacts
    <3> QED BY <1>2, <1>8, <3>2 DEF ClassesTyped
  <2>2. WorkReaches' /\ WorkTyped'
    BY <1>2 DEF WorkReaches, WorkTyped, Ready
  <2> QED BY <1>1, <1>2, <2>1, <2>2 DEF Control
<1>12. NamesWait'
  <2>1. ASSUME NEW g \in 1..(b - 1), \A k \in DOMAIN classes : classes[k].fn # g
        PROVE  HasVariable(compilers'[g])
    <3>1. g \in 1..b /\ g # b /\ g \in 1..(Top - 1)
      BY <1>3
    <3>2. compilers'[g] = compilers[g]
      BY <1>8, <3>1
    <3> QED BY <1>1, <2>1, <3>1, <3>2 DEF NamesWait
  <2> QED BY <1>2, <1>8, <2>1 DEF NamesWait
<1>13. ClassesNest'
  <2>1. \A k \in DOMAIN classes : compilers'[classes[k].fn].scopeDepth = compilers[classes[k].fn].scopeDepth
    BY <1>4, <1>7, <1>8
  <2> QED BY <1>1, <1>2, <2>1 DEF ClassesNest
<1>14. \A g \in 1..(Top' - 1) : Settled(compilers'[g])
  <2> SUFFICES ASSUME NEW g \in 1..(b - 1) PROVE Settled(compilers'[g])
    BY <1>8
  <2>1. g \in 1..b /\ g # b /\ g \in 1..(Top - 1)
    BY <1>3
  <2>2. compilers'[g] = compilers[g]
    BY <1>8, <2>1
  <2> QED BY <1>1, <2>1, <2>2
<1>15. Settled(current')
  BY <1>7, <1>9
<1> QED BY <1>9, <1>10, <1>11, <1>12, <1>13, <1>14, <1>15, Fold

LEMMA FirstCompiler ==
  LET c == Compiler("this", 0)
  IN /\ Fits(c) /\ Settled(c) /\ c.upvalues = <<>>
     /\ <<c>> \in Seq(CompilerType) /\ Len(<<c>>) = 1 /\ <<c>>[1] = c
<1> DEFINE c == Compiler("this", 0)
<1>1. Fits(c) /\ Settled(c) /\ c.upvalues = <<>>
  BY NewFacts
<1>2. c \in CompilerType
  BY <1>1 DEF Fits
<1> HIDE DEF c, CompilerType
<1> QED BY <1>1, <1>2 DEF c

LEMMA EndScriptStep ==
  ASSUME IInv, EndScript
  PROVE  IInv'
<1>1. /\ Ready /\ pc = "statement" /\ ~InClassBody /\ UNCHANGED <<classes, pc, todo, work>>
      /\ compilers' = <<Compiler("this", 0)>> /\ hadError' = FALSE /\ Top = 1
  BY DEF EndScript, AtStatement
<1>2. Control /\ WorkReaches
  BY Unfold
<1>3. classes = <<>>
  <2>1. \A k \in DOMAIN classes : classes[k].fn < 1 /\ classes[k].fn \in 1..1
    BY <1>1, NoClassHere, ClassFacts
  <2>2. classes \in Seq(ClassType) /\ DOMAIN classes = 1..Len(classes) /\ Len(classes) \in Nat
    BY ClassFacts
  <2>3. 1 \notin DOMAIN classes
    BY <2>1
  <2> QED BY <2>2, <2>3
<1>4. Top' = 1 /\ current' = Compiler("this", 0) /\ compilers'[1] = Compiler("this", 0)
  BY <1>1, FirstCompiler DEF Top, current
<1>5. Bounded' /\ Operands' /\ Settled(current')
  BY <1>1, <1>4, FirstCompiler, ScopesAssumption DEF Bounded, Operands
<1>6. Control' /\ WorkReaches'
  BY <1>1, <1>2, <1>3, <1>4 DEF Control, ClassesTyped, WorkTyped, WorkReaches, Ready
<1>7. NamesWait' /\ ClassesNest'
  BY <1>1, <1>3, <1>4 DEF NamesWait, ClassesNest
<1>8. \A f \in 1..(Top' - 1) : Settled(compilers'[f])
  BY <1>4
<1> QED BY <1>5, <1>6, <1>7, <1>8, Fold

LEMMA Initially ==
  ASSUME Init
  PROVE  IInv
<1>1. /\ compilers = <<Compiler("this", 0)>> /\ Top = 1
      /\ current = Compiler("this", 0) /\ compilers[1] = Compiler("this", 0)
  BY FirstCompiler DEF Init, Top, current
<1>2. TypeOK
  <2>1. \A f \in 1..Top : /\ Len(compilers[f].locals) \in 1..UINT8_COUNT
                          /\ Len(compilers[f].upvalues) <= UINT8_COUNT
    BY <1>1, FirstCompiler DEF Fits
  <2>2. classes \in Seq([name : Name, hasSuperclass : BOOLEAN, fn : 1..Top])
    BY DEF Init
  <2>3. todo \in Seq(Name \cup {"super"})
    BY DEF Init
  <2>4. compilers \in Seq(CompilerType) /\ Top \in 1..MaxFunctions
    BY <1>1, FirstCompiler, ScopesAssumption
  <2>5. /\ pc \in {"statement", "initializer", "class", "inherits", "inherits_itself"}
        /\ work = NoWork /\ hadError \in BOOLEAN
    BY DEF Init
  <2> HIDE DEF CompilerType
  <2> QED BY <2>1, <2>2, <2>3, <2>4, <2>5 DEF TypeOK
<1>3. OperandsReach
  BY <1>1, FirstCompiler DEF Init, OperandsReach
<1>4. ArraysOrdered
  BY <1>1, FirstCompiler DEF Fits, ArraysOrdered
<1>5. NamesWait /\ ClassesNest
  BY <1>1 DEF Init, NamesWait, ClassesNest
<1> QED BY <1>2, <1>3, <1>4, <1>5 DEF IInv

LEMMA Stutters ==
  ASSUME IInv, UNCHANGED vars
  PROVE  IInv'
<1>1. /\ UNCHANGED <<compilers, classes, pc, work>>
      /\ todo' \in Seq(Name \cup {"super"}) /\ hadError' \in BOOLEAN
  BY Unfold DEF vars, Control
<1> QED BY <1>1, SameCompilers

-----------------------------------------------------------------------------
(* The theorems *)

\* Every production of the grammar keeps the invariant, after errors as before.
LEMMA Preserved == IInv /\ [Next]_vars => IInv'
<1> SUFFICES ASSUME IInv, [Next]_vars PROVE IInv'
  OBVIOUS
<1>1. CASE \E n \in Name : VarDeclaration(n) \/ FunDeclaration(n) \/ ClassDeclaration(n)
                             \/ Superclass(n) \/ Variable(n)
  BY <1>1, BlockSteps, BeginFunctionSteps, ClassDeclarationStep, NameSteps
<1>2. CASE DefineVariable \/ BeginScope \/ EndScope
  BY <1>2, BlockSteps
<1>3. CASE This \/ Super \/ ResolveNext \/ ClassBody
  BY <1>3, NameSteps
<1>4. CASE AddUpvalue
  BY <1>4, AddUpvalueStep
<1>5. CASE Method
  BY <1>5, BeginFunctionSteps
<1>6. CASE EndFunction
  BY <1>6, EndFunctionStep
<1>7. CASE Inherit
  BY <1>7, InheritStep
<1>8. CASE EndClass
  BY <1>8, EndClassStep
<1>9. CASE EndScript
  BY <1>9, EndScriptStep
<1>10. CASE UNCHANGED vars
  BY <1>10, Stutters
<1> QED BY <1>1, <1>2, <1>3, <1>4, <1>5, <1>6, <1>7, <1>8, <1>9, <1>10 DEF Next

\* The compiler's arrays keep their bounds, types and order, and its upvalues
\* their meaning, in every program it is given: compiler.c as a whole.
THEOREM Inductive == Spec => []IInv
<1>1. Init => IInv
  BY Initially
<1> QED BY <1>1, Preserved, PTL DEF Spec

\* No array of locals or upvalues overflows and none of locals gets empty,
\* also when the parser goes on after an error: addLocal, addUpvalue, endScope.
THEOREM TypeCorrect == Spec => []TypeOK
<1>1. IInv => TypeOK
  BY DEF IInv
<1> QED BY <1>1, Inductive, PTL

\* Every operand of OP_CLOSURE refers to a local of the enclosing function that
\* endScope will close, or to an upvalue it has: resolveUpvalue and addUpvalue.
THEOREM OperandsSound == Spec => []OperandsReach
<1>1. IInv => OperandsReach
  BY DEF IInv
<1> QED BY <1>1, Inductive, PTL

LEMMA OrderedDepths == IInv => DepthsOrdered
<1> SUFFICES ASSUME IInv, NEW f \in 1..Top,
                    NEW i \in DOMAIN compilers[f].locals, NEW j \in DOMAIN compilers[f].locals, i < j
             PROVE  /\ compilers[f].locals[i].depth # -1
                    /\ compilers[f].locals[j].depth = -1 \/
                       compilers[f].locals[i].depth <= compilers[f].locals[j].depth
  BY DEF DepthsOrdered
<1>1. Fits(compilers[f])
  BY Unfold DEF Bounded
<1>2. i \in 1..Len(compilers[f].locals) /\ j \in 1..Len(compilers[f].locals) /\ i # Len(compilers[f].locals)
  BY <1>1, Parts DEF Fits
<1> QED BY <1>1, <1>2 DEF Fits, Ordered

\* The locals of a function lie in the order of their blocks, so that endScope
\* and declareVariable may stop at the first of an outer one.
THEOREM BlocksInOrder == Spec => []DepthsOrdered
BY Inductive, OrderedDepths, PTL
=============================================================================
