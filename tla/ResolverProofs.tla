--------------------------- MODULE ResolverProofs ---------------------------
(***************************************************************************)
(* What the resolver accepts is well formed, its stacks are as high as the *)
(* nodes still open, and every distance it counts leads to the scope that  *)
(* declares the name in the text.                                          *)
(***************************************************************************)
EXTENDS ResolverInv, SequenceTheorems, FiniteSetTheorems, WellFoundedInduction, TLAPS

-----------------------------------------------------------------------------
(* Numbers and sequences.                                                  *)

\* A set of numbers that is not empty has a least one.
LEMMA LeastNat ==
  ASSUME NEW T \in SUBSET Nat, T # {}
  PROVE  \E x \in T : \A y \in T : x <= y
<1>1. \E x \in T : \A y \in T : ~ (<<y, x>> \in OpToRel(<, Nat))
  BY WFMin, NatLessThanWellFounded
<1>2. PICK x \in T : \A y \in T : ~ (<<y, x>> \in OpToRel(<, Nat))
  BY <1>1
<1>3. \A y \in T : y \in Nat /\ x \in Nat
  OBVIOUS
<1>4. \A y \in T : ~ (y < x)
  BY <1>2, <1>3 DEF OpToRel
<1> QED BY <1>3, <1>4

\* So Min is one of them, and below the others.
LEMMA MinIs ==
  ASSUME NEW T \in SUBSET Nat, T # {}
  PROVE  Min(T) \in T /\ \A y \in T : Min(T) <= y
BY LeastNat DEF Min

\* And Max, when they are bounded.
LEMMA MaxIs ==
  ASSUME NEW n \in Nat, NEW T \in SUBSET (0..n), T # {}
  PROVE  Max(T) \in T /\ \A y \in T : y <= Max(T)
<1> DEFINE D == {n - x : x \in T}
<1>1. D \in SUBSET Nat /\ D # {}
  <2>1. PICK x \in T : TRUE
    OBVIOUS
  <2>2. n - x \in D
    BY <2>1
  <2> QED BY <2>2
<1>2. PICK d \in D : \A y \in D : d <= y
  BY <1>1, LeastNat
<1>3. PICK x \in T : d = n - x
  BY <1>2
<1>4. \A y \in T : y <= x
  <2> TAKE y \in T
  <2>1. n - y \in D
    OBVIOUS
  <2>2. n - x <= n - y
    BY <1>2, <1>3, <2>1
  <2> QED BY <2>2
<1>5. \E z \in T : \A y \in T : z >= y
  BY <1>4
<1> QED BY <1>5 DEF Max

\* What Append does.
LEMMA Appended ==
  ASSUME NEW S, NEW s \in Seq(S), NEW x \in S
  PROVE  /\ Append(s, x) \in Seq(S) /\ Append(s, x) # <<>> /\ Len(s) \in Nat
         /\ DOMAIN s = 1..Len(s)
         /\ Len(Append(s, x)) = Len(s) + 1
         /\ DOMAIN Append(s, x) = 1..Len(s) + 1
         /\ \A i \in 1..Len(s) : Append(s, x)[i] = s[i]
         /\ Append(s, x)[Len(s) + 1] = x
         /\ Last(Append(s, x)) = x
<1>1. /\ Append(s, x) \in Seq(S) /\ Append(s, x) # <<>>
      /\ Len(Append(s, x)) = Len(s) + 1
      /\ \A i \in 1..Len(s) : Append(s, x)[i] = s[i]
      /\ Append(s, x)[Len(s) + 1] = x
  BY AppendProperties
<1>2. Len(s) \in Nat /\ DOMAIN s = 1..Len(s) /\ DOMAIN Append(s, x) = 1..Len(Append(s, x))
  BY <1>1, LenProperties
<1>3. Last(Append(s, x)) = Append(s, x)[Len(Append(s, x))]
  BY DEF Last
<1> QED BY <1>1, <1>2, <1>3

\* What is left of a sequence without its last k elements.
LEMMA Shortened ==
  ASSUME NEW S, NEW s \in Seq(S), NEW k \in 0..Len(s)
  PROVE  LET t == SubSeq(s, 1, Len(s) - k) IN
         /\ t \in Seq(S) /\ Len(s) \in Nat /\ DOMAIN s = 1..Len(s)
         /\ Len(t) = Len(s) - k /\ DOMAIN t = 1..Len(s) - k
         /\ \A i \in 1..Len(s) - k : t[i] = s[i]
<1>1. Len(s) \in Nat /\ DOMAIN s = 1..Len(s) /\ \A i \in 1..Len(s) : s[i] \in S
  BY LenProperties
<1> DEFINE t == SubSeq(s, 1, Len(s) - k)
<1>2. /\ t \in Seq(S)
      /\ Len(t) = IF 1 <= Len(s) - k THEN Len(s) - k - 1 + 1 ELSE 0
      /\ \A i \in 1..Len(s) - k - 1 + 1 : t[i] = s[1 + i - 1]
  BY <1>1, SubSeqProperties
<1>3. DOMAIN t = 1..Len(t)
  BY <1>2, LenProperties
<1> HIDE DEF t
<1>4. Len(t) = Len(s) - k
  <2>1. CASE 1 <= Len(s) - k
    BY <1>1, <1>2, <2>1
  <2>2. CASE ~(1 <= Len(s) - k)
    <3>1. k \in Nat /\ k <= Len(s) /\ Len(s) \in Nat
      BY <1>1
    <3>2. Len(s) - k = 0
      BY <2>2, <3>1
    <3> QED BY <1>2, <2>2, <3>2
  <2> QED BY <2>1, <2>2
<1>5. \A i \in 1..Len(s) - k : t[i] = s[i]
  <2> TAKE i \in 1..Len(s) - k
  <2>1. i \in 1..Len(s) - k - 1 + 1 /\ 1 + i - 1 = i
    BY <1>1
  <2> QED BY <1>2, <2>1
<1>6. t \in Seq(S) /\ DOMAIN t = 1..Len(s) - k
  BY <1>2, <1>3, <1>4
<1> QED BY <1>1, <1>4, <1>5, <1>6 DEF t

\* So is Front.
LEMMA FrontIs ==
  ASSUME NEW S, NEW s \in Seq(S), s # <<>>
  PROVE  /\ Front(s) \in Seq(S) /\ Len(s) \in Nat \ {0} /\ DOMAIN s = 1..Len(s)
         /\ Len(Front(s)) = Len(s) - 1 /\ DOMAIN Front(s) = 1..Len(s) - 1
         /\ \A i \in 1..Len(s) - 1 : Front(s)[i] = s[i]
         /\ Last(s) = s[Len(s)] /\ Last(s) \in S
<1>1. Len(s) \in Nat \ {0}
  BY EmptySeq
<1>2. 1 \in 0..Len(s) /\ Front(s) = SubSeq(s, 1, Len(s) - 1)
  BY <1>1 DEF Front
<1>3. Len(s) \in 1..Len(s)
  BY <1>1
<1>4. Last(s) = s[Len(s)] /\ Last(s) \in S
  BY <1>3, ElementOfSeq DEF Last
<1> DEFINE t == SubSeq(s, 1, Len(s) - 1)
<1>5. /\ t \in Seq(S) /\ DOMAIN s = 1..Len(s) /\ Len(t) = Len(s) - 1 /\ DOMAIN t = 1..Len(s) - 1
      /\ \A i \in 1..Len(s) - 1 : t[i] = s[i]
  BY <1>2, Shortened, ZenonT(30)
<1> QED BY <1>1, <1>2, <1>4, <1>5

-----------------------------------------------------------------------------
(* The nodes around a place.                                               *)

\* They come before it, and Inmost is the last of them.
LEMMA EnclIs ==
  ASSUME NEW c \in Seq(NodeType), NEW p \in 1..Len(c) + 1
  PROVE  /\ Encl(c, p) \in SUBSET (1..p - 1) /\ p \in Nat /\ Len(c) \in Nat
         /\ \A j \in Encl(c, p) : j \in DOMAIN c /\ j \in 1..Len(c) /\ c[j].op \in Nesting
         /\ Encl(c, p) # {} => /\ Inmost(c, p) \in Encl(c, p)
                               /\ \A j \in Encl(c, p) : j <= Inmost(c, p)
<1>1. Len(c) \in Nat /\ DOMAIN c = 1..Len(c)
  BY LenProperties
<1>2. p \in Nat /\ p - 1 \in Nat /\ p - 1 <= Len(c)
  BY <1>1
<1>3. Encl(c, p) \in SUBSET (1..p - 1) /\ Encl(c, p) \in SUBSET (0..p - 1)
  BY <1>2 DEF Encl
<1>4. \A j \in Encl(c, p) : j \in DOMAIN c /\ j \in 1..Len(c) /\ c[j].op \in Nesting
  BY <1>1, <1>2, <1>3 DEF Encl
<1>5. ASSUME Encl(c, p) # {}
      PROVE  /\ Inmost(c, p) \in Encl(c, p)
             /\ \A j \in Encl(c, p) : j <= Inmost(c, p)
  BY <1>2, <1>3, <1>5, MaxIs DEF Inmost
<1> QED BY <1>1, <1>2, <1>3, <1>4, <1>5

\* What is around a place does not depend on what follows.
LEMMA EnclAppend ==
  ASSUME NEW c \in Seq(NodeType), NEW x \in NodeType, NEW p \in 1..Len(c) + 1
  PROVE  /\ Encl(Append(c, x), p) = Encl(c, p)
         /\ Inmost(Append(c, x), p) = Inmost(c, p)
         /\ Scope(Append(c, x), p) = Scope(c, p)
<1> DEFINE d == Append(c, x)
<1>1. Len(c) \in Nat /\ \A i \in 1..Len(c) : d[i] = c[i]
  BY Appended
<1>2. p \in Nat /\ \A i \in 1..p - 1 : i \in 1..Len(c)
  BY <1>1
<1> HIDE DEF d
<1>3. \A j : Closed(d, j, p) <=> Closed(c, j, p)
  BY <1>1, <1>2 DEF Closed
<1>4. Encl(d, p) = Encl(c, p)
  BY <1>1, <1>2, <1>3 DEF Encl
<1>5. Inmost(d, p) = Inmost(c, p)
  BY <1>4 DEF Inmost
<1>6. ASSUME Encl(c, p) # {}
      PROVE  d[Inmost(c, p)] = c[Inmost(c, p)]
  BY <1>1, <1>6, EnclIs
<1>7. Scope(d, p) = Scope(c, p)
  BY <1>4, <1>5, <1>6 DEF Scope, ScopeAt
<1> QED BY <1>4, <1>5, <1>7 DEF d

\* Nor does what is declared in a scope, or what a name means.
LEMMA TextAppend ==
  ASSUME NEW c \in Seq(NodeType), NEW x \in NodeType
  PROVE  /\ \A s : s[2] \in 1..Len(c) => Outer(Append(c, x), s) = Outer(c, s)
         /\ \A s, n : \A p \in 1..Len(c) + 1 :
              s[2] \in 1..Len(c) => (DeclaredIn(Append(c, x), s, n, p) <=> DeclaredIn(c, s, n, p))
         /\ \A n : \A p \in 1..Len(c) + 1 : Lexical(Append(c, x), n, p) = Lexical(c, n, p)
         /\ \A p \in 1..Len(c) : UsesOf(Append(c, x), p) = UsesOf(c, p)
         /\ \A p \in 1..Len(c) : Fits(Append(c, x), p) <=> Fits(c, p)
         /\ \A p \in 1..Len(c) + 1 : TopReturn(Append(c, x), p) = TopReturn(c, p)
<1> DEFINE d == Append(c, x)
<1>1. Len(c) \in Nat /\ \A i \in 1..Len(c) : d[i] = c[i]
  BY Appended
<1>2. \A p \in 1..Len(c) + 1 :
        /\ Encl(d, p) = Encl(c, p) /\ Inmost(d, p) = Inmost(c, p) /\ Scope(d, p) = Scope(c, p)
        /\ p \in Nat /\ \A i \in Encl(c, p) : i \in 1..Len(c)
        /\ Encl(c, p) # {} => Inmost(c, p) \in 1..Len(c)
  BY EnclAppend, EnclIs
<1>0. \A p \in 1..Len(c) : p \in 1..Len(c) + 1
  BY <1>1
<1> HIDE DEF d
<1>3. ASSUME NEW s, s[2] \in 1..Len(c)
      PROVE  Outer(d, s) = Outer(c, s)
  BY <1>0, <1>1, <1>2, <1>3 DEF Outer
<1>4. ASSUME NEW s, NEW n, NEW p \in 1..Len(c) + 1, s[2] \in 1..Len(c)
      PROVE  DeclaredIn(d, s, n, p) <=> DeclaredIn(c, s, n, p)
  <2>1. \A j \in s[2] + 1..p - 1 : d[j] = c[j] /\ Inmost(d, j) = Inmost(c, j)
    <3> TAKE j \in s[2] + 1..p - 1
    <3>1. j \in 1..Len(c)
      BY <1>1, <1>4
    <3> QED BY <1>0, <1>1, <1>2, <3>1
  <2> QED BY <1>1, <1>4, <2>1 DEF DeclaredIn
<1>5. ASSUME NEW i, NEW n, NEW p \in 1..Len(c) + 1, i \in 1..Len(c)
      PROVE  Binds(d, i, n, p) <=> Binds(c, i, n, p)
  <2>1. DeclaredIn(d, <<"body", i>>, n, p) <=> DeclaredIn(c, <<"body", i>>, n, p)
    BY <1>4, <1>5
  <2> QED BY <1>1, <1>5, <2>1 DEF Binds
<1>6. ASSUME NEW n, NEW p \in 1..Len(c) + 1
      PROVE  Lexical(d, n, p) = Lexical(c, n, p)
  <2>1. {i \in Encl(d, p) : Binds(d, i, n, p)} = {i \in Encl(c, p) : Binds(c, i, n, p)}
    BY <1>2, <1>5
  <2> QED BY <2>1 DEF Lexical
<1>7. ASSUME NEW p \in 1..Len(c)
      PROVE  UsesOf(d, p) = UsesOf(c, p)
  BY <1>1 DEF UsesOf
<1>8. ASSUME NEW p \in 1..Len(c)
      PROVE  Fits(d, p) <=> Fits(c, p)
  BY <1>0, <1>1, <1>2 DEF Fits
<1>9. ASSUME NEW p \in 1..Len(c) + 1
      PROVE  TopReturn(d, p) = TopReturn(c, p)
  BY <1>1, <1>2 DEF TopReturn, Width
<1> QED BY <1>3, <1>4, <1>6, <1>7, <1>8, <1>9 DEF d

\* One node on: a node that holds others is entered, an end leaves the inmost.
LEMMA EnclNext ==
  ASSUME NEW c, WellFormed(c), NEW p \in 1..Len(c)
  PROVE  Encl(c, p + 1) = {j \in Encl(c, p) : ~(c[p].op = "end" /\ c[p].at = j)}
                          \cup (IF c[p].op \in Nesting THEN {p} ELSE {})
<1>1. /\ c \in Seq(NodeType) /\ Len(c) \in Nat /\ p \in Nat /\ p <= Len(c)
      /\ \A e \in 1..Len(c) : e \in DOMAIN c /\ e \in 1..Len(c) + 1
  BY LenProperties DEF WellFormed
<1>2. \A e \in 1..p : c[e].op = "end" => c[e].at < e
  <2> TAKE e \in 1..p
  <2> HAVE c[e].op = "end"
  <2>1. e \in DOMAIN c /\ e \in 1..Len(c) + 1 /\ e \in Nat
    BY <1>1
  <2>2. Encl(c, e) # {} /\ c[e].at = Inmost(c, e)
    BY <2>1 DEF WellFormed, Fits
  <2>3. Inmost(c, e) \in 1..e - 1
    BY <1>1, <2>1, <2>2, EnclIs
  <2> QED BY <2>1, <2>2, <2>3
<1>3. \A j : Closed(c, j, p + 1) <=> Closed(c, j, p) \/ (c[p].op = "end" /\ c[p].at = j)
  BY <1>1 DEF Closed
<1>4. ~Closed(c, p, p + 1)
  <2> SUFFICES ASSUME NEW e \in 1..p, c[e].op = "end", c[e].at = p
               PROVE  FALSE
    BY <1>1 DEF Closed
  <2> QED BY <1>1, <1>2
<1>5. \A j : j \in 1..p <=> j \in 1..p - 1 \/ j = p
  BY <1>1
<1>6. \A j : j \in Encl(c, p + 1) <=> j \in 1..p /\ c[j].op \in Nesting /\ ~Closed(c, j, p + 1)
  BY <1>1 DEF Encl
<1>7. \A j : j \in Encl(c, p) <=> j \in 1..p - 1 /\ c[j].op \in Nesting /\ ~Closed(c, j, p)
  BY <1>1 DEF Encl
<1> QED BY <1>3, <1>4, <1>5, <1>6, <1>7

\* The nodes around one that is around p.
LEMMA EnclInside ==
  ASSUME NEW c, WellFormed(c), NEW p \in 1..Len(c) + 1, NEW j \in Encl(c, p)
  PROVE  Encl(c, j) = {k \in Encl(c, p) : k < j}
<1>1. /\ c \in Seq(NodeType) /\ Len(c) \in Nat /\ p \in Nat
      /\ \A e \in 1..Len(c) : e \in DOMAIN c /\ e \in 1..Len(c) + 1
  BY LenProperties DEF WellFormed
<1>2. j \in 1..p - 1 /\ j \in Nat /\ c[j].op \in Nesting /\ ~Closed(c, j, p)
  BY <1>1 DEF Encl
<1>3. c[j].op # "end"
  BY <1>2 DEF Nesting, Bodies
<1>4. ASSUME NEW k \in Encl(c, p), k < j
      PROVE  k \in Encl(c, j)
  BY <1>1, <1>2, <1>4 DEF Encl, Closed
<1>5. ASSUME NEW k \in Encl(c, j)
      PROVE  k \in Encl(c, p) /\ k < j
  <2>1. k \in 1..j - 1 /\ k \in Nat /\ c[k].op \in Nesting /\ ~Closed(c, k, j)
    BY <1>2 DEF Encl
  <2>2. k < j /\ k \in 1..p - 1
    BY <1>1, <1>2, <2>1
  <2>3. ASSUME Closed(c, k, p)
        PROVE  FALSE
    <3>1. PICK e \in 1..p - 1 : c[e].op = "end" /\ c[e].at = k
      BY <2>3 DEF Closed
    <3>2. e \in Nat /\ e > j /\ e \in 1..Len(c)
      BY <1>1, <1>2, <1>3, <2>1, <3>1 DEF Closed
    <3>3. j \in Encl(c, e)
      BY <1>1, <1>2, <3>2 DEF Encl, Closed
    <3>4. Encl(c, e) # {} /\ k = Inmost(c, e)
      BY <1>1, <3>1, <3>2 DEF WellFormed, Fits
    <3>5. j <= k
      BY <1>1, <3>2, <3>3, <3>4, EnclIs
    <3> QED BY <1>2, <2>1, <2>2, <3>5
  <2> QED BY <2>1, <2>2, <2>3 DEF Encl
<1> QED BY <1>4, <1>5

\* Around a place are the inmost node and what is around that.
LEMMA EnclInmost ==
  ASSUME NEW c, WellFormed(c), NEW p \in 1..Len(c) + 1, Encl(c, p) # {}
  PROVE  /\ Encl(c, p) = Encl(c, Inmost(c, p)) \cup {Inmost(c, p)}
         /\ Inmost(c, p) \in Encl(c, p) /\ Inmost(c, p) \in 1..p - 1 /\ Inmost(c, p) \in 1..Len(c)
         /\ Inmost(c, p) \notin Encl(c, Inmost(c, p))
<1>1. c \in Seq(NodeType)
  BY DEF WellFormed
<1>2. /\ Encl(c, p) \in SUBSET (1..p - 1) /\ p \in Nat /\ Inmost(c, p) \in Encl(c, p)
      /\ Inmost(c, p) \in 1..Len(c)
      /\ \A j \in Encl(c, p) : j <= Inmost(c, p)
  BY <1>1, EnclIs
<1>3. Encl(c, Inmost(c, p)) = {k \in Encl(c, p) : k < Inmost(c, p)}
  BY <1>2, EnclInside
<1>4. \A k \in Encl(c, p) : k < Inmost(c, p) \/ k = Inmost(c, p)
  BY <1>2
<1>5. ~(Inmost(c, p) < Inmost(c, p))
  BY <1>2
<1> QED BY <1>2, <1>3, <1>4, <1>5

\* The scope outside a place's is that of the node it lies in.
LEMMA EnclBetween ==
  ASSUME NEW c \in Seq(NodeType), NEW p \in 1..Len(c) + 1, NEW j \in Encl(c, p), NEW q \in j + 1..p
  PROVE  j \in Encl(c, q)
<1>1. Len(c) \in Nat /\ p \in Nat /\ j \in 1..p - 1 /\ q \in Nat
  BY LenProperties DEF Encl
<1> QED BY <1>1 DEF Encl, Closed

\* An end leaves what it closes.
LEMMA AtEnd ==
  ASSUME NEW c, WellFormed(c), NEW e \in 1..Len(c), c[e].op = "end"
  PROVE  /\ Encl(c, e) # {} /\ c[e].at = Inmost(c, e) /\ c[e].at \in Encl(c, e)
         /\ c[e].at \in 1..e - 1 /\ c[e].at \in 1..Len(c)
         /\ Encl(c, e) = Encl(c, c[e].at) \cup {c[e].at}
         /\ Encl(c, e + 1) = Encl(c, c[e].at)
<1>1. c \in Seq(NodeType) /\ e \in DOMAIN c /\ e \in 1..Len(c) + 1
  BY LenProperties DEF WellFormed
<1>2. Encl(c, e) # {} /\ c[e].at = Inmost(c, e)
  BY <1>1 DEF WellFormed, Fits
<1>3. /\ Encl(c, e) = Encl(c, c[e].at) \cup {c[e].at} /\ c[e].at \in Encl(c, e)
      /\ c[e].at \in 1..e - 1 /\ c[e].at \in 1..Len(c) /\ c[e].at \notin Encl(c, c[e].at)
  BY <1>1, <1>2, EnclInmost
<1>4. Encl(c, e + 1) = {j \in Encl(c, e) : ~(c[e].op = "end" /\ c[e].at = j)}
                       \cup (IF c[e].op \in Nesting THEN {e} ELSE {})
  BY EnclNext
<1>5. c[e].op \notin Nesting
  BY DEF Nesting, Bodies
<1> QED BY <1>2, <1>3, <1>4, <1>5

\* No node is closed twice.
LEMMA EndsOnce ==
  ASSUME NEW c, WellFormed(c), NEW e \in 1..Len(c), NEW f \in 1..Len(c),
         c[e].op = "end", c[f].op = "end", c[e].at = c[f].at
  PROVE  e = f
<1>1. c[e].at \in Encl(c, e) /\ c[f].at \in Encl(c, f)
  BY AtEnd
<1>2. Len(c) \in Nat /\ e \in Nat /\ f \in Nat
  BY LenProperties DEF WellFormed
<1>3. ~(e \in 1..f - 1) /\ ~(f \in 1..e - 1)
  BY <1>1 DEF Encl, Closed
<1> QED BY <1>2, <1>3

-----------------------------------------------------------------------------
(* What is open.                                                           *)

\* The stack open with nothing but marks added.
Alike(o, q) ==
  /\ q \in Seq(OpenType) /\ Len(q) = Len(o)
  /\ \A i \in 1..Len(o) : /\ q[i].op = o[i].op /\ q[i].name = o[i].name /\ q[i].at = o[i].at
                          /\ o[i].warned => q[i].warned

\* _resolve_statements marks the innermost.
LEMMA StartedIs ==
  ASSUME open \in Seq(OpenType)
  PROVE  Alike(open, Started) /\ (Dead => Started # <<>> /\ Last(Started).warned)
<1>1. CASE ~Dead
  BY <1>1 DEF Alike, Started
<1>2. CASE Dead
  <2>1. open # <<>> /\ Len(open) \in 1..Len(open) /\ Len(open) \in Nat
    BY <1>2, EmptySeq DEF Dead
  <2> DEFINE e == [open[Len(open)] EXCEPT !.warned = TRUE]
  <2>2. open[Len(open)] \in OpenType
    BY <2>1, ElementOfSeq
  <2>3. e \in OpenType /\ e.op = open[Len(open)].op /\ e.name = open[Len(open)].name
        /\ e.at = open[Len(open)].at /\ e.warned = TRUE
    BY <2>2 DEF OpenType
  <2>4. Started = [open EXCEPT ![Len(open)] = e]
    BY <1>2 DEF Started
  <2> HIDE DEF e
  <2>5. /\ Started \in Seq(OpenType) /\ Len(Started) = Len(open)
        /\ \A j \in 1..Len(open) : Started[j] = IF j = Len(open) THEN e ELSE open[j]
    BY <2>1, <2>3, <2>4, ExceptSeq
  <2>6. Last(Started) = e /\ Started # <<>>
    BY <2>1, <2>5, EmptySeq DEF Last
  <2> QED BY <2>3, <2>5, <2>6 DEF Alike
<1> QED BY <1>1, <1>2

\* Marks do not change where the nodes are.
LEMMA AlikeHolds ==
  ASSUME NEW o \in Seq(OpenType), NEW q, Alike(o, q), NEW k \in 0..Len(o)
  PROVE  OpenHolds(q, k) = OpenHolds(o, k)
<1>1. Len(o) \in Nat /\ \A i \in 1..k : q[i].op = o[i].op /\ q[i].at = o[i].at
  BY LenProperties DEF Alike
<1> QED BY <1>1 DEF OpenHolds

\* The inmost node is the one opened last, a variable in its initializer apart; a
\* variable lies directly in a list of statements.
LEMMA InnerIs ==
  ASSUME NEW c, WellFormed(c), NEW o \in Seq(OpenType), Linked(c, o)
  PROVE  /\ o = <<>> => Encl(c, Len(c) + 1) = {}
         /\ o # <<>> /\ Last(o).op # "var" =>
              /\ Encl(c, Len(c) + 1) # {} /\ Inmost(c, Len(c) + 1) = Last(o).at
              /\ c[Last(o).at].op = Last(o).op
         /\ o # <<>> /\ Last(o).op = "var" =>
              /\ Encl(c, Len(c) + 1) = Encl(c, Last(o).at) /\ c[Last(o).at].op = "var"
              /\ Encl(c, Len(c) + 1) # {} => c[Inmost(c, Len(c) + 1)].op # "class"
<1>1. /\ c \in Seq(NodeType) /\ Len(c) \in Nat /\ Len(o) \in Nat /\ DOMAIN o = 1..Len(o)
      /\ DOMAIN c = 1..Len(c) /\ Len(c) + 1 \in 1..Len(c) + 1
      /\ \A i \in 1..Len(o) : o[i] \in OpenType /\ o[i].at \in Nat
  <2>1. c \in Seq(NodeType) /\ Len(c) \in Nat /\ DOMAIN c = 1..Len(c)
    BY LenProperties DEF WellFormed
  <2>2. Len(o) \in Nat /\ DOMAIN o = 1..Len(o) /\ \A i \in 1..Len(o) : o[i] \in OpenType
    BY LenProperties, ElementOfSeq
  <2>3. \A r \in OpenType : r.at \in Nat
    BY DEF OpenType
  <2> QED BY <2>1, <2>2, <2>3
<1>2. Encl(c, Len(c) + 1) = OpenHolds(o, Len(o))
  BY DEF Linked
<1>3. /\ \A i \in 1..Len(o) : \A k \in 1..i - 1 : o[k].at < o[i].at
      /\ \A i \in 1..Len(o) : /\ c[o[i].at].op = o[i].op /\ Encl(c, o[i].at) = OpenHolds(o, i - 1)
                              /\ o[i].op = "var" /\ i > 1 => o[i - 1].op \notin {"var", "class"}
  BY <1>1 DEF Linked
<1>4. CASE o = <<>>
  <2>1. Len(o) = 0
    BY <1>4
  <2>2. OpenHolds(o, Len(o)) = {}
    BY <2>1 DEF OpenHolds
  <2> QED BY <1>2, <1>4, <2>2
<1>5. ASSUME NEW k \in 1..Len(o), o[k].op # "var"
      PROVE  o[k].at \in OpenHolds(o, k) /\ \A j \in OpenHolds(o, k) : j <= o[k].at
  <2>1. k \in Nat /\ \A i \in 1..k : i \in 1..Len(o) /\ (i = k \/ i \in 1..k - 1)
    BY <1>1
  <2>2. \A i \in 1..k : o[i].at <= o[k].at
    BY <1>1, <1>3, <2>1
  <2> QED BY <1>5, <2>1, <2>2 DEF OpenHolds
<1>6. ASSUME NEW j \in Encl(c, Len(c) + 1), \A i \in Encl(c, Len(c) + 1) : i <= j
      PROVE  Encl(c, Len(c) + 1) # {} /\ Inmost(c, Len(c) + 1) = j
  <2>1. Inmost(c, Len(c) + 1) \in Encl(c, Len(c) + 1) /\ j <= Inmost(c, Len(c) + 1)
    BY <1>1, EnclIs
  <2>2. Inmost(c, Len(c) + 1) <= j /\ Inmost(c, Len(c) + 1) \in Nat /\ j \in Nat
    BY <1>1, <1>6, <2>1, EnclIs
  <2> QED BY <2>1, <2>2
<1>7. ASSUME o # <<>>
      PROVE  Len(o) \in 1..Len(o) /\ Last(o) = o[Len(o)]
  BY <1>1, <1>7, EmptySeq DEF Last
<1>8. ASSUME o # <<>>, Last(o).op # "var"
      PROVE  /\ Encl(c, Len(c) + 1) # {} /\ Inmost(c, Len(c) + 1) = Last(o).at
             /\ c[Last(o).at].op = Last(o).op
  BY <1>2, <1>3, <1>5, <1>6, <1>7, <1>8
<1>9. ASSUME o # <<>>, Last(o).op = "var"
      PROVE  /\ Encl(c, Len(c) + 1) = Encl(c, Last(o).at) /\ c[Last(o).at].op = "var"
             /\ Encl(c, Len(c) + 1) # {} => c[Inmost(c, Len(c) + 1)].op # "class"
  <2> DEFINE n == Len(o)
  <2>1. n \in 1..n /\ Last(o) = o[n] /\ n \in Nat
    BY <1>1, <1>7, <1>9
  <2>2. \A i \in 1..n : i = n \/ i \in 1..n - 1
    BY <2>1
  <2>3. \A i \in 1..n - 1 : i \in 1..n
    BY <2>1
  <2>4. OpenHolds(o, n) = OpenHolds(o, n - 1)
    BY <1>9, <2>1, <2>2, <2>3 DEF OpenHolds
  <2>5. ASSUME Encl(c, Len(c) + 1) # {}
        PROVE  c[Inmost(c, Len(c) + 1)].op # "class"
    <3>1. n - 1 # 0
      <4>1. OpenHolds(o, 0) = {}
        BY DEF OpenHolds
      <4> QED BY <1>2, <2>4, <2>5, <4>1
    <3>2. n > 1 /\ n - 1 \in 1..n
      <4> HIDE DEF n
      <4> QED BY <2>1, <3>1
    <3>3. o[n - 1].op \notin {"var", "class"}
      BY <1>3, <1>9, <2>1, <3>2
    <3>4. o[n - 1].at \in OpenHolds(o, n - 1) /\ \A j \in OpenHolds(o, n - 1) : j <= o[n - 1].at
      BY <1>5, <3>2, <3>3
    <3>5. Inmost(c, Len(c) + 1) = o[n - 1].at
      BY <1>2, <1>6, <2>4, <3>4
    <3> QED BY <1>3, <3>2, <3>3, <3>5
  <2> QED BY <1>2, <1>3, <1>9, <2>1, <2>4, <2>5
<1> QED BY <1>4, <1>8, <1>9

-----------------------------------------------------------------------------
(* One node more.                                                          *)

\* What Fits asks of the next node.
Suits(c, x) ==
  LET p == Len(c) + 1 IN
  /\ x.op = "end" => Encl(c, p) # {} /\ x.at = Inmost(c, p)
  /\ x.op \notin {"end", "method", "getter"} /\ Encl(c, p) # {} => c[Inmost(c, p)].op # "class"
  /\ x.op \in {"method", "getter"} => Encl(c, p) # {} /\ c[Inmost(c, p)].op = "class"
  /\ x.op \in {"var", "define", "fun", "class", "variable", "assign"} => x.name \in Name
  /\ x.op = "this" => x.name = "this"
  /\ x.op \in Bodies \cup {"class"} => x.arg \subseteq Name

\* A text stays well formed with such a node.
LEMMA WellFormedNext ==
  ASSUME NEW c, WellFormed(c), NEW x \in NodeType, Suits(c, x)
  PROVE  WellFormed(Append(c, x))
<1> DEFINE d == Append(c, x)
           p == Len(c) + 1
<1>1. c \in Seq(NodeType) /\ \A q \in DOMAIN c : Fits(c, q)
  BY DEF WellFormed
<1>2. /\ d \in Seq(NodeType) /\ DOMAIN c = 1..Len(c) /\ Len(c) \in Nat
      /\ DOMAIN d = 1..Len(c) + 1 /\ \A i \in 1..Len(c) : d[i] = c[i]
      /\ d[Len(c) + 1] = x
  BY <1>1, Appended
<1>3. p \in 1..Len(c) + 1 /\ \A q \in 1..Len(c) + 1 : q \in 1..Len(c) \/ q = p
  BY <1>2
<1>4. Encl(d, p) = Encl(c, p) /\ Inmost(d, p) = Inmost(c, p)
  BY <1>1, <1>3, EnclAppend
<1>5. Encl(c, p) # {} => Inmost(c, p) \in 1..Len(c)
  BY <1>1, <1>3, EnclIs
<1>6. d[p] = x
  BY <1>2
<1>7. \A q \in 1..Len(c) : Fits(d, q)
  BY <1>1, <1>2, TextAppend
<1> HIDE DEF d, p
<1>8. Fits(d, p)
  <2>1. p = Len(c) + 1
    BY DEF p
  <2> QED BY <1>2, <1>4, <1>5, <1>6, <2>1 DEF Fits, Suits
<1>9. WellFormed(d)
  BY <1>2, <1>3, <1>7, <1>8 DEF WellFormed
<1> QED BY <1>9 DEF d

\* The text with that node, and what is around the next.
LEMMA StepIs ==
  ASSUME NEW c, WellFormed(c), NEW x \in NodeType, WellFormed(Append(c, x))
  PROVE  LET d == Append(c, x)
             p == Len(c) + 1
         IN
         /\ c \in Seq(NodeType) /\ d \in Seq(NodeType) /\ Len(c) \in Nat /\ p \in 1..Len(c) + 1
         /\ DOMAIN c = 1..Len(c) /\ DOMAIN d = 1..p /\ Len(d) = p
         /\ \A i \in 1..Len(c) : d[i] = c[i]
         /\ d[p] = x
         /\ \A q \in 1..p : Encl(d, q) = Encl(c, q)
         /\ p \notin Encl(c, p)
         /\ x.op \notin Nesting \cup {"end"} => Encl(d, p + 1) = Encl(c, p)
         /\ x.op \in Nesting => Encl(d, p + 1) = Encl(c, p) \cup {p}
         /\ x.op = "end" => /\ Encl(c, p) # {} /\ x.at = Inmost(c, p) /\ x.at \in 1..Len(c)
                            /\ Encl(c, p) = Encl(c, x.at) \cup {x.at} /\ x.at \notin Encl(c, x.at)
                            /\ Encl(d, p + 1) = Encl(c, x.at)
<1> DEFINE d == Append(c, x)
           p == Len(c) + 1
<1>1. c \in Seq(NodeType)
  BY DEF WellFormed
<1>2. /\ d \in Seq(NodeType) /\ DOMAIN c = 1..Len(c) /\ Len(c) \in Nat /\ Len(d) = Len(c) + 1
      /\ DOMAIN d = 1..Len(c) + 1 /\ \A i \in 1..Len(c) : d[i] = c[i]
      /\ d[Len(c) + 1] = x
  BY <1>1, Appended
<1>3. p \in 1..Len(c) + 1 /\ p \in 1..Len(d) /\ d[p] = x
  BY <1>2
<1>4. \A q \in 1..p : Encl(d, q) = Encl(c, q) /\ Inmost(d, q) = Inmost(c, q)
  BY <1>1, EnclAppend
<1>5. Encl(d, p + 1) = {j \in Encl(d, p) : ~(d[p].op = "end" /\ d[p].at = j)}
                       \cup (IF d[p].op \in Nesting THEN {p} ELSE {})
  BY <1>3, EnclNext, ZenonT(30)
<1>6. p \notin Encl(c, p)
  <2>1. Encl(c, p) \in SUBSET (1..p - 1) /\ p \in Nat
    BY <1>1, <1>3, EnclIs
  <2> QED BY <2>1
<1>7. p \in 1..p
  BY <1>2
<1>8. Encl(d, p) = Encl(c, p) /\ Inmost(d, p) = Inmost(c, p)
  BY <1>4, <1>7
<1>9. ASSUME x.op = "end"
      PROVE  /\ Encl(c, p) # {} /\ x.at = Inmost(c, p) /\ x.at \in 1..Len(c)
             /\ Encl(c, p) = Encl(c, x.at) \cup {x.at} /\ x.at \notin Encl(c, x.at)
             /\ Encl(d, p + 1) = Encl(c, x.at)
  <2>1. /\ Encl(d, p) # {} /\ x.at = Inmost(d, p) /\ x.at \in 1..p - 1
        /\ Encl(d, p) = Encl(d, x.at) \cup {x.at} /\ Encl(d, p + 1) = Encl(d, x.at)
    <3>1. WellFormed(d) /\ d[p].op = "end" /\ d[p].at = x.at
      BY <1>3, <1>9
    <3> HIDE DEF d, p
    <3> QED BY <1>3, <3>1, AtEnd
  <2>2. x.at \in 1..p /\ x.at \in 1..Len(c) /\ x.at \in 1..Len(c) + 1
    BY <1>2, <2>1
  <2>3. Encl(d, x.at) = Encl(c, x.at)
    BY <1>4, <2>2
  <2>4. x.at \notin Encl(c, x.at)
    <3>1. Encl(c, x.at) \in SUBSET (1..x.at - 1) /\ x.at \in Nat
      BY <1>1, <2>2, EnclIs
    <3> QED BY <3>1
  <2> QED BY <1>8, <2>1, <2>2, <2>3, <2>4
<1>10. x.op \notin Nesting \cup {"end"} => Encl(d, p + 1) = Encl(c, p)
  BY <1>3, <1>5, <1>8
<1>11. x.op \in Nesting => Encl(d, p + 1) = Encl(c, p) \cup {p}
  <2> HAVE x.op \in Nesting
  <2>1. x.op # "end"
    BY DEF Nesting, Bodies
  <2> QED BY <1>3, <1>5, <1>8, <2>1
<1> QED BY <1>1, <1>2, <1>3, <1>4, <1>6, <1>9, <1>10, <1>11

\* A leaf leaves open what was.
LEMMA LinkedLeaf ==
  ASSUME NEW c, WellFormed(c), NEW x \in NodeType, WellFormed(Append(c, x)),
         NEW o \in Seq(OpenType), Linked(c, o), NEW q, Alike(o, q), x.op \in Leaves
  PROVE  Linked(Append(c, x), q)
<1> DEFINE d == Append(c, x)
           p == Len(c) + 1
<1>1. x.op \notin Nesting \cup {"end"} /\ x.op # "var"
  BY DEF Nesting, Bodies, Leaves
<1>2. /\ Len(c) \in Nat /\ DOMAIN c = 1..Len(c) /\ DOMAIN d = 1..p /\ Len(d) = p
      /\ \A i \in 1..Len(c) : d[i] = c[i] /\ i \in 1..p
      /\ d[p] = x /\ \A i \in 1..p : i = p \/ i \in 1..Len(c)
      /\ \A i \in 1..p : Encl(d, i) = Encl(c, i)
      /\ Encl(d, p + 1) = Encl(c, p)
  <2>1. /\ Len(c) \in Nat /\ DOMAIN c = 1..Len(c) /\ DOMAIN d = 1..p /\ Len(d) = p
        /\ \A i \in 1..Len(c) : d[i] = c[i]
        /\ d[p] = x
        /\ \A i \in 1..p : Encl(d, i) = Encl(c, i)
        /\ Encl(d, p + 1) = Encl(c, p)
    BY <1>1, StepIs
  <2> QED BY <2>1
<1>3. /\ Len(o) \in Nat /\ DOMAIN o = 1..Len(o) /\ DOMAIN q = 1..Len(o) /\ Len(q) = Len(o)
      /\ \A i \in 1..Len(o) : q[i].op = o[i].op /\ q[i].name = o[i].name /\ q[i].at = o[i].at
      /\ \A k \in 0..Len(o) : OpenHolds(q, k) = OpenHolds(o, k)
  BY LenProperties, AlikeHolds DEF Alike
<1> HIDE DEF d, p
<1>4. ASSUME NEW i \in DOMAIN q
      PROVE  /\ q[i].at \in DOMAIN d /\ d[q[i].at].op = q[i].op /\ d[q[i].at].name = q[i].name
             /\ Encl(d, q[i].at) = OpenHolds(q, i - 1)
             /\ q[i].op = "var" /\ i > 1 => q[i - 1].op \notin {"var", "class"}
             /\ \A k \in 1..i - 1 : q[k].at < q[i].at
  <2>1. /\ o[i].at \in DOMAIN c /\ c[o[i].at].op = o[i].op /\ c[o[i].at].name = o[i].name
        /\ Encl(c, o[i].at) = OpenHolds(o, i - 1)
        /\ o[i].op = "var" /\ i > 1 => o[i - 1].op \notin {"var", "class"}
        /\ \A k \in 1..i - 1 : o[k].at < o[i].at
    BY <1>3, <1>4 DEF Linked
  <2>2. i \in Nat /\ i - 1 \in 0..Len(o) /\ (i > 1 => i - 1 \in 1..Len(o))
        /\ \A k \in 1..i - 1 : k \in 1..Len(o)
    BY <1>3, <1>4
  <2> QED BY <1>2, <1>3, <1>4, <2>1, <2>2
<1>5. Encl(d, Len(d) + 1) = OpenHolds(q, Len(q))
  <2>1. Len(o) \in 0..Len(o) /\ Encl(c, p) = OpenHolds(o, Len(o))
    BY <1>3 DEF Linked, p
  <2> QED BY <1>2, <1>3, <2>1
<1>6. ASSUME NEW v \in DOMAIN d, d[v].op = "var"
      PROVE  \/ \E i \in DOMAIN q : q[i].at = v
             \/ \E e \in v + 1..Len(d) : /\ d[e].op = "define" /\ d[e].at = v
                                         /\ d[e].name = d[v].name /\ Encl(d, e) = Encl(d, v)
  <2>1. v \in 1..Len(c) /\ c[v].op = "var"
    BY <1>1, <1>2, <1>6
  <2>2. CASE \E i \in DOMAIN o : o[i].at = v
    BY <1>3, <2>2
  <2>3. ASSUME NEW e \in v + 1..Len(c), c[e].op = "define", c[e].at = v,
               c[e].name = c[v].name, Encl(c, e) = Encl(c, v)
        PROVE  \E f \in v + 1..Len(d) : /\ d[f].op = "define" /\ d[f].at = v
                                         /\ d[f].name = d[v].name /\ Encl(d, f) = Encl(d, v)
    <3>1. e \in 1..Len(c) /\ e \in v + 1..Len(d)
      BY <1>2, <2>1, <2>3 DEF p
    <3> QED BY <1>2, <2>1, <2>3, <3>1
  <2> QED BY <1>2, <2>1, <2>2, <2>3 DEF Linked
<1>7. Linked(d, q)
  BY <1>4, <1>5, <1>6 DEF Linked
<1> QED BY <1>7 DEF d

\* A node that holds others, or a variable before its initializer, is open next.
LEMMA LinkedOpen ==
  ASSUME NEW c, WellFormed(c), NEW x \in NodeType, WellFormed(Append(c, x)),
         NEW o \in Seq(OpenType), Linked(c, o), NEW q, Alike(o, q),
         x.op \in Nesting \cup {"var"}, x.op = "var" /\ o # <<>> => Last(o).op \notin {"var", "class"},
         NEW e \in OpenType, e.op = x.op, e.name = x.name, e.at = Len(c) + 1
  PROVE  Linked(Append(c, x), Append(q, e)) /\ Append(q, e) \in Seq(OpenType)
<1> DEFINE d == Append(c, x)
           p == Len(c) + 1
           r == Append(q, e)
           n == Len(o)
<1>1. x.op # "end" /\ "var" \notin Nesting
  BY DEF Nesting, Bodies
<1>2. /\ Len(c) \in Nat /\ DOMAIN c = 1..Len(c) /\ DOMAIN d = 1..p /\ Len(d) = p /\ p \in Nat
      /\ \A i \in 1..Len(c) : d[i] = c[i] /\ i \in 1..p /\ i < p
      /\ d[p] = x /\ \A i \in 1..p : i = p \/ i \in 1..Len(c)
      /\ \A i \in 1..p : Encl(d, i) = Encl(c, i)
      /\ x.op = "var" => Encl(d, p + 1) = Encl(c, p)
      /\ x.op # "var" => Encl(d, p + 1) = Encl(c, p) \cup {p}
  <2>1. /\ Len(c) \in Nat /\ DOMAIN c = 1..Len(c) /\ DOMAIN d = 1..p /\ Len(d) = p
        /\ \A i \in 1..Len(c) : d[i] = c[i]
        /\ d[p] = x
        /\ \A i \in 1..p : Encl(d, i) = Encl(c, i)
        /\ x.op = "var" => Encl(d, p + 1) = Encl(c, p)
        /\ x.op # "var" => Encl(d, p + 1) = Encl(c, p) \cup {p}
    BY <1>1, StepIs
  <2> QED BY <2>1
<1>3. /\ n \in Nat /\ DOMAIN o = 1..n /\ r \in Seq(OpenType) /\ Len(r) = n + 1 /\ DOMAIN r = 1..n + 1
      /\ \A i \in 1..n : r[i].op = o[i].op /\ r[i].name = o[i].name /\ r[i].at = o[i].at
      /\ r[n + 1] = e
  BY LenProperties, Appended DEF Alike
<1>4. o # <<>> => n # 0 /\ Last(o) = o[n]
  BY EmptySeq DEF Last
<1> HIDE DEF d, p, r, n
<1>5. \A k \in 0..n : OpenHolds(r, k) = OpenHolds(o, k)
  <2> TAKE k \in 0..n
  <2>1. \A i \in 1..k : i \in 1..n
    BY <1>3
  <2> QED BY <1>3, <2>1 DEF OpenHolds
<1>6. OpenHolds(r, n + 1) = OpenHolds(o, n) \cup (IF x.op = "var" THEN {} ELSE {p})
  <2>1. \A i : i \in 1..n + 1 <=> i \in 1..n \/ i = n + 1
    BY <1>3
  <2>2. r[n + 1].op = x.op /\ r[n + 1].at = p
    BY <1>3 DEF p
  <2> QED BY <1>3, <2>1, <2>2 DEF OpenHolds
<1>7. Encl(c, p) = OpenHolds(o, n)
  BY DEF Linked, p, n
<1>8. ASSUME NEW i \in DOMAIN r
      PROVE  /\ r[i].at \in DOMAIN d /\ d[r[i].at].op = r[i].op /\ d[r[i].at].name = r[i].name
             /\ Encl(d, r[i].at) = OpenHolds(r, i - 1)
             /\ r[i].op = "var" /\ i > 1 => r[i - 1].op \notin {"var", "class"}
             /\ \A k \in 1..i - 1 : r[k].at < r[i].at
  <2>1. CASE i \in 1..n
    <3>1. /\ o[i].at \in DOMAIN c /\ c[o[i].at].op = o[i].op /\ c[o[i].at].name = o[i].name
          /\ Encl(c, o[i].at) = OpenHolds(o, i - 1)
          /\ o[i].op = "var" /\ i > 1 => o[i - 1].op \notin {"var", "class"}
          /\ \A k \in 1..i - 1 : o[k].at < o[i].at
      BY <1>3, <2>1 DEF Linked
    <3>2. i \in Nat /\ i - 1 \in 0..n /\ (i > 1 => i - 1 \in 1..n) /\ \A k \in 1..i - 1 : k \in 1..n
      BY <1>3, <2>1
    <3> QED BY <1>2, <1>3, <1>5, <2>1, <3>1, <3>2
  <2>2. CASE i = n + 1
    <3>1. r[i] = e /\ r[i].at = p /\ r[i].op = x.op /\ r[i].name = x.name
      BY <1>3, <2>2 DEF p
    <3>2. i - 1 = n /\ n \in 0..n /\ p \in 1..p /\ (i > 1 => n \in 1..n)
      BY <1>2, <1>3, <2>2 DEF p
    <3>3. Encl(d, p) = OpenHolds(r, n)
      BY <1>2, <1>5, <1>7, <3>2
    <3>4. r[i].op = "var" /\ i > 1 => r[i - 1].op \notin {"var", "class"}
      <4> HAVE r[i].op = "var" /\ i > 1
      <4>1. o # <<>>
        BY <1>3, <2>2, EmptySeq DEF n
      <4> QED BY <1>3, <1>4, <3>1, <3>2, <4>1
    <3>5. ASSUME NEW k \in 1..i - 1
          PROVE  r[k].at < r[i].at
      <4>1. k \in 1..n /\ o[k].at \in 1..Len(c)
        BY <1>2, <1>3, <3>2, <3>5 DEF Linked
      <4> QED BY <1>2, <1>3, <3>1, <4>1
    <3> QED BY <1>2, <3>1, <3>2, <3>3, <3>4, <3>5
  <2> QED BY <1>3, <2>1, <2>2
<1>9. Encl(d, Len(d) + 1) = OpenHolds(r, Len(r))
  BY <1>2, <1>3, <1>6, <1>7
<1>10. ASSUME NEW v \in DOMAIN d, d[v].op = "var"
      PROVE  \/ \E i \in DOMAIN r : r[i].at = v
             \/ \E f \in v + 1..Len(d) : /\ d[f].op = "define" /\ d[f].at = v
                                         /\ d[f].name = d[v].name /\ Encl(d, f) = Encl(d, v)
  <2>1. CASE v = p
    <3>1. n + 1 \in DOMAIN r /\ r[n + 1].at = v
      BY <1>3, <2>1 DEF p
    <3> QED BY <3>1
  <2>2. CASE v \in 1..Len(c)
    <3>1. c[v].op = "var"
      BY <1>2, <1>10, <2>2
    <3>2. CASE \E i \in DOMAIN o : o[i].at = v
      <4>1. PICK i \in 1..n : o[i].at = v
        BY <1>3, <3>2
      <4>2. i \in DOMAIN r /\ r[i].at = v
        BY <1>3, <4>1
      <4> QED BY <4>2
    <3>3. ASSUME NEW f \in v + 1..Len(c), c[f].op = "define", c[f].at = v,
                 c[f].name = c[v].name, Encl(c, f) = Encl(c, v)
          PROVE  \E g \in v + 1..Len(d) : /\ d[g].op = "define" /\ d[g].at = v
                                           /\ d[g].name = d[v].name /\ Encl(d, g) = Encl(d, v)
      <4>1. f \in 1..Len(c) /\ f \in v + 1..Len(d)
        BY <1>2, <2>2, <3>3 DEF p
      <4> QED BY <1>2, <2>2, <3>3, <4>1
    <3> QED BY <1>2, <2>2, <3>1, <3>2, <3>3 DEF Linked
  <2> QED BY <1>2, <2>1, <2>2
<1>11. Linked(d, r)
  BY <1>8, <1>9, <1>10 DEF Linked
<1> QED BY <1>3, <1>11 DEF d, r

\* An end closes the inmost node, a definition the variable.
LEMMA LinkedClose ==
  ASSUME NEW c, WellFormed(c), NEW x \in NodeType, WellFormed(Append(c, x)),
         NEW o \in Seq(OpenType), Linked(c, o), o # <<>>, x.at = Last(o).at,
         \/ x.op = "end" /\ Last(o).op # "var"
         \/ x.op = "define" /\ Last(o).op = "var" /\ x.name = Last(o).name
  PROVE  Linked(Append(c, x), Front(o)) /\ Front(o) \in Seq(OpenType)
<1> DEFINE d == Append(c, x)
           p == Len(c) + 1
           r == Front(o)
           n == Len(o)
<1>1. x.op # "var" /\ "define" \notin Nesting
  BY DEF Nesting, Bodies
<1>2. /\ Len(c) \in Nat /\ DOMAIN c = 1..Len(c) /\ DOMAIN d = 1..p /\ Len(d) = p /\ p \in Nat
      /\ \A i \in 1..Len(c) : d[i] = c[i] /\ i \in 1..p /\ i < p
      /\ d[p] = x /\ \A i \in 1..p : i = p \/ i \in 1..Len(c)
      /\ \A i \in 1..p : Encl(d, i) = Encl(c, i)
      /\ x.op = "define" => Encl(d, p + 1) = Encl(c, p)
      /\ x.op = "end" => Encl(d, p + 1) = Encl(c, x.at)
  <2>1. /\ Len(c) \in Nat /\ DOMAIN c = 1..Len(c) /\ DOMAIN d = 1..p /\ Len(d) = p
        /\ \A i \in 1..Len(c) : d[i] = c[i]
        /\ d[p] = x
        /\ \A i \in 1..p : Encl(d, i) = Encl(c, i)
        /\ x.op = "define" => Encl(d, p + 1) = Encl(c, p)
        /\ x.op = "end" => Encl(d, p + 1) = Encl(c, x.at)
    BY <1>1, StepIs
  <2> QED BY <2>1
<1>3. /\ n \in Nat \ {0} /\ DOMAIN o = 1..n /\ r \in Seq(OpenType) /\ Len(r) = n - 1 /\ DOMAIN r = 1..n - 1
      /\ \A i \in 1..n - 1 : r[i] = o[i]
      /\ Last(o) = o[n]
  BY FrontIs
<1>4. Last(o).op = "var" => Encl(c, p) = Encl(c, Last(o).at)
  BY InnerIs
<1> HIDE DEF d, p, r, n
<1>5. n \in 1..n /\ (\A i \in 1..n : i = n \/ i \in 1..n - 1) /\ (\A i \in 1..n - 1 : i \in 1..n /\ i - 1 \in 0..n - 1)
  BY <1>3
<1>6. \A k \in 0..n - 1 : OpenHolds(r, k) = OpenHolds(o, k)
  <2> TAKE k \in 0..n - 1
  <2>1. \A i \in 1..k : i \in 1..n - 1
    BY <1>3
  <2> QED BY <1>3, <2>1 DEF OpenHolds
<1>7. Encl(c, x.at) = OpenHolds(o, n - 1) /\ x.at \in 1..Len(c)
  BY <1>2, <1>3, <1>5 DEF Linked
<1>8. ASSUME NEW i \in DOMAIN r
      PROVE  /\ r[i].at \in DOMAIN d /\ d[r[i].at].op = r[i].op /\ d[r[i].at].name = r[i].name
             /\ Encl(d, r[i].at) = OpenHolds(r, i - 1)
             /\ r[i].op = "var" /\ i > 1 => r[i - 1].op \notin {"var", "class"}
             /\ \A k \in 1..i - 1 : r[k].at < r[i].at
  <2>1. /\ o[i].at \in DOMAIN c /\ c[o[i].at].op = o[i].op /\ c[o[i].at].name = o[i].name
        /\ Encl(c, o[i].at) = OpenHolds(o, i - 1)
        /\ o[i].op = "var" /\ i > 1 => o[i - 1].op \notin {"var", "class"}
        /\ \A k \in 1..i - 1 : o[k].at < o[i].at
    BY <1>3, <1>5, <1>8 DEF Linked
  <2>2. i \in 1..n - 1 /\ i \in Nat /\ (i > 1 => i - 1 \in 1..n - 1) /\ \A k \in 1..i - 1 : k \in 1..n - 1
    BY <1>3, <1>8
  <2> QED BY <1>2, <1>3, <1>5, <1>6, <2>1, <2>2
<1>9. Encl(d, Len(d) + 1) = OpenHolds(r, Len(r))
  <2>1. n - 1 \in 0..n - 1
    BY <1>3
  <2> QED BY <1>2, <1>3, <1>4, <1>6, <1>7, <2>1
<1>10. ASSUME NEW v \in DOMAIN d, d[v].op = "var"
      PROVE  \/ \E i \in DOMAIN r : r[i].at = v
             \/ \E f \in v + 1..Len(d) : /\ d[f].op = "define" /\ d[f].at = v
                                         /\ d[f].name = d[v].name /\ Encl(d, f) = Encl(d, v)
  <2>1. v \in 1..Len(c) /\ c[v].op = "var"
    BY <1>1, <1>2, <1>10
  <2>2. ASSUME NEW i \in 1..n, o[i].at = v
        PROVE  \/ \E j \in DOMAIN r : r[j].at = v
               \/ \E f \in v + 1..Len(d) : /\ d[f].op = "define" /\ d[f].at = v
                                           /\ d[f].name = d[v].name /\ Encl(d, f) = Encl(d, v)
    <3>1. CASE i \in 1..n - 1
      BY <1>3, <2>2, <3>1
    <3>2. CASE i = n
      <4>1. c[v].op = Last(o).op /\ c[v].name = Last(o).name /\ x.at = v
        BY <1>3, <2>2, <3>2 DEF Linked
      <4>2. x.op = "define" /\ x.name = c[v].name /\ Encl(c, p) = Encl(c, v)
        BY <1>4, <2>1, <4>1
      <4>3. p \in v + 1..Len(d) /\ p \in 1..p /\ v \in 1..p
        BY <1>2, <2>1
      <4> QED BY <1>2, <2>1, <4>1, <4>2, <4>3
    <3> QED BY <1>5, <3>1, <3>2
  <2>3. ASSUME NEW f \in v + 1..Len(c), c[f].op = "define", c[f].at = v,
               c[f].name = c[v].name, Encl(c, f) = Encl(c, v)
        PROVE  \E g \in v + 1..Len(d) : /\ d[g].op = "define" /\ d[g].at = v
                                         /\ d[g].name = d[v].name /\ Encl(d, g) = Encl(d, v)
    <3>1. f \in 1..Len(c) /\ f \in v + 1..Len(d)
      BY <1>2, <2>1, <2>3 DEF p
    <3> QED BY <1>2, <2>1, <2>3, <3>1
  <2> QED BY <1>2, <1>3, <2>1, <2>2, <2>3 DEF Linked
<1>11. Linked(d, r)
  BY <1>8, <1>9, <1>10 DEF Linked
<1> QED BY <1>3, <1>11 DEF d, r

-----------------------------------------------------------------------------
(* How many nodes are open.                                                *)

Tally(o, ops) == Cardinality({i \in DOMAIN o : o[i].op \in ops})

\* A set of places counted up to the last.
LEMMA CountLast ==
  ASSUME NEW n \in Nat, NEW T \in SUBSET (1..n + 1)
  PROVE  /\ Cardinality(T) = Cardinality(T \cap (1..n)) + (IF n + 1 \in T THEN 1 ELSE 0)
         /\ Cardinality(T \cap (1..n)) \in Nat /\ Cardinality(T \cap (1..n)) <= n
<1>1. IsFiniteSet(1..n) /\ Cardinality(1..n) = n
  BY FS_Interval
<1>2. IsFiniteSet(T \cap (1..n)) /\ Cardinality(T \cap (1..n)) <= n
  BY <1>1, FS_Subset
<1>3. Cardinality(T \cap (1..n)) \in Nat
  BY <1>2, FS_CardinalityType
<1>0. (\A i : i \in 1..n + 1 <=> i \in 1..n \/ i = n + 1) /\ n + 1 \notin 1..n
  OBVIOUS
<1>4. CASE n + 1 \in T
  <2>1. T = (T \cap (1..n)) \cup {n + 1} /\ n + 1 \notin T \cap (1..n)
    BY <1>0, <1>4
  <2>2. Cardinality((T \cap (1..n)) \cup {n + 1}) = Cardinality(T \cap (1..n)) + 1
    BY <1>2, <2>1, FS_AddElement
  <2> QED BY <1>2, <1>3, <1>4, <2>1, <2>2
<1>5. CASE n + 1 \notin T
  <2>1. T = T \cap (1..n)
    BY <1>0, <1>5
  <2> QED BY <1>2, <1>3, <1>5, <2>1
<1> QED BY <1>4, <1>5

\* Pushing a node and popping it.
LEMMA TallyAppend ==
  ASSUME NEW o \in Seq(OpenType), NEW q, Alike(o, q), NEW e \in OpenType, NEW ops
  PROVE  /\ Tally(q, ops) = Tally(o, ops)
         /\ Tally(Append(q, e), ops) = Tally(o, ops) + (IF e.op \in ops THEN 1 ELSE 0)
         /\ Tally(o, ops) \in Nat /\ Tally(o, ops) <= Len(o)
<1> DEFINE n == Len(o)
           r == Append(q, e)
           A == {i \in DOMAIN o : o[i].op \in ops}
           B == {i \in DOMAIN r : r[i].op \in ops}
           C == {i \in DOMAIN q : q[i].op \in ops}
<1>1. /\ n \in Nat /\ DOMAIN o = 1..n /\ DOMAIN r = 1..n + 1 /\ r[n + 1] = e
      /\ \A i \in 1..n : r[i].op = o[i].op
  BY LenProperties, Appended DEF Alike
<1>2. DOMAIN q = 1..n /\ \A i \in 1..n : q[i].op = o[i].op
  BY LenProperties DEF Alike
<1> HIDE DEF n, r
<1>3. C = A
  BY <1>1, <1>2
<1>4. A = B \cap (1..n) /\ B \in SUBSET (1..n + 1) /\ (n + 1 \in B <=> e.op \in ops)
  BY <1>1
<1> HIDE DEF A, B, C
<1>5. Cardinality(B) = Cardinality(A) + (IF n + 1 \in B THEN 1 ELSE 0) /\ Cardinality(A) \in Nat
      /\ Cardinality(A) <= n
  BY <1>1, <1>4, CountLast
<1>6. Cardinality(B) = Cardinality(A) + (IF e.op \in ops THEN 1 ELSE 0)
  BY <1>4, <1>5
<1> QED BY <1>3, <1>5, <1>6 DEF Tally, A, B, C, n, r

\* Without the innermost node, one less of its kind is open.
LEMMA TallyFront ==
  ASSUME NEW o \in Seq(OpenType), o # <<>>, NEW ops
  PROVE  /\ Tally(o, ops) = Tally(Front(o), ops) + (IF Last(o).op \in ops THEN 1 ELSE 0)
         /\ Tally(Front(o), ops) \in Nat
<1> DEFINE n == Len(o) - 1
           r == Front(o)
           A == {i \in DOMAIN o : o[i].op \in ops}
           B == {i \in DOMAIN r : r[i].op \in ops}
<1>1. /\ n \in Nat /\ n + 1 = Len(o) /\ DOMAIN o = 1..n + 1 /\ DOMAIN r = 1..n /\ Last(o) = o[n + 1]
      /\ \A i \in 1..n : r[i] = o[i]
  BY FrontIs
<1> HIDE DEF n, r
<1>2. B = A \cap (1..n) /\ A \in SUBSET (1..n + 1) /\ (n + 1 \in A <=> Last(o).op \in ops)
  BY <1>1
<1> HIDE DEF A, B
<1>3. Cardinality(A) = Cardinality(B) + (IF n + 1 \in A THEN 1 ELSE 0) /\ Cardinality(B) \in Nat
  BY <1>1, <1>2, CountLast
<1>4. Cardinality(A) = Cardinality(B) + (IF Last(o).op \in ops THEN 1 ELSE 0)
  BY <1>2, <1>3
<1> QED BY <1>3, <1>4 DEF Tally, A, B, r

\* And the classes among them that have a superclass.
Subclasses(cs) == Cardinality({i \in DOMAIN cs : cs[i] = "SUBCLASS"})

\* Entering a subclass counts one more.
LEMMA SubclassesAppend ==
  ASSUME NEW S, NEW cs \in Seq(S), NEW k \in S
  PROVE  /\ Subclasses(Append(cs, k)) = Subclasses(cs) + (IF k = "SUBCLASS" THEN 1 ELSE 0)
         /\ Subclasses(cs) \in Nat
<1> DEFINE n == Len(cs)
           r == Append(cs, k)
           A == {i \in DOMAIN cs : cs[i] = "SUBCLASS"}
           B == {i \in DOMAIN r : r[i] = "SUBCLASS"}
<1>1. /\ n \in Nat /\ DOMAIN cs = 1..n /\ DOMAIN r = 1..n + 1 /\ r[n + 1] = k
      /\ \A i \in 1..n : r[i] = cs[i]
  BY Appended
<1> HIDE DEF n, r
<1>2. A = B \cap (1..n) /\ B \in SUBSET (1..n + 1) /\ (n + 1 \in B <=> k = "SUBCLASS")
  BY <1>1
<1> HIDE DEF A, B
<1>3. Cardinality(B) = Cardinality(A) + (IF n + 1 \in B THEN 1 ELSE 0) /\ Cardinality(A) \in Nat
  BY <1>1, <1>2, CountLast
<1>4. Cardinality(B) = Cardinality(A) + (IF k = "SUBCLASS" THEN 1 ELSE 0)
  BY <1>2, <1>3
<1> QED BY <1>3, <1>4 DEF Subclasses, A, B, r

\* Leaving a subclass counts one less.
LEMMA SubclassesFront ==
  ASSUME NEW S, NEW cs \in Seq(S), cs # <<>>
  PROVE  /\ Subclasses(cs) = Subclasses(Front(cs)) + (IF Last(cs) = "SUBCLASS" THEN 1 ELSE 0)
         /\ Subclasses(Front(cs)) \in Nat
<1> DEFINE n == Len(cs) - 1
           r == Front(cs)
           A == {i \in DOMAIN cs : cs[i] = "SUBCLASS"}
           B == {i \in DOMAIN r : r[i] = "SUBCLASS"}
<1>1. /\ n \in Nat /\ n + 1 = Len(cs) /\ DOMAIN cs = 1..n + 1 /\ DOMAIN r = 1..n /\ Last(cs) = cs[n + 1]
      /\ \A i \in 1..n : r[i] = cs[i]
  BY FrontIs
<1> HIDE DEF n, r
<1>2. B = A \cap (1..n) /\ A \in SUBSET (1..n + 1) /\ (n + 1 \in A <=> Last(cs) = "SUBCLASS")
  BY <1>1
<1> HIDE DEF A, B
<1>3. Cardinality(A) = Cardinality(B) + (IF n + 1 \in A THEN 1 ELSE 0) /\ Cardinality(B) \in Nat
  BY <1>1, <1>2, CountLast
<1>4. Cardinality(A) = Cardinality(B) + (IF Last(cs) = "SUBCLASS" THEN 1 ELSE 0)
  BY <1>2, <1>3
<1> QED BY <1>3, <1>4 DEF Subclasses, A, B, r

-----------------------------------------------------------------------------
(* Scopes.                                                                 *)

States == [defined : BOOLEAN, accessed : BOOLEAN]

\* A scope is a dict from names to their states.
LEMMA ScopeIs ==
  /\ \A f \in ScopeTypes : /\ DOMAIN f \subseteq Name \cup Special
                           /\ \A m \in DOMAIN f : f[m] \in States
  /\ \A D \in SUBSET (Name \cup Special) : \A f \in [D -> States] : f \in ScopeTypes
  /\ Fresh \in States /\ Known \in States
BY DEF ScopeTypes, States, Fresh, Known

\* _declare.
LEMMA DeclaredIs ==
  ASSUME NEW ss \in Seq(ScopeTypes), NEW n \in Name
  PROVE  /\ Declared(ss, n) \in Seq(ScopeTypes) /\ Len(Declared(ss, n)) = Len(ss)
         /\ \A k \in 1..Len(ss) :
              /\ k # Len(ss) => Declared(ss, n)[k] = ss[k]
              /\ k = Len(ss) => /\ DOMAIN Declared(ss, n)[k] = DOMAIN ss[k] \cup {n}
                                /\ \A m \in DOMAIN ss[k] : m # n => Declared(ss, n)[k][m] = ss[k][m]
<1>1. CASE ss = <<>>
  <2>1. Declared(ss, n) = ss /\ Len(ss) = 0
    BY <1>1 DEF Declared, Put
  <2> QED BY <2>1
<1>2. CASE ss # <<>>
  <2> DEFINE l == Len(ss)
             f == Updated(ss[l], n, Fresh)
  <2>1. l \in 1..l /\ l \in Nat /\ ss[l] \in ScopeTypes
    BY <1>2, EmptySeq, ElementOfSeq
  <2>2. /\ DOMAIN f = DOMAIN ss[l] \cup {n} /\ f \in [DOMAIN ss[l] \cup {n} -> States]
        /\ \A m \in DOMAIN ss[l] : m # n => f[m] = ss[l][m]
    BY <2>1, ScopeIs DEF Updated
  <2>3. DOMAIN ss[l] \cup {n} \in SUBSET (Name \cup Special)
    BY <2>1, ScopeIs
  <2>4. f \in ScopeTypes
    BY <2>2, <2>3, ScopeIs
  <2>5. Declared(ss, n) = [ss EXCEPT ![l] = f]
    BY <1>2 DEF Declared, Put
  <2> HIDE DEF f, l
  <2>6. /\ Declared(ss, n) \in Seq(ScopeTypes) /\ Len(Declared(ss, n)) = Len(ss)
        /\ \A j \in 1..Len(ss) : Declared(ss, n)[j] = IF j = l THEN f ELSE ss[j]
    BY <2>1, <2>4, <2>5, ExceptSeq DEF l
  <2> QED BY <2>2, <2>6 DEF l
<1> QED BY <1>1, <1>2

\* _define.
LEMMA DefinedIs ==
  ASSUME NEW ss \in Seq(ScopeTypes), NEW n
  PROVE  /\ Defined(ss, n) \in Seq(ScopeTypes) /\ Len(Defined(ss, n)) = Len(ss)
         /\ \A k \in 1..Len(ss) :
              /\ DOMAIN Defined(ss, n)[k] = DOMAIN ss[k]
              /\ \A m \in DOMAIN ss[k] : Defined(ss, n)[k][m].accessed = ss[k][m].accessed
<1>1. CASE ss = <<>>
  BY <1>1 DEF Defined
<1>2. CASE ss # <<>>
  <2> DEFINE l == Len(ss)
             f == [ss[l] EXCEPT ![n].defined = TRUE]
  <2>1. l \in 1..l /\ l \in Nat /\ ss[l] \in ScopeTypes
    BY <1>2, EmptySeq, ElementOfSeq
  <2>2. /\ DOMAIN f = DOMAIN ss[l] /\ f \in [DOMAIN ss[l] -> States]
        /\ \A m \in DOMAIN ss[l] : f[m].accessed = ss[l][m].accessed
    BY <2>1, ScopeIs DEF States
  <2>3. DOMAIN ss[l] \in SUBSET (Name \cup Special)
    BY <2>1, ScopeIs
  <2>4. f \in ScopeTypes
    BY <2>2, <2>3, ScopeIs
  <2>5. Defined(ss, n) = [ss EXCEPT ![l] = f]
    BY <1>2 DEF Defined
  <2> HIDE DEF f, l
  <2>6. /\ Defined(ss, n) \in Seq(ScopeTypes) /\ Len(Defined(ss, n)) = Len(ss)
        /\ \A j \in 1..Len(ss) : Defined(ss, n)[j] = IF j = l THEN f ELSE ss[j]
    BY <2>1, <2>4, <2>5, ExceptSeq DEF l
  <2> QED BY <2>2, <2>6 DEF l
<1> QED BY <1>1, <1>2

\* A function or a class is declared and defined at once.
LEMMA DeclaredAndDefinedIs ==
  ASSUME NEW ss \in Seq(ScopeTypes), NEW n \in Name
  PROVE  LET t == DeclaredAndDefined(ss, n) IN
         /\ t \in Seq(ScopeTypes) /\ Len(t) = Len(ss)
         /\ \A k \in 1..Len(ss) :
              /\ DOMAIN t[k] = DOMAIN ss[k] \cup (IF k = Len(ss) THEN {n} ELSE {})
              /\ \A m \in DOMAIN ss[k] : m # n \/ k # Len(ss) => t[k][m].accessed = ss[k][m].accessed
<1> DEFINE d == Declared(ss, n)
           t == Defined(d, n)
<1>1. /\ d \in Seq(ScopeTypes) /\ Len(d) = Len(ss)
      /\ \A k \in 1..Len(ss) :
           /\ k # Len(ss) => d[k] = ss[k]
           /\ k = Len(ss) => /\ DOMAIN d[k] = DOMAIN ss[k] \cup {n}
                             /\ \A m \in DOMAIN ss[k] : m # n => d[k][m] = ss[k][m]
  BY DeclaredIs
<1> HIDE DEF d
<1>2. /\ t \in Seq(ScopeTypes) /\ Len(t) = Len(d)
      /\ \A k \in 1..Len(d) :
           /\ DOMAIN t[k] = DOMAIN d[k]
           /\ \A m \in DOMAIN d[k] : t[k][m].accessed = d[k][m].accessed
  BY <1>1, DefinedIs
<1> HIDE DEF t
<1>3. ASSUME NEW k \in 1..Len(ss)
      PROVE  /\ DOMAIN t[k] = DOMAIN ss[k] \cup (IF k = Len(ss) THEN {n} ELSE {})
             /\ \A m \in DOMAIN ss[k] : m # n \/ k # Len(ss) => t[k][m].accessed = ss[k][m].accessed
  BY <1>1, <1>2
<1>4. t = DeclaredAndDefined(ss, n)
  BY DEF t, d, DeclaredAndDefined
<1> QED BY <1>1, <1>2, <1>3, <1>4

\* _resolve_local: the innermost scope that has the name.
LEMMA HoldersAre ==
  ASSUME NEW ss \in Seq(ScopeTypes), NEW n, Holders(ss, n) # {}
  PROVE  /\ Min(Holders(ss, n)) \in 0..Len(ss) - 1
         /\ Len(ss) - Min(Holders(ss, n)) \in 1..Len(ss)
         /\ n \in DOMAIN ss[Len(ss) - Min(Holders(ss, n))]
         /\ \A k \in 1..Len(ss) : n \in DOMAIN ss[k] => k <= Len(ss) - Min(Holders(ss, n))
<1>1. Len(ss) \in Nat
  BY LenProperties
<1>2. Holders(ss, n) \in SUBSET Nat
  BY <1>1 DEF Holders
<1> DEFINE m == Min(Holders(ss, n))
<1>3. m \in Holders(ss, n) /\ \A i \in Holders(ss, n) : m <= i
  BY <1>2, MinIs
<1> HIDE DEF m
<1>4. m \in 0..Len(ss) - 1 /\ n \in DOMAIN ss[Len(ss) - m]
  BY <1>3 DEF Holders
<1>5. ASSUME NEW k \in 1..Len(ss), n \in DOMAIN ss[k]
      PROVE  k <= Len(ss) - m
  <2>1. Len(ss) - k \in 0..Len(ss) - 1 /\ Len(ss) - (Len(ss) - k) = k
    BY <1>1
  <2>2. Len(ss) - k \in Holders(ss, n)
    BY <1>5, <2>1 DEF Holders
  <2> QED BY <1>1, <1>3, <1>4, <2>1, <2>2
<1>6. Len(ss) - m \in 1..Len(ss)
  BY <1>1, <1>4
<1> QED BY <1>4, <1>5, <1>6 DEF m

\* _resolve_local marks one name, in the innermost scope that has it.
LEMMA AccessedIs ==
  ASSUME NEW ss \in Seq(ScopeTypes), NEW n
  PROVE  /\ Accessed(ss, n) \in Seq(ScopeTypes) /\ Len(Accessed(ss, n)) = Len(ss)
         /\ \A k \in 1..Len(ss) :
              /\ DOMAIN Accessed(ss, n)[k] = DOMAIN ss[k]
              /\ \A m \in DOMAIN ss[k] :
                   Accessed(ss, n)[k][m].accessed
                     = IF m = n /\ k = Len(ss) - Min(Holders(ss, n)) /\ Holders(ss, n) # {}
                       THEN TRUE ELSE ss[k][m].accessed
<1>1. CASE Holders(ss, n) = {}
  BY <1>1 DEF Accessed
<1>2. CASE Holders(ss, n) # {}
  <2> DEFINE l == Len(ss) - Min(Holders(ss, n))
             f == [ss[l] EXCEPT ![n].accessed = TRUE]
  <2>1. l \in 1..Len(ss) /\ n \in DOMAIN ss[l]
    BY <1>2, HoldersAre
  <2>2. Accessed(ss, n) = [ss EXCEPT ![l] = f]
    BY <1>2 DEF Accessed
  <2> HIDE DEF l
  <2>3. ss[l] \in ScopeTypes
    BY <2>1, ElementOfSeq
  <2>4. /\ DOMAIN f = DOMAIN ss[l] /\ f \in [DOMAIN ss[l] -> States]
        /\ \A m \in DOMAIN ss[l] : f[m].accessed = IF m = n THEN TRUE ELSE ss[l][m].accessed
    BY <2>3, ScopeIs DEF States
  <2>5. DOMAIN ss[l] \in SUBSET (Name \cup Special)
    BY <2>3, ScopeIs
  <2>6. f \in ScopeTypes
    BY <2>4, <2>5, ScopeIs
  <2> HIDE DEF f
  <2>7. /\ Accessed(ss, n) \in Seq(ScopeTypes) /\ Len(Accessed(ss, n)) = Len(ss)
        /\ \A j \in 1..Len(ss) : Accessed(ss, n)[j] = IF j = l THEN f ELSE ss[j]
    BY <2>1, <2>2, <2>6, ExceptSeq
  <2>8. ASSUME NEW k \in 1..Len(ss)
        PROVE  /\ DOMAIN Accessed(ss, n)[k] = DOMAIN ss[k]
               /\ \A m \in DOMAIN ss[k] :
                    Accessed(ss, n)[k][m].accessed = IF m = n /\ k = l THEN TRUE ELSE ss[k][m].accessed
    BY <2>4, <2>7
  <2> QED BY <1>2, <2>7, <2>8 DEF l
<1> QED BY <1>1, <1>2

-----------------------------------------------------------------------------
(* The stacks are as high as the nodes still open.                         *)

Base == ResolverTypes /\ Counts /\ WellFormed(code) /\ Linked(code, open)

\* Counts, by the operators that the lemmas above are about.
LEMMA CountsAre ==
  Counts <=> /\ Len(scopes) = Tally(open, Nesting) + Subclasses(class_scopes)
             /\ Len(scopes) <= 2 * Len(code)
             /\ Len(return_scopes) = 1 + Len(scopes) + Tally(open, {"if", "while"})
             /\ Len(loop_scopes) = 1 + Tally(open, {"while"})
             /\ Len(function_scopes) = 1 + Tally(open, Bodies)
             /\ Len(class_scopes) = 1 + Tally(open, {"class"})
BY DEF Counts, OpenNodes, OpenSubclasses, Tally, Subclasses

\* The same of the next state.
LEMMA CountsAreNext ==
  Counts' <=> /\ Len(scopes') = Tally(open', Nesting) + Subclasses(class_scopes')
              /\ Len(scopes') <= 2 * Len(code')
              /\ Len(return_scopes') = 1 + Len(scopes') + Tally(open', {"if", "while"})
              /\ Len(loop_scopes') = 1 + Tally(open', {"while"})
              /\ Len(function_scopes') = 1 + Tally(open', Bodies)
              /\ Len(class_scopes') = 1 + Tally(open', {"class"})
BY DEF Counts, OpenNodes, OpenSubclasses, Tally, Subclasses

FunctionTypes == {"NONE", "FUNCTION", "METHOD", "GETTER", "INITIALIZER"}

\* The distances kept are those of nodes visited.
LocalsNext == \A p \in DOMAIN locals' : p \in 1..Len(code) + 1 /\ locals'[p] \in 0..2 * p

\* A visit that resolves nothing keeps the distances.
LEMMA LocalsSame ==
  ASSUME Base
  PROVE  UNCHANGED locals => LocalsNext
<1>1. /\ Len(code) \in Nat /\ DOMAIN code = 1..Len(code)
  BY LenProperties DEF Base, WellFormed
<1>2. \A p \in DOMAIN locals : p \in DOMAIN code /\ locals[p] \in 0..2 * p
  BY DEF Base, ResolverTypes
<1> QED BY <1>1, <1>2 DEF LocalsNext

\* _resolve_local keeps the distance of the node visited.
LEMMA LocalsResolved ==
  ASSUME Base, NEW ss \in Seq(ScopeTypes), Len(ss) = Len(scopes), NEW n
  PROVE  ResolveLocal(ss, n) => LocalsNext
<1> HAVE ResolveLocal(ss, n)
<1>1. /\ Len(code) \in Nat /\ DOMAIN code = 1..Len(code) /\ Len(scopes) \in Nat
      /\ Len(scopes) <= 2 * Len(code)
  BY LenProperties DEF Base, WellFormed, Counts, ResolverTypes
<1>2. CASE Holders(ss, n) = {}
  <2>1. UNCHANGED locals
    BY <1>2 DEF ResolveLocal
  <2> QED BY <2>1, LocalsSame
<1>3. CASE Holders(ss, n) # {}
  <2> DEFINE v == Min(Holders(ss, n))
             h == Len(code) + 1
  <2>1. v \in 0..Len(ss) - 1
    BY <1>3, HoldersAre
  <2>2. locals' = Updated(locals, h, v)
    BY <1>3 DEF ResolveLocal, Here
  <2> HIDE DEF v, h
  <2>3. v \in 0..2 * h /\ h \in 1..Len(code) + 1
    BY <1>1, <2>1 DEF h
  <2>4. DOMAIN locals' = DOMAIN locals \cup {h} /\ locals'[h] = v
        /\ \A p \in DOMAIN locals : p # h => locals'[p] = locals[p]
    BY <2>2 DEF Updated
  <2>5. \A p \in DOMAIN locals : p \in 1..Len(code) + 1 /\ locals[p] \in 0..2 * p
    BY <1>1 DEF Base, ResolverTypes
  <2>6. ASSUME NEW p \in DOMAIN locals'
        PROVE  p \in 1..Len(code) + 1 /\ locals'[p] \in 0..2 * p
    BY <2>3, <2>4, <2>5
  <2> QED BY <2>6 DEF LocalsNext
<1> QED BY <1>2, <1>3

\* What an action says of mid' and had_error'.
FlagsNext == mid' \in BOOLEAN /\ had_error' \in BOOLEAN

\* A leaf.
LEMMA BaseLeaf ==
  ASSUME Base, NEW x \in NodeType, code' = Append(code, x), Suits(code, x), x.op \in Leaves,
         Alike(open, open'), UNCHANGED enclosing, LocalsNext, FlagsNext,
         mid' => Inner # "class",
         scopes' \in Seq(ScopeTypes), Len(scopes') = Len(scopes),
         return_scopes' \in Seq(BOOLEAN), Len(return_scopes') = Len(return_scopes)
  PROVE  Base'
<1>1. WellFormed(code)'
  BY WellFormedNext DEF Base
<1>2. Linked(code, open)'
  BY <1>1, LinkedLeaf DEF Base, ResolverTypes
<1>3. code \in Seq(NodeType) /\ open \in Seq(OpenType)
  BY DEF Base, WellFormed, ResolverTypes
<1>4. /\ Len(code) \in Nat /\ Len(code') = Len(code) + 1 /\ DOMAIN code' = 1..Len(code) + 1
  BY <1>3, Appended
<1>5. Counts'
  <2>1. \A ops : Tally(open', ops) = Tally(open, ops)
    <3> TAKE ops
    <3>1. CASE open = <<>>
      <4>1. Len(open) = 0 /\ Len(open') = 0 /\ DOMAIN open = 1..0 /\ DOMAIN open' = 1..0
        BY <1>3, <3>1, LenProperties DEF Alike
      <4>2. {i \in DOMAIN open : open[i].op \in ops} = {} /\ {i \in DOMAIN open' : open'[i].op \in ops} = {}
        BY <4>1
      <4> QED BY <4>2 DEF Tally
    <3>2. CASE open # <<>>
      <4>1. open[Len(open)] \in OpenType
        BY <1>3, <3>2, EmptySeq, ElementOfSeq
      <4> QED BY <1>3, <4>1, TallyAppend
    <3> QED BY <3>1, <3>2
  <2>2. /\ Len(scopes) = Tally(open, Nesting) + Subclasses(class_scopes)
        /\ Len(scopes) <= 2 * Len(code)
        /\ Len(return_scopes) = 1 + Len(scopes) + Tally(open, {"if", "while"})
        /\ Len(loop_scopes) = 1 + Tally(open, {"while"})
        /\ Len(function_scopes) = 1 + Tally(open, Bodies)
        /\ Len(class_scopes) = 1 + Tally(open, {"class"})
    BY CountsAre DEF Base
  <2>3. UNCHANGED <<loop_scopes, function_scopes, class_scopes>> /\ Len(scopes') \in Nat
    BY LenProperties DEF enclosing
  <2>4. Len(scopes') <= 2 * Len(code')
    BY <1>4, <2>2, <2>3
  <2> QED BY <2>1, <2>2, <2>3, <2>4, CountsAreNext
<1>6. Inner' = Inner
  <2>1. CASE open = <<>>
    <3>1. Len(open') = 0
      BY <2>1 DEF Alike
    <3>2. open' = <<>>
      BY <3>1, EmptySeq DEF Alike
    <3> QED BY <2>1, <3>2 DEF Inner
  <2>2. CASE open # <<>>
    <3>1. Len(open) \in 1..Len(open) /\ Len(open') = Len(open)
      BY <1>3, <2>2, EmptySeq DEF Alike
    <3>2. open' # <<>> /\ Last(open').op = Last(open).op
      BY <1>3, <3>1, EmptySeq DEF Alike, Last
    <3> QED BY <2>2, <3>2 DEF Inner
  <2> QED BY <2>1, <2>2
<1>7. ResolverTypes'
  <2>1. UNCHANGED <<loop_scopes, function_scopes, class_scopes>>
    BY DEF enclosing
  <2>2. return_scopes' # <<>>
    <3>1. Len(return_scopes') # 0
      BY EmptySeq DEF Base, ResolverTypes
    <3> QED BY <3>1
  <2>3. /\ loop_scopes \in Seq({"NONE", "WHILE"}) /\ loop_scopes # <<>>
        /\ class_scopes \in Seq({"NONE", "CLASS", "SUBCLASS"}) /\ class_scopes # <<>>
        /\ class_scopes[1] = "NONE"
        /\ function_scopes \in Seq({"NONE", "FUNCTION", "METHOD", "GETTER", "INITIALIZER"})
        /\ function_scopes # <<>> /\ function_scopes[1] = "NONE"
    BY DEF Base, ResolverTypes
  <2> QED BY <1>4, <1>6, <2>1, <2>2, <2>3 DEF ResolverTypes, Alike, LocalsNext, FlagsNext
<1> QED BY <1>1, <1>2, <1>5, <1>7 DEF Base

\* A node that is open next: opened is the stack that Opened makes.
LEMMA OpenedIs ==
  ASSUME Base, NEW op \in Nesting \cup {"var"}, NEW name \in Name \cup Member \cup {None, "this"}
  PROVE  LET e == [op |-> op, name |-> name, at |-> Here, warned |-> FALSE] IN
         /\ e \in OpenType /\ Opened(op, name) = Append(Started, e) /\ Alike(open, Started)
         /\ Opened(op, name) \in Seq(OpenType) /\ Len(Opened(op, name)) = Len(open) + 1
         /\ Opened(op, name) # <<>> /\ Last(Opened(op, name)) = e
         /\ \A ops : Tally(Opened(op, name), ops) = Tally(open, ops) + (IF op \in ops THEN 1 ELSE 0)
         /\ \A ops : Tally(open, ops) \in Nat
<1> DEFINE e == [op |-> op, name |-> name, at |-> Here, warned |-> FALSE]
<1>1. open \in Seq(OpenType) /\ Len(code) \in Nat
  BY LenProperties DEF Base, ResolverTypes, WellFormed
<1>2. e \in OpenType /\ e.op = op
  BY <1>1 DEF OpenType, Here
<1>3. Alike(open, Started)
  BY <1>1, StartedIs
<1>4. Opened(op, name) = Append(Started, e)
  BY DEF Opened
<1> HIDE DEF e
<1>5. /\ Append(Started, e) \in Seq(OpenType) /\ Len(Append(Started, e)) = Len(open) + 1
      /\ Append(Started, e) # <<>> /\ Last(Append(Started, e)) = e
  BY <1>2, <1>3, Appended DEF Alike
<1>6. \A ops : Tally(Append(Started, e), ops) = Tally(open, ops) + (IF op \in ops THEN 1 ELSE 0)
               /\ Tally(open, ops) \in Nat
  BY <1>1, <1>2, <1>3, TallyAppend
<1> QED BY <1>2, <1>3, <1>4, <1>5, <1>6 DEF e

Grown(x) == (IF x.op \in Nesting THEN 1 ELSE 0) + (IF x.op = "class" /\ x.arg # {} THEN 1 ELSE 0)

OpenStep(x, t) ==
  /\ code' = Append(code, x) /\ x.op \in Nesting \cup {"var"} /\ (x.op = "var" => AtStatement)
  /\ open' = Opened(x.op, x.name) /\ mid' = FALSE /\ had_error' \in BOOLEAN /\ LocalsNext
  /\ loop_scopes' = IF x.op = "while" THEN Append(loop_scopes, "WHILE") ELSE loop_scopes
  /\ function_scopes' = IF x.op \in Bodies THEN Append(function_scopes, t) ELSE function_scopes
  /\ class_scopes' = IF x.op = "class"
                     THEN Append(class_scopes, IF x.arg = {} THEN "CLASS" ELSE "SUBCLASS")
                     ELSE class_scopes
  /\ scopes' \in Seq(ScopeTypes) /\ Len(scopes') = Len(scopes) + Grown(x)
  /\ return_scopes' \in Seq(BOOLEAN)
  /\ Len(return_scopes') = Len(return_scopes) + Grown(x) + (IF x.op \in {"if", "while"} THEN 1 ELSE 0)

\* A node that opens scopes keeps the stacks and the text in order.
LEMMA BaseOpen ==
  ASSUME Base, NEW x \in NodeType, Suits(code, x), NEW t \in FunctionTypes, OpenStep(x, t)
  PROVE  Base'
<1> DEFINE g == Grown(x)
<1>0. g \in 0..2 /\ Len(scopes') = Len(scopes) + g
      /\ Len(return_scopes') = Len(return_scopes) + g + (IF x.op \in {"if", "while"} THEN 1 ELSE 0)
  BY DEF Grown, OpenStep
<1>1. WellFormed(code)'
  BY WellFormedNext DEF Base, OpenStep
<1>2. code \in Seq(NodeType) /\ open \in Seq(OpenType)
  BY DEF Base, WellFormed, ResolverTypes
<1>3. /\ Len(code) \in Nat /\ Len(code') = Len(code) + 1 /\ DOMAIN code' = 1..Len(code) + 1
  BY <1>2, Appended DEF OpenStep
<1> DEFINE e == [op |-> x.op, name |-> x.name, at |-> Here, warned |-> FALSE]
<1>4. x.name \in Name \cup Member \cup {None, "this"}
  BY DEF NodeType
<1>5. /\ e \in OpenType /\ open' = Append(Started, e) /\ Alike(open, Started)
      /\ open' \in Seq(OpenType) /\ open' # <<>> /\ Last(open') = e
      /\ \A ops : Tally(open', ops) = Tally(open, ops) + (IF x.op \in ops THEN 1 ELSE 0)
      /\ \A ops : Tally(open, ops) \in Nat
  <2>1. x.op \in Nesting \cup {"var"} /\ open' = Opened(x.op, x.name)
    BY DEF OpenStep
  <2> QED BY <1>4, <2>1, OpenedIs
<1>6. e.op = x.op /\ e.name = x.name /\ e.at = Len(code) + 1
  BY DEF Here
<1>7. x.op = "var" /\ open # <<>> => Last(open).op \notin {"var", "class"}
  BY DEF AtStatement, Inner, OpenStep
<1> HIDE DEF e
<1>8. Linked(code, open)'
  <2>1. Linked(Append(code, x), Append(Started, e))
    <3>1. code' = Append(code, x) /\ x.op \in Nesting \cup {"var"}
      BY DEF OpenStep
    <3> QED BY <1>1, <1>2, <1>5, <1>6, <1>7, <3>1, LinkedOpen DEF Base
  <2> QED BY <1>5, <2>1 DEF OpenStep
<1>9. /\ loop_scopes \in Seq({"NONE", "WHILE"}) /\ loop_scopes # <<>>
      /\ class_scopes \in Seq({"NONE", "CLASS", "SUBCLASS"}) /\ class_scopes # <<>>
      /\ class_scopes[1] = "NONE"
      /\ function_scopes \in Seq(FunctionTypes)
      /\ function_scopes # <<>> /\ function_scopes[1] = "NONE"
  BY DEF Base, ResolverTypes, FunctionTypes
<1>10. /\ Len(loop_scopes) \in Nat /\ Len(class_scopes) \in Nat \ {0} /\ Len(function_scopes) \in Nat \ {0}
       /\ Len(scopes) \in Nat /\ Len(return_scopes) \in Nat \ {0}
  <2>1. Len(loop_scopes) \in Nat /\ Len(class_scopes) \in Nat \ {0} /\ Len(function_scopes) \in Nat \ {0}
    BY <1>9, EmptySeq, LenProperties
  <2>2. Len(scopes) \in Nat /\ Len(return_scopes) \in Nat \ {0}
    BY EmptySeq, LenProperties DEF Base, ResolverTypes
  <2> QED BY <2>1, <2>2
<1>11. /\ loop_scopes' \in Seq({"NONE", "WHILE"}) /\ loop_scopes' # <<>>
       /\ Len(loop_scopes') = Len(loop_scopes) + (IF x.op = "while" THEN 1 ELSE 0)
  <2>1. CASE x.op = "while"
    <3>1. "WHILE" \in {"NONE", "WHILE"} /\ loop_scopes' = Append(loop_scopes, "WHILE")
      BY <2>1 DEF OpenStep
    <3> QED BY <1>9, <2>1, <3>1, Appended
  <2>2. CASE x.op # "while"
    BY <1>9, <1>10, <2>2 DEF OpenStep
  <2> QED BY <2>1, <2>2
<1>12. /\ function_scopes' \in Seq(FunctionTypes) /\ function_scopes' # <<>>
       /\ function_scopes'[1] = "NONE"
       /\ Len(function_scopes') = Len(function_scopes) + (IF x.op \in Bodies THEN 1 ELSE 0)
  <2>1. CASE x.op \in Bodies
    <3>1. 1 \in 1..Len(function_scopes) /\ function_scopes' = Append(function_scopes, t)
      BY <1>10, <2>1 DEF OpenStep
    <3> QED BY <1>9, <2>1, <3>1, Appended
  <2>2. CASE x.op \notin Bodies
    BY <1>9, <1>10, <2>2 DEF OpenStep
  <2> QED BY <2>1, <2>2
<1> DEFINE kind == IF x.arg = {} THEN "CLASS" ELSE "SUBCLASS"
<1>13. /\ class_scopes' \in Seq({"NONE", "CLASS", "SUBCLASS"}) /\ class_scopes' # <<>>
       /\ class_scopes'[1] = "NONE"
       /\ Len(class_scopes') = Len(class_scopes) + (IF x.op = "class" THEN 1 ELSE 0)
       /\ Subclasses(class_scopes') = Subclasses(class_scopes)
                                      + (IF x.op = "class" /\ x.arg # {} THEN 1 ELSE 0)
       /\ Subclasses(class_scopes) \in Nat
  <2>0. kind \in {"NONE", "CLASS", "SUBCLASS"} /\ (kind = "SUBCLASS" <=> x.arg # {})
    OBVIOUS
  <2>3. /\ x.op = "class" => class_scopes' = Append(class_scopes, kind)
        /\ x.op # "class" => class_scopes' = class_scopes
    BY DEF OpenStep
  <2> HIDE DEF kind
  <2>4. /\ Subclasses(Append(class_scopes, kind)) = Subclasses(class_scopes) + (IF kind = "SUBCLASS" THEN 1 ELSE 0)
        /\ Subclasses(class_scopes) \in Nat
    BY <1>9, <2>0, SubclassesAppend
  <2>1. CASE x.op = "class"
    <3>1. 1 \in 1..Len(class_scopes) /\ class_scopes' = Append(class_scopes, kind)
      BY <1>10, <2>1, <2>3
    <3>2. /\ class_scopes' \in Seq({"NONE", "CLASS", "SUBCLASS"}) /\ class_scopes' # <<>>
          /\ class_scopes'[1] = "NONE" /\ Len(class_scopes') = Len(class_scopes) + 1
      <4>1. /\ Append(class_scopes, kind) \in Seq({"NONE", "CLASS", "SUBCLASS"})
            /\ Append(class_scopes, kind) # <<>>
            /\ Len(Append(class_scopes, kind)) = Len(class_scopes) + 1
            /\ \A i \in 1..Len(class_scopes) : Append(class_scopes, kind)[i] = class_scopes[i]
        BY <1>9, <2>0, Appended
      <4> QED BY <1>9, <3>1, <4>1
    <3> QED BY <2>0, <2>1, <2>4, <3>1, <3>2
  <2>2. CASE x.op # "class"
    <3>1. class_scopes' = class_scopes
      BY <2>2, <2>3
    <3> QED BY <1>9, <1>10, <2>2, <2>4, <3>1
  <2> QED BY <2>1, <2>2
<1> HIDE DEF g
<1>14. Counts'
  <2>1. /\ Len(scopes) = Tally(open, Nesting) + Subclasses(class_scopes)
        /\ Len(scopes) <= 2 * Len(code)
        /\ Len(return_scopes) = 1 + Len(scopes) + Tally(open, {"if", "while"})
        /\ Len(loop_scopes) = 1 + Tally(open, {"while"})
        /\ Len(function_scopes) = 1 + Tally(open, Bodies)
        /\ Len(class_scopes) = 1 + Tally(open, {"class"})
    BY CountsAre DEF Base
  <2>2. Len(scopes') = Tally(open', Nesting) + Subclasses(class_scopes')
    <3>1. Tally(open', Nesting) = Tally(open, Nesting) + (IF x.op \in Nesting THEN 1 ELSE 0) /\ Tally(open, Nesting) \in Nat
      BY <1>5
    <3>2. Subclasses(class_scopes') = Subclasses(class_scopes) + (IF x.op = "class" /\ x.arg # {} THEN 1 ELSE 0)
          /\ Subclasses(class_scopes) \in Nat
      BY <1>13
    <3>3. Len(scopes) = Tally(open, Nesting) + Subclasses(class_scopes)
      BY <2>1
    <3>4. g = (IF x.op \in Nesting THEN 1 ELSE 0) + (IF x.op = "class" /\ x.arg # {} THEN 1 ELSE 0)
          /\ Len(scopes') = Len(scopes) + g
      BY <1>0 DEF Grown, g
    <3>5. CASE x.op = "class" /\ x.arg # {}
      <4>1. x.op \in Nesting
        BY <3>5 DEF Nesting
      <4>2. g = 2 /\ Tally(open', Nesting) = Tally(open, Nesting) + 1
            /\ Subclasses(class_scopes') = Subclasses(class_scopes) + 1
        BY <3>1, <3>2, <3>4, <3>5, <4>1
      <4> QED BY <1>10, <3>1, <3>2, <3>3, <3>4, <4>2, SMTT(30)
    <3>6. CASE ~(x.op = "class" /\ x.arg # {}) /\ x.op \in Nesting
      <4>1. g = 1 /\ Tally(open', Nesting) = Tally(open, Nesting) + 1
            /\ Subclasses(class_scopes') = Subclasses(class_scopes)
        BY <3>1, <3>2, <3>4, <3>6
      <4>2. Len(scopes') = Tally(open, Nesting) + Subclasses(class_scopes) + 1
        BY <1>10, <3>1, <3>2, <3>3, <3>4, <4>1
      <4>3. Len(scopes') = (Tally(open, Nesting) + 1) + Subclasses(class_scopes)
        BY <3>1, <3>2, <4>2
      <4> QED BY <4>1, <4>3
    <3>7. CASE x.op \notin Nesting
      <4>1. x.op # "class"
        BY <3>7 DEF Nesting
      <4>2. g = 0 /\ Tally(open', Nesting) = Tally(open, Nesting)
            /\ Subclasses(class_scopes') = Subclasses(class_scopes)
        BY <3>1, <3>2, <3>4, <3>7, <4>1
      <4> QED BY <1>10, <3>1, <3>2, <3>3, <3>4, <4>2, SMTT(30)
    <3> QED BY <3>5, <3>6, <3>7
  <2>3. Len(scopes') <= 2 * Len(code')
    <3>1. Len(scopes) <= 2 * Len(code) /\ Len(code) \in Nat /\ Len(scopes) \in Nat
      BY <1>3, <1>10, <2>1
    <3>2. Len(scopes') = Len(scopes) + g /\ Len(code') = Len(code) + 1 /\ g <= 2 /\ g \in Nat
      BY <1>0, <1>3
    <3> QED BY <3>1, <3>2
  <2>4. Len(return_scopes') = 1 + Len(scopes') + Tally(open', {"if", "while"})
    <3>1. Len(return_scopes') = Len(return_scopes) + g + (IF x.op \in {"if", "while"} THEN 1 ELSE 0)
          /\ Len(scopes') = Len(scopes) + g /\ g \in Nat /\ Len(scopes) \in Nat /\ Len(return_scopes) \in Nat
      BY <1>0, <1>10
    <3>2. Tally(open', {"if", "while"}) = Tally(open, {"if", "while"}) + (IF x.op \in {"if", "while"} THEN 1 ELSE 0)
          /\ Tally(open, {"if", "while"}) \in Nat
      BY <1>5
    <3>3. Len(return_scopes) = 1 + Len(scopes) + Tally(open, {"if", "while"})
      BY <2>1
    <3>4. CASE x.op \in {"if", "while"}
      BY <3>1, <3>2, <3>3, <3>4
    <3>5. CASE x.op \notin {"if", "while"}
      BY <3>1, <3>2, <3>3, <3>5
    <3> QED BY <3>4, <3>5
  <2>5. Len(loop_scopes') = 1 + Tally(open', {"while"})
    <3>1. Len(loop_scopes') = Len(loop_scopes) + (IF x.op = "while" THEN 1 ELSE 0)
      BY <1>11
    <3>2. Tally(open', {"while"}) = Tally(open, {"while"}) + (IF x.op \in {"while"} THEN 1 ELSE 0)
          /\ Tally(open, {"while"}) \in Nat
      BY <1>5
    <3>3. Len(loop_scopes) = 1 + Tally(open, {"while"})
      BY <2>1
    <3>4. CASE x.op = "while"
      BY <3>1, <3>2, <3>3, <3>4
    <3>5. CASE x.op # "while"
      BY <3>1, <3>2, <3>3, <3>5
    <3> QED BY <3>4, <3>5
  <2>6. Len(function_scopes') = 1 + Tally(open', Bodies)
    <3>1. Len(function_scopes') = Len(function_scopes) + (IF x.op \in Bodies THEN 1 ELSE 0)
      BY <1>12
    <3>2. Tally(open', Bodies) = Tally(open, Bodies) + (IF x.op \in Bodies THEN 1 ELSE 0)
          /\ Tally(open, Bodies) \in Nat
      BY <1>5
    <3>3. Len(function_scopes) = 1 + Tally(open, Bodies)
      BY <2>1
    <3>4. CASE x.op \in Bodies
      BY <3>1, <3>2, <3>3, <3>4
    <3>5. CASE x.op \notin Bodies
      BY <3>1, <3>2, <3>3, <3>5
    <3> QED BY <3>4, <3>5
  <2>7. Len(class_scopes') = 1 + Tally(open', {"class"})
    <3>1. Len(class_scopes') = Len(class_scopes) + (IF x.op = "class" THEN 1 ELSE 0)
      BY <1>13
    <3>2. Tally(open', {"class"}) = Tally(open, {"class"}) + (IF x.op \in {"class"} THEN 1 ELSE 0)
          /\ Tally(open, {"class"}) \in Nat
      BY <1>5
    <3>3. Len(class_scopes) = 1 + Tally(open, {"class"})
      BY <2>1
    <3>4. CASE x.op = "class"
      BY <3>1, <3>2, <3>3, <3>4
    <3>5. CASE x.op # "class"
      BY <3>1, <3>2, <3>3, <3>5
    <3> QED BY <3>4, <3>5
  <2> QED BY <2>2, <2>3, <2>4, <2>5, <2>6, <2>7, CountsAreNext
<1>15. ResolverTypes'
  <2>1. return_scopes' # <<>>
    <3>1. Len(return_scopes') # 0
      BY <1>0, <1>10
    <3> QED BY <3>1
  <2> QED BY <1>3, <1>5, <1>11, <1>12, <1>13, <2>1 DEF ResolverTypes, LocalsNext, FunctionTypes, OpenStep
<1> QED BY <1>1, <1>8, <1>14, <1>15 DEF Base

\* No expression lies directly in a class.
LEMMA LambdaInside ==
  ASSUME NEW c, WellFormed(c), NEW o \in Seq(OpenType), Linked(c, o), NEW n \in 2..Len(o),
         o[n].op = "anonymous"
  PROVE  o[n - 1].op # "class"
<1> SUFFICES ASSUME o[n - 1].op = "class"
             PROVE  FALSE
  OBVIOUS
<1>1. /\ c \in Seq(NodeType) /\ Len(c) \in Nat /\ Len(o) \in Nat /\ DOMAIN o = 1..Len(o) /\ DOMAIN c = 1..Len(c)
      /\ n \in Nat /\ n \in 1..Len(o) /\ n - 1 \in 1..Len(o) /\ n - 1 \in Nat
  BY LenProperties DEF WellFormed
<1>2. /\ \A k \in 1..n - 2 : k \in 1..n - 1 - 1 /\ k \in DOMAIN o
      /\ \A k \in 1..n - 1 : k = n - 1 \/ k \in 1..n - 2
  BY <1>1
<1>3. /\ o[n].at \in 1..Len(c) /\ c[o[n].at].op = "anonymous" /\ Encl(c, o[n].at) = OpenHolds(o, n - 1)
      /\ o[n - 1].at \in 1..Len(c) /\ c[o[n - 1].at].op = "class"
      /\ \A k \in 1..n - 2 : o[k].at < o[n - 1].at
  BY <1>1, <1>2 DEF Linked
<1>4. o[n - 1].at \in OpenHolds(o, n - 1)
  BY <1>1 DEF OpenHolds
<1>5. \A j \in OpenHolds(o, n - 1) : j <= o[n - 1].at
  <2> TAKE j \in OpenHolds(o, n - 1)
  <2>1. PICK k \in 1..n - 1 : j = o[k].at
    BY DEF OpenHolds
  <2>2. CASE k = n - 1
    BY <1>1, <1>3, <2>1, <2>2
  <2>3. CASE k \in 1..n - 2
    <3>1. o[k].at < o[n - 1].at /\ k \in DOMAIN o
      BY <1>2, <1>3, <2>3
    <3>2. o[k].at \in DOMAIN c
      BY <3>1 DEF Linked
    <3> QED BY <1>1, <1>3, <2>1, <3>1, <3>2
  <2> QED BY <1>2, <2>1, <2>2, <2>3
<1>6. o[n].at \in 1..Len(c) + 1
  BY <1>1, <1>3
<1>7. /\ Inmost(c, o[n].at) \in Encl(c, o[n].at) /\ Inmost(c, o[n].at) \in Nat
      /\ o[n - 1].at <= Inmost(c, o[n].at) /\ Encl(c, o[n].at) # {}
  BY <1>1, <1>3, <1>4, <1>6, EnclIs, SMTT(30)
<1>8. Inmost(c, o[n].at) = o[n - 1].at
  BY <1>1, <1>3, <1>5, <1>7
<1>9. Fits(c, o[n].at)
  BY <1>1, <1>3 DEF WellFormed
<1> QED BY <1>3, <1>7, <1>8, <1>9 DEF Fits

\* An end.
EndNode == [op |-> "end", name |-> None, arg |-> {}, at |-> Last(open).at]

CloseStep(k, r) ==
  /\ Inner \in Nesting /\ code' = Append(code, EndNode) /\ open' = Front(open)
  /\ scopes' = SubSeq(scopes, 1, Len(scopes) - k)
  /\ return_scopes' = SubSeq(return_scopes, 1, Len(return_scopes) - r)
  /\ UNCHANGED locals /\ UNCHANGED had_error /\ mid' \in BOOLEAN /\ (mid' => Inner = "anonymous")
  /\ loop_scopes' = IF Inner = "while" THEN Front(loop_scopes) ELSE loop_scopes
  /\ function_scopes' = IF Inner \in Bodies THEN Front(function_scopes) ELSE function_scopes
  /\ class_scopes' = IF Inner = "class" THEN Front(class_scopes) ELSE class_scopes
  /\ k = IF Inner = "class" /\ Last(class_scopes) = "SUBCLASS" THEN 2 ELSE 1
  /\ r = IF Inner \in {"if", "while"} THEN k + 1 ELSE k

\* The three ends as one kind of step.
LEMMA ClosesAre ==
  /\ EndBlock => \E r : CloseStep(1, r)
  /\ EndFunction => CloseStep(1, 1)
  /\ EndClass => \E k : CloseStep(k, k)
<1>1. ASSUME EndBlock
      PROVE  CloseStep(1, IF Inner \in {"if", "while"} THEN 2 ELSE 1)
  <2>1. Inner \in {"block", "if", "while"}
    BY <1>1 DEF EndBlock
  <2>2. Inner \in Nesting /\ Inner \notin Bodies /\ Inner # "class"
    BY <2>1 DEF Nesting, Bodies
  <2>3. (IF Inner = "block" THEN 1 ELSE 2) = (IF Inner \in {"if", "while"} THEN 2 ELSE 1)
    BY <2>1
  <2>4. Close(1, IF Inner \in {"if", "while"} THEN 2 ELSE 1, {})
    BY <1>1, <2>3 DEF EndBlock
  <2>5. 1 = (IF Inner = "class" /\ Last(class_scopes) = "SUBCLASS" THEN 2 ELSE 1) /\ 2 = 1 + 1
    BY <2>2
  <2>6. mid' = FALSE /\ UNCHANGED <<function_scopes, class_scopes>>
        /\ loop_scopes' = IF Inner = "while" THEN Front(loop_scopes) ELSE loop_scopes
    BY <1>1 DEF EndBlock
  <2> QED BY <2>2, <2>4, <2>5, <2>6 DEF CloseStep, Close, Visit, EndNode
<1>2. ASSUME EndFunction
      PROVE  CloseStep(1, 1)
  <2>1. Inner \in Bodies /\ Inner \in Nesting /\ Inner \notin {"if", "while", "class"}
    BY <1>2 DEF EndFunction, Nesting, Bodies
  <2> QED BY <1>2, <2>1 DEF EndFunction, CloseStep, Close, Visit, EndNode
<1>3. ASSUME EndClass
      PROVE  \E k : CloseStep(k, k)
  <2> DEFINE both == IF Last(class_scopes) = "SUBCLASS" THEN 2 ELSE 1
  <2>1. Inner = "class" /\ Inner \in Nesting /\ Inner \notin Bodies
    BY <1>3 DEF EndClass, Nesting, Bodies
  <2>2. CloseStep(both, both)
    BY <1>3, <2>1 DEF EndClass, CloseStep, Close, Visit, EndNode
  <2> QED BY <2>2
<1> QED BY <1>1, <1>2, <1>3

\* What is open, when an end comes.
LEMMA CloseIs ==
  ASSUME Base, NEW k, NEW r, CloseStep(k, r)
  PROVE  /\ open # <<>> /\ Last(open).op = Inner /\ Inner \in Nesting /\ Last(open).op # "var"
         /\ EndNode \in NodeType /\ Suits(code, EndNode)
         /\ Encl(code, Here) # {} /\ Inmost(code, Here) = Last(open).at /\ code[Last(open).at].op = Inner
         /\ WellFormed(code) /\ WellFormed(Append(code, EndNode)) /\ code' = Append(code, EndNode)
<1>1. Inner \in Nesting /\ code' = Append(code, EndNode)
  BY DEF CloseStep
<1>2. open # <<>> /\ Last(open).op = Inner /\ Inner # "var"
  BY <1>1, ResolverAssumption DEF Inner, None, Nesting, Bodies
<1>3. open \in Seq(OpenType) /\ WellFormed(code) /\ Linked(code, open)
  BY DEF Base, ResolverTypes
<1>4. /\ Encl(code, Here) # {} /\ Inmost(code, Here) = Last(open).at
      /\ code[Last(open).at].op = Last(open).op
  BY <1>2, <1>3, InnerIs DEF Here
<1>5. Last(open).at \in Nat
  <2>1. Last(open) \in OpenType
    BY <1>2, <1>3, FrontIs
  <2> QED BY <2>1 DEF OpenType
<1>6. EndNode \in NodeType
  BY <1>5 DEF EndNode, NodeType
<1>7. EndNode.op = "end" /\ EndNode.at = Last(open).at
  BY DEF EndNode
<1>8. Suits(code, EndNode)
  BY <1>4, <1>7 DEF Suits, Here, Bodies
<1>9. WellFormed(Append(code, EndNode))
  BY <1>3, <1>6, <1>8, WellFormedNext
<1> QED BY <1>1, <1>2, <1>3, <1>4, <1>6, <1>8, <1>9

\* How many scopes it leaves.
LEMMA CloseCounts ==
  ASSUME Base, NEW k, NEW r, CloseStep(k, r)
  PROVE  /\ k \in 1..Len(scopes) /\ r \in 1..Len(return_scopes) - 1
         /\ Subclasses(class_scopes') = Subclasses(class_scopes) - (k - 1) /\ Counts'
         /\ Len(class_scopes) \in Nat /\ (Inner = "class" => Len(class_scopes) > 1)
         /\ Len(function_scopes) \in Nat /\ (Inner \in Bodies => Len(function_scopes) > 1)
         /\ Len(loop_scopes) \in Nat /\ (Inner = "while" => Len(loop_scopes) > 1)
<1>1. open # <<>> /\ Last(open).op = Inner /\ Inner \in Nesting
  BY CloseIs
<1>2. open \in Seq(OpenType) /\ class_scopes \in Seq({"NONE", "CLASS", "SUBCLASS"}) /\ class_scopes # <<>>
      /\ function_scopes \in Seq(FunctionTypes) /\ function_scopes # <<>>
      /\ loop_scopes \in Seq({"NONE", "WHILE"}) /\ loop_scopes # <<>>
      /\ scopes \in Seq(ScopeTypes) /\ return_scopes \in Seq(BOOLEAN)
  BY DEF Base, ResolverTypes, FunctionTypes
<1>3. /\ open' = Front(open)
      /\ scopes' = SubSeq(scopes, 1, Len(scopes) - k)
      /\ return_scopes' = SubSeq(return_scopes, 1, Len(return_scopes) - r)
      /\ loop_scopes' = IF Inner = "while" THEN Front(loop_scopes) ELSE loop_scopes
      /\ function_scopes' = IF Inner \in Bodies THEN Front(function_scopes) ELSE function_scopes
      /\ class_scopes' = IF Inner = "class" THEN Front(class_scopes) ELSE class_scopes
      /\ k = IF Inner = "class" /\ Last(class_scopes) = "SUBCLASS" THEN 2 ELSE 1
      /\ r = IF Inner \in {"if", "while"} THEN k + 1 ELSE k
      /\ code' = Append(code, EndNode)
  BY DEF CloseStep
<1>4. \A ops : /\ Tally(open, ops) = Tally(open', ops) + (IF Inner \in ops THEN 1 ELSE 0)
               /\ Tally(open', ops) \in Nat
  BY <1>1, <1>2, <1>3, TallyFront
<1>5. /\ Len(scopes) = Tally(open, Nesting) + Subclasses(class_scopes)
      /\ Len(scopes) <= 2 * Len(code)
      /\ Len(return_scopes) = 1 + Len(scopes) + Tally(open, {"if", "while"})
      /\ Len(loop_scopes) = 1 + Tally(open, {"while"})
      /\ Len(function_scopes) = 1 + Tally(open, Bodies)
      /\ Len(class_scopes) = 1 + Tally(open, {"class"})
  BY CountsAre DEF Base
<1>6. /\ Subclasses(class_scopes') = Subclasses(class_scopes) - (k - 1)
      /\ Subclasses(class_scopes') \in Nat /\ Subclasses(class_scopes) \in Nat
  <2>1. /\ Subclasses(class_scopes) = Subclasses(Front(class_scopes)) + (IF Last(class_scopes) = "SUBCLASS" THEN 1 ELSE 0)
        /\ Subclasses(Front(class_scopes)) \in Nat
    BY <1>2, SubclassesFront
  <2>2. Subclasses(class_scopes) \in Nat
    BY <2>1
  <2>3. CASE Inner = "class" /\ Last(class_scopes) = "SUBCLASS"
    BY <1>3, <2>1, <2>3
  <2>4. CASE Inner = "class" /\ Last(class_scopes) # "SUBCLASS"
    BY <1>3, <2>1, <2>4
  <2>5. CASE Inner # "class"
    BY <1>3, <2>2, <2>5
  <2> QED BY <2>3, <2>4, <2>5
<1>7. k \in 1..2 /\ k \in Nat /\ k - 1 \in Nat
  BY <1>3
<1>8. /\ Tally(open, Nesting) = Tally(open', Nesting) + 1 /\ Tally(open', Nesting) \in Nat
      /\ Tally(open', {"if", "while"}) \in Nat /\ Tally(open', {"while"}) \in Nat
      /\ Tally(open', Bodies) \in Nat /\ Tally(open', {"class"}) \in Nat
      /\ Tally(open, {"if", "while"}) = Tally(open', {"if", "while"}) + (IF Inner \in {"if", "while"} THEN 1 ELSE 0)
      /\ Tally(open, {"while"}) = Tally(open', {"while"}) + (IF Inner = "while" THEN 1 ELSE 0)
      /\ Tally(open, Bodies) = Tally(open', Bodies) + (IF Inner \in Bodies THEN 1 ELSE 0)
      /\ Tally(open, {"class"}) = Tally(open', {"class"}) + (IF Inner = "class" THEN 1 ELSE 0)
  BY <1>1, <1>4
<1>9. Len(scopes) - k = Tally(open', Nesting) + Subclasses(class_scopes') /\ k <= Len(scopes) /\ Len(scopes) \in Nat
  <2>1. /\ Len(scopes) = Tally(open, Nesting) + Subclasses(class_scopes)
        /\ Tally(open, Nesting) = Tally(open', Nesting) + 1 /\ Tally(open', Nesting) \in Nat
        /\ Subclasses(class_scopes') = Subclasses(class_scopes) - (k - 1)
        /\ Subclasses(class_scopes') \in Nat /\ Subclasses(class_scopes) \in Nat /\ k \in 1..2
    BY <1>5, <1>6, <1>7, <1>8
  <2>2. Subclasses(class_scopes) = Subclasses(class_scopes') + (k - 1)
    BY <2>1
  <2> QED BY <2>1, <2>2
<1>10. /\ Len(return_scopes) - r = 1 + (Len(scopes) - k) + Tally(open', {"if", "while"})
       /\ r \in Nat /\ r >= 1 /\ r < Len(return_scopes) /\ Len(return_scopes) \in Nat
  <2>1. CASE Inner \in {"if", "while"}
    <3>1. /\ Len(return_scopes) = 1 + Len(scopes) + Tally(open, {"if", "while"})
          /\ Tally(open, {"if", "while"}) = Tally(open', {"if", "while"}) + 1
          /\ Tally(open', {"if", "while"}) \in Nat /\ r = k + 1
      BY <1>3, <1>5, <1>7, <1>8, <2>1
    <3> QED BY <1>7, <1>9, <3>1
  <2>2. CASE Inner \notin {"if", "while"}
    <3>1. /\ Len(return_scopes) = 1 + Len(scopes) + Tally(open, {"if", "while"})
          /\ Tally(open, {"if", "while"}) = Tally(open', {"if", "while"}) + 0
          /\ Tally(open', {"if", "while"}) \in Nat /\ r = k + 0
      BY <1>3, <1>5, <1>7, <1>8, <2>2
    <3> QED BY <1>7, <1>9, <3>1
  <2> QED BY <2>1, <2>2
<1>11. k \in 1..Len(scopes) /\ r \in 1..Len(return_scopes) - 1
  BY <1>7, <1>9, <1>10
<1>12. Len(scopes') = Len(scopes) - k /\ Len(return_scopes') = Len(return_scopes) - r
  <2>1. k \in 0..Len(scopes) /\ r \in 0..Len(return_scopes)
    BY <1>7, <1>9, <1>10
  <2> QED BY <1>2, <1>3, <2>1, Shortened, ZenonT(30)
<1>13. /\ Len(loop_scopes) \in Nat /\ Len(function_scopes) \in Nat /\ Len(class_scopes) \in Nat
       /\ Len(Front(loop_scopes)) = Len(loop_scopes) - 1
       /\ Len(Front(function_scopes)) = Len(function_scopes) - 1
       /\ Len(Front(class_scopes)) = Len(class_scopes) - 1
  BY <1>2, FrontIs
<1>14. Len(loop_scopes') = 1 + Tally(open', {"while"}) /\ (Inner = "while" => Len(loop_scopes) > 1)
  <2>1. CASE Inner = "while"
    <3>1. Len(loop_scopes) = 1 + Tally(open, {"while"}) /\ Tally(open, {"while"}) = Tally(open', {"while"}) + 1
      BY <1>5, <1>8, <2>1
    <3>2. Len(loop_scopes') = Len(loop_scopes) - 1 /\ Tally(open', {"while"}) \in Nat
      BY <1>3, <1>8, <1>13, <2>1
    <3> QED BY <3>1, <3>2
  <2>2. CASE Inner # "while"
    BY <1>3, <1>5, <1>8, <1>13, <2>2
  <2> QED BY <2>1, <2>2
<1>15. Len(function_scopes') = 1 + Tally(open', Bodies) /\ (Inner \in Bodies => Len(function_scopes) > 1)
  <2>1. CASE Inner \in Bodies
    <3>1. Len(function_scopes) = 1 + Tally(open, Bodies) /\ Tally(open, Bodies) = Tally(open', Bodies) + 1
      BY <1>5, <1>8, <2>1
    <3>2. Len(function_scopes') = Len(function_scopes) - 1 /\ Tally(open', Bodies) \in Nat
      BY <1>3, <1>8, <1>13, <2>1
    <3> QED BY <3>1, <3>2
  <2>2. CASE Inner \notin Bodies
    BY <1>3, <1>5, <1>8, <1>13, <2>2, SMTT(30)
  <2> QED BY <2>1, <2>2
<1>16. Len(class_scopes') = 1 + Tally(open', {"class"}) /\ (Inner = "class" => Len(class_scopes) > 1)
  <2>1. CASE Inner = "class"
    <3>1. Len(class_scopes) = 1 + Tally(open, {"class"}) /\ Tally(open, {"class"}) = Tally(open', {"class"}) + 1
      BY <1>5, <1>8, <2>1
    <3>2. Len(class_scopes') = Len(class_scopes) - 1 /\ Tally(open', {"class"}) \in Nat
      BY <1>3, <1>8, <1>13, <2>1
    <3> QED BY <3>1, <3>2
  <2>2. CASE Inner # "class"
    BY <1>3, <1>5, <1>8, <1>13, <2>2
  <2> QED BY <2>1, <2>2
<1>17. Len(scopes') <= 2 * Len(code')
  <2>1. Len(code) \in Nat /\ Len(code') = Len(code) + 1
    BY <1>3, CloseIs, Appended DEF WellFormed
  <2> QED BY <1>5, <1>7, <1>9, <1>12, <2>1
<1>18. Counts'
  BY <1>9, <1>10, <1>12, <1>14, <1>15, <1>16, <1>17, CountsAreNext
<1> QED BY <1>6, <1>11, <1>13, <1>14, <1>15, <1>16, <1>18

\* The end of a construct keeps the stacks and the text in order.
LEMMA BaseClose ==
  ASSUME Base, NEW k, NEW r, CloseStep(k, r)
  PROVE  Base'
<1>1. /\ open # <<>> /\ Last(open).op = Inner /\ Inner \in Nesting /\ Last(open).op # "var"
      /\ EndNode \in NodeType /\ WellFormed(code) /\ WellFormed(Append(code, EndNode))
      /\ code' = Append(code, EndNode)
  BY CloseIs
<1>2. open \in Seq(OpenType) /\ class_scopes \in Seq({"NONE", "CLASS", "SUBCLASS"}) /\ class_scopes # <<>>
      /\ function_scopes \in Seq(FunctionTypes) /\ function_scopes # <<>>
      /\ loop_scopes \in Seq({"NONE", "WHILE"}) /\ loop_scopes # <<>>
      /\ scopes \in Seq(ScopeTypes) /\ return_scopes \in Seq(BOOLEAN)
      /\ class_scopes[1] = "NONE" /\ function_scopes[1] = "NONE"
      /\ Linked(code, open) /\ had_error \in BOOLEAN
  BY DEF Base, ResolverTypes, FunctionTypes
<1>3. /\ open' = Front(open)
      /\ scopes' = SubSeq(scopes, 1, Len(scopes) - k)
      /\ return_scopes' = SubSeq(return_scopes, 1, Len(return_scopes) - r)
      /\ UNCHANGED locals /\ UNCHANGED had_error /\ mid' \in BOOLEAN /\ (mid' => Inner = "anonymous")
      /\ loop_scopes' = IF Inner = "while" THEN Front(loop_scopes) ELSE loop_scopes
      /\ function_scopes' = IF Inner \in Bodies THEN Front(function_scopes) ELSE function_scopes
      /\ class_scopes' = IF Inner = "class" THEN Front(class_scopes) ELSE class_scopes
  BY DEF CloseStep
<1>4. /\ k \in 1..Len(scopes) /\ r \in 1..Len(return_scopes) - 1 /\ Counts'
      /\ Len(class_scopes) \in Nat /\ (Inner = "class" => Len(class_scopes) > 1)
      /\ Len(function_scopes) \in Nat /\ (Inner \in Bodies => Len(function_scopes) > 1)
      /\ Len(loop_scopes) \in Nat /\ (Inner = "while" => Len(loop_scopes) > 1)
  BY CloseCounts
<1>5. EndNode.op = "end" /\ EndNode.at = Last(open).at
  BY DEF EndNode
<1>6. Linked(code, open)' /\ open' \in Seq(OpenType)
  BY <1>1, <1>2, <1>3, <1>5, LinkedClose
<1>7. LocalsNext
  BY <1>3, LocalsSame
<1>8. DOMAIN code' = 1..Len(code) + 1
  BY <1>1, Appended DEF WellFormed
<1>9. scopes' \in Seq(ScopeTypes) /\ return_scopes' \in Seq(BOOLEAN) /\ return_scopes' # <<>>
  <2>1. /\ k \in 0..Len(scopes) /\ r \in 0..Len(return_scopes) /\ Len(return_scopes) - r # 0
    BY <1>2, <1>4, LenProperties
  <2>2. scopes' \in Seq(ScopeTypes)
    BY <1>2, <1>3, <2>1, Shortened
  <2>3. return_scopes' \in Seq(BOOLEAN) /\ Len(return_scopes') = Len(return_scopes) - r
    BY <1>2, <1>3, <2>1, Shortened
  <2>4. Len(return_scopes') # 0
    BY <2>1, <2>3
  <2> QED BY <2>2, <2>3, <2>4
<1>10. loop_scopes' \in Seq({"NONE", "WHILE"}) /\ loop_scopes' # <<>>
  <2>1. CASE Inner = "while"
    <3>1. /\ Front(loop_scopes) \in Seq({"NONE", "WHILE"}) /\ Len(Front(loop_scopes)) = Len(loop_scopes) - 1
      BY <1>2, FrontIs
    <3>2. Len(Front(loop_scopes)) # 0
      BY <1>4, <2>1, <3>1
    <3> QED BY <1>3, <2>1, <3>1, <3>2
  <2>2. CASE Inner # "while"
    BY <1>2, <1>3, <2>2
  <2> QED BY <2>1, <2>2
<1>11. function_scopes' \in Seq(FunctionTypes) /\ function_scopes' # <<>> /\ function_scopes'[1] = "NONE"
  <2>1. CASE Inner \in Bodies
    <3>1. /\ Front(function_scopes) \in Seq(FunctionTypes)
          /\ Len(Front(function_scopes)) = Len(function_scopes) - 1
          /\ \A i \in 1..Len(function_scopes) - 1 : Front(function_scopes)[i] = function_scopes[i]
      BY <1>2, FrontIs
    <3>2. Len(Front(function_scopes)) # 0 /\ 1 \in 1..Len(function_scopes) - 1
      BY <1>4, <2>1, <3>1
    <3>3. Front(function_scopes)[1] = "NONE" /\ Front(function_scopes) # <<>>
      BY <1>2, <3>1, <3>2
    <3> QED BY <1>3, <2>1, <3>1, <3>3
  <2>2. CASE Inner \notin Bodies
    BY <1>2, <1>3, <2>2
  <2> QED BY <2>1, <2>2
<1>12. /\ class_scopes' \in Seq({"NONE", "CLASS", "SUBCLASS"}) /\ class_scopes' # <<>>
       /\ class_scopes'[1] = "NONE"
  <2>1. CASE Inner = "class"
    <3>1. /\ Front(class_scopes) \in Seq({"NONE", "CLASS", "SUBCLASS"})
          /\ Len(Front(class_scopes)) = Len(class_scopes) - 1
          /\ \A i \in 1..Len(class_scopes) - 1 : Front(class_scopes)[i] = class_scopes[i]
      BY <1>2, FrontIs
    <3>2. Len(Front(class_scopes)) # 0 /\ 1 \in 1..Len(class_scopes) - 1
      BY <1>4, <2>1, <3>1
    <3>3. Front(class_scopes)[1] = "NONE" /\ Front(class_scopes) # <<>>
      BY <1>2, <3>1, <3>2
    <3> QED BY <1>3, <2>1, <3>1, <3>3
  <2>2. CASE Inner # "class"
    BY <1>2, <1>3, <2>2
  <2> QED BY <2>1, <2>2
<1>13. mid' => Inner' # "class"
  <2> SUFFICES ASSUME mid', open' # <<>>
               PROVE  Last(open').op # "class"
    BY DEF Inner, None
  <2>1. Inner = "anonymous"
    BY <1>3
  <2> DEFINE n == Len(open)
  <2>2. /\ n \in Nat \ {0} /\ Len(Front(open)) = n - 1 /\ \A i \in 1..n - 1 : Front(open)[i] = open[i]
        /\ Last(open) = open[n] /\ Front(open) \in Seq(OpenType)
    BY <1>1, <1>2, FrontIs
  <2>3. n - 1 # 0
    BY <1>3, <2>2, EmptySeq
  <2> HIDE DEF n
  <2>4. n \in 2..n /\ n - 1 \in 1..n - 1
    BY <2>2, <2>3
  <2>5. open[n - 1].op # "class"
    BY <1>1, <1>2, <2>1, <2>2, <2>4, LambdaInside DEF n
  <2>6. Last(open') = open[n - 1]
    BY <1>3, <2>2, <2>4 DEF Last
  <2> QED BY <2>5, <2>6
<1>14. ResolverTypes'
  BY <1>2, <1>3, <1>6, <1>7, <1>8, <1>9, <1>10, <1>11, <1>12, <1>13 DEF ResolverTypes, LocalsNext, FunctionTypes
<1> QED BY <1>1, <1>4, <1>6, <1>14 DEF Base

-----------------------------------------------------------------------------
(* The actions keep the stacks and the text in order.                      *)

\* The inmost node is a class where methods are expected, and only there.
LEMMA InnerClass ==
  ASSUME Base
  PROVE  /\ Inner = "class" => Encl(code, Here) # {} /\ code[Inmost(code, Here)].op = "class"
         /\ Inner # "class" /\ Encl(code, Here) # {} => code[Inmost(code, Here)].op # "class"
         /\ Inner \notin {"class", "var"} /\ Encl(code, Here) # {} =>
              open # <<>> /\ Inmost(code, Here) = Last(open).at /\ code[Last(open).at].op = Last(open).op
<1>1. open \in Seq(OpenType) /\ WellFormed(code) /\ Linked(code, open)
  BY DEF Base, ResolverTypes
<1>2. CASE open = <<>>
  <2>1. Encl(code, Here) = {} /\ Inner = None
    BY <1>1, <1>2, InnerIs DEF Here, Inner
  <2>2. Inner # "class"
    BY <2>1 DEF None
  <2> QED BY <2>1, <2>2
<1>3. CASE open # <<>> /\ Last(open).op # "var"
  <2>1. /\ Encl(code, Here) # {} /\ Inmost(code, Here) = Last(open).at
        /\ code[Last(open).at].op = Last(open).op /\ Inner = Last(open).op
    BY <1>1, <1>3, InnerIs DEF Here, Inner
  <2> QED BY <1>3, <2>1
<1>4. CASE open # <<>> /\ Last(open).op = "var"
  <2>1. /\ Encl(code, Here) # {} => code[Inmost(code, Here)].op # "class"
        /\ Inner = "var"
    BY <1>1, <1>4, InnerIs DEF Here, Inner
  <2> QED BY <2>1
<1> QED BY <1>2, <1>3, <1>4

\* What the guards of the actions say of the node they visit.
LEMMA NodeSuits ==
  ASSUME Base, NEW op \in Nesting \cup Leaves \cup {"var"},
         NEW name \in Name \cup Member \cup {None, "this"},
         NEW arg \in SUBSET (Name \cup {"value", "argument"}), NEW at \in Nat,
         (op \in {"method", "getter"}) = (Inner = "class"),
         op \in {"var", "define", "fun", "class", "variable", "assign"} => name \in Name,
         op = "this" => name = "this",
         op \in Bodies \cup {"class"} => arg \subseteq Name
  PROVE  LET x == [op |-> op, name |-> name, arg |-> arg, at |-> at] IN
         x \in NodeType /\ Suits(code, x)
<1> DEFINE x == [op |-> op, name |-> name, arg |-> arg, at |-> at]
<1>1. x \in NodeType /\ x.op = op /\ x.name = name /\ x.arg = arg
  BY DEF NodeType
<1>2. op # "end"
  BY DEF Nesting, Bodies, Leaves
<1> HIDE DEF x
<1>3. Suits(code, x)
  BY <1>1, <1>2, InnerClass DEF Suits, Here
<1> QED BY <1>1, <1>3 DEF x

\* _define pops the variable.
LEMMA BaseDefine ==
  ASSUME Base, VarDefined
  PROVE  /\ Base' /\ open # <<>> /\ Last(open).op = "var" /\ Last(open).name \in Name /\ Last(open).at \in Nat
         /\ LET x == [op |-> "define", name |-> Last(open).name, arg |-> {}, at |-> Last(open).at]
            IN x \in NodeType /\ Suits(code, x) /\ code' = Append(code, x)
<1> DEFINE x == [op |-> "define", name |-> Last(open).name, arg |-> {}, at |-> Last(open).at]
<1>1. Inner = "var" /\ open # <<>> /\ Last(open).op = "var"
  BY DEF VarDefined, Inner, None
<1>2. open \in Seq(OpenType) /\ WellFormed(code) /\ Linked(code, open) /\ scopes \in Seq(ScopeTypes)
  BY DEF Base, ResolverTypes
<1>3. /\ Last(open) \in OpenType /\ Last(open) = open[Len(open)] /\ Len(open) \in DOMAIN open
      /\ Len(Front(open)) = Len(open) - 1 /\ Len(open) \in Nat \ {0}
      /\ \A i \in 1..Len(open) - 1 : Front(open)[i] = open[i]
  <2>1. /\ Last(open) \in OpenType /\ Last(open) = open[Len(open)] /\ Len(open) \in Nat \ {0}
        /\ DOMAIN open = 1..Len(open) /\ Len(Front(open)) = Len(open) - 1
        /\ \A i \in 1..Len(open) - 1 : Front(open)[i] = open[i]
    BY <1>1, <1>2, FrontIs
  <2> QED BY <2>1
<1>4. Last(open).at \in Nat /\ Last(open).name \in Name \cup Member \cup {None, "this"}
  BY <1>3 DEF OpenType
<1>5. /\ Last(open).at \in DOMAIN code /\ code[Last(open).at].op = "var"
      /\ code[Last(open).at].name = Last(open).name
  BY <1>1, <1>2, <1>3 DEF Linked
<1>6. Last(open).name \in Name
  BY <1>2, <1>5 DEF WellFormed, Fits
<1>7. "define" \in Nesting \cup Leaves \cup {"var"} /\ "define" \notin Bodies
  BY DEF Leaves, Bodies
<1>8. x \in NodeType /\ Suits(code, x)
  <2>1. /\ ("define" \in {"method", "getter"}) = (Inner = "class")
        /\ {} \in SUBSET (Name \cup {"value", "argument"})
    BY <1>1
  <2> QED BY <1>4, <1>6, <1>7, <2>1, NodeSuits
<1>9. /\ code' = Append(code, x) /\ open' = Front(open) /\ mid' = FALSE
      /\ scopes' = Defined(scopes, Last(open).name)
      /\ UNCHANGED <<enclosing, return_scopes, locals, warnings, had_error>>
  BY DEF VarDefined, Visit
<1>10. x.op = "define" /\ x.name = Last(open).name /\ x.at = Last(open).at
  OBVIOUS
<1> HIDE DEF x
<1>11. WellFormed(Append(code, x))
  BY <1>2, <1>8, WellFormedNext
<1>12. Linked(Append(code, x), Front(open)) /\ Front(open) \in Seq(OpenType)
  BY <1>1, <1>2, <1>8, <1>10, <1>11, LinkedClose
<1>13. scopes' \in Seq(ScopeTypes) /\ Len(scopes') = Len(scopes)
  BY <1>2, <1>9, DefinedIs
<1>14. LocalsNext
  BY <1>9, LocalsSame
<1>15. \A ops : "var" \notin ops => Tally(open', ops) = Tally(open, ops)
  <2> TAKE ops
  <2> HAVE "var" \notin ops
  <2>1. /\ Tally(open, ops) = Tally(Front(open), ops) + (IF Last(open).op \in ops THEN 1 ELSE 0)
        /\ Tally(Front(open), ops) \in Nat
    BY <1>1, <1>2, TallyFront
  <2> QED BY <1>1, <1>9, <2>1
<1>16. "var" \notin Nesting /\ "var" \notin Bodies /\ "var" \notin {"if", "while"}
       /\ "var" \notin {"while"} /\ "var" \notin {"class"}
  BY DEF Nesting, Bodies
<1>17. /\ Tally(open', Nesting) = Tally(open, Nesting) /\ Tally(open', Bodies) = Tally(open, Bodies)
       /\ Tally(open', {"if", "while"}) = Tally(open, {"if", "while"})
       /\ Tally(open', {"while"}) = Tally(open, {"while"})
       /\ Tally(open', {"class"}) = Tally(open, {"class"})
  BY <1>15, <1>16
<1>18. Len(code) \in Nat /\ Len(code') = Len(code) + 1 /\ DOMAIN code' = 1..Len(code) + 1
  BY <1>2, <1>8, <1>9, Appended DEF WellFormed
<1>19. UNCHANGED <<loop_scopes, function_scopes, class_scopes, return_scopes>>
  BY <1>9 DEF enclosing
<1>20. Counts'
  <2>1. /\ Len(scopes) = Tally(open, Nesting) + Subclasses(class_scopes)
        /\ Len(scopes) <= 2 * Len(code)
        /\ Len(return_scopes) = 1 + Len(scopes) + Tally(open, {"if", "while"})
        /\ Len(loop_scopes) = 1 + Tally(open, {"while"})
        /\ Len(function_scopes) = 1 + Tally(open, Bodies)
        /\ Len(class_scopes) = 1 + Tally(open, {"class"})
    BY CountsAre DEF Base
  <2>2. Len(scopes) \in Nat
    BY <1>2, LenProperties
  <2>3. Len(scopes') <= 2 * Len(code')
    BY <1>13, <1>18, <2>1, <2>2
  <2> QED BY <1>13, <1>17, <1>19, <2>1, <2>3, CountsAreNext
<1>21. ~mid'
  BY <1>9
<1>22. ResolverTypes'
  BY <1>9, <1>12, <1>13, <1>14, <1>18, <1>19, <1>21 DEF Base, ResolverTypes, LocalsNext
<1> QED BY <1>1, <1>4, <1>6, <1>8, <1>9, <1>11, <1>12, <1>20, <1>22 DEF Base, x

\* What the visits of leaves have in common; a leaf may look up a name.
Looking == {"variable", "assign", "this", "super"}
Named1(x) == IF x.op = "super" THEN "super" ELSE x.name

LeafStep(x) ==
  /\ code' = Append(code, x) /\ x.op \in Leaves \ {"define"}
  /\ \/ open' = Started /\ warnings' = warnings \cup DeadHere
     \/ mid /\ UNCHANGED <<open, warnings>>
  /\ UNCHANGED enclosing /\ FlagsNext /\ (mid' => Inner # "class")
  /\ IF x.op = "return"
     THEN /\ return_scopes' = [return_scopes EXCEPT ![Len(return_scopes)] = TRUE]
          /\ AtStatement /\ ~mid' /\ (~had_error' => Last(function_scopes) # "NONE")
     ELSE UNCHANGED return_scopes
  /\ IF x.op \in Looking
     THEN ResolveLocal(scopes, Named1(x)) /\ scopes' = Accessed(scopes, Named1(x))
     ELSE UNCHANGED <<locals, scopes>>
  /\ x.op = "super" /\ ~had_error' => Last(class_scopes) = "SUBCLASS"

\* Each visit of a node that holds no other is such a step.
LEMMA LeafSteps ==
  ASSUME Base, \/ Break \/ Return \/ Variable \/ This \/ Super \/ Suffix \/ Assign
  PROVE  \E x \in NodeType : Suits(code, x) /\ LeafStep(x)
<1>0. ASSUME NEW op \in Leaves \ {"define"}, NEW name \in Name \cup Member \cup {None, "this"},
             NEW arg \in SUBSET (Name \cup {"value", "argument"}), Inner # "class",
             op \in {"variable", "assign"} => name \in Name,
             op = "this" => name = "this"
      PROVE  LET x == [op |-> op, name |-> name, arg |-> arg, at |-> 0] IN
             x \in NodeType /\ Suits(code, x)
  <2>1. /\ op \in Nesting \cup Leaves \cup {"var"} /\ 0 \in Nat
        /\ (op \in {"method", "getter"}) = (Inner = "class")
        /\ op \in {"var", "define", "fun", "class", "variable", "assign"} => name \in Name
        /\ op \in Bodies \cup {"class"} => arg \subseteq Name
    BY <1>0 DEF Leaves, Bodies
  <2> QED BY <1>0, <2>1, NodeSuits
<1>1. mid \in BOOLEAN /\ had_error \in BOOLEAN /\ (mid => Inner # "class")
  BY DEF Base, ResolverTypes
<1>2. AtStatement \/ Inner = "var" => Inner # "class"
  BY DEF AtStatement
<1>3. CASE Break
  <2> DEFINE x == [op |-> "break", name |-> None, arg |-> {}, at |-> 0]
  <2>1. x \in NodeType /\ Suits(code, x)
    BY <1>0, <1>2, <1>3 DEF Break, Statement, Leaves
  <2>2. x.op = "break"
    OBVIOUS
  <2>3. code' = Append(code, x)
    BY <1>3 DEF Break, Visit
  <2> HIDE DEF x
  <2>4. LeafStep(x)
    BY <1>2, <1>3, <2>2, <2>3 DEF Break, Statement, LeafStep, Leaves, Looking, FlagsNext
  <2> QED BY <2>1, <2>4
<1>4. CASE Return
  <2>1. PICK valued \in {{}, {"value"}} : ReturnOf(valued)
    BY <1>4 DEF Return
  <2> DEFINE x == [op |-> "return", name |-> None, arg |-> valued, at |-> 0]
  <2>2. AtStatement
    BY <2>1 DEF ReturnOf, Statement
  <2>3. valued \in SUBSET (Name \cup {"value", "argument"})
    OBVIOUS
  <2>4. x \in NodeType /\ Suits(code, x)
    BY <1>0, <1>2, <2>2, <2>3 DEF Leaves
  <2>5. x.op = "return"
    OBVIOUS
  <2>6. code' = Append(code, x)
    BY <2>1 DEF ReturnOf, Visit
  <2> HIDE DEF x
  <2>7. \/ open' = Started /\ warnings' = warnings \cup DeadHere
        \/ mid /\ UNCHANGED <<open, warnings>>
    BY <2>1 DEF ReturnOf, Statement
  <2>8. LeafStep(x)
    BY <2>1, <2>2, <2>5, <2>6, <2>7 DEF ReturnOf, LeafStep, Leaves, Looking, FlagsNext
  <2> QED BY <2>4, <2>8
<1>5. CASE Variable
  <2>1. PICK n \in Name : /\ Visit("variable", n, {}, 0) /\ Primary /\ open' = Started
                          /\ Resolving(n) /\ had_error' = OwnInitializer(n)
    BY <1>5 DEF Variable
  <2> DEFINE x == [op |-> "variable", name |-> n, arg |-> {}, at |-> 0]
  <2>2. Inner # "class"
    BY <1>2, <2>1 DEF Primary
  <2>3. x \in NodeType /\ Suits(code, x)
    BY <1>0, <2>2 DEF Leaves
  <2>4. x.op = "variable" /\ x.name = n
    OBVIOUS
  <2>5. code' = Append(code, x)
    BY <2>1 DEF Visit
  <2> HIDE DEF x
  <2>6. LeafStep(x)
    <3>1. had_error' \in BOOLEAN
      BY <2>1 DEF OwnInitializer, Clash, Base, ResolverTypes
    <3>2. mid' = TRUE /\ UNCHANGED enclosing /\ UNCHANGED return_scopes
          /\ ResolveLocal(scopes, n) /\ scopes' = Accessed(scopes, n)
          /\ open' = Started /\ warnings' = warnings \cup DeadHere
      BY <2>1 DEF Resolving, Primary
    <3> QED BY <2>2, <2>4, <2>5, <3>1, <3>2 DEF LeafStep, Leaves, Looking, FlagsNext, Named1
  <2> QED BY <2>3, <2>6
<1>6. CASE This
  <2> DEFINE x == [op |-> "this", name |-> "this", arg |-> {}, at |-> 0]
  <2>2. Inner # "class"
    BY <1>2, <1>6 DEF Primary, This
  <2>3. x \in NodeType /\ Suits(code, x)
    BY <1>0, <2>2 DEF Leaves
  <2>4. x.op = "this" /\ x.name = "this"
    OBVIOUS
  <2>5. code' = Append(code, x)
    BY <1>6 DEF This, Visit
  <2> HIDE DEF x
  <2>6. LeafStep(x)
    <3>2. mid' = TRUE /\ UNCHANGED enclosing /\ UNCHANGED return_scopes /\ had_error' \in BOOLEAN
          /\ ResolveLocal(scopes, "this") /\ scopes' = Accessed(scopes, "this")
          /\ open' = Started /\ warnings' = warnings \cup DeadHere
      BY <1>6 DEF This, Resolving, Primary
    <3> QED BY <2>2, <2>4, <2>5, <3>2 DEF LeafStep, Leaves, Looking, FlagsNext, Named1
  <2> QED BY <2>3, <2>6
<1>7. CASE Super
  <2>1. PICK k \in Member : /\ Visit("super", k, {}, 0) /\ Primary /\ open' = Started
                            /\ Resolving("super") /\ had_error' = (Last(class_scopes) # "SUBCLASS")
    BY <1>7 DEF Super
  <2> DEFINE x == [op |-> "super", name |-> k, arg |-> {}, at |-> 0]
  <2>2. Inner # "class"
    BY <1>2, <2>1 DEF Primary
  <2>3. x \in NodeType /\ Suits(code, x)
    BY <1>0, <2>2 DEF Leaves
  <2>4. x.op = "super"
    OBVIOUS
  <2>5. code' = Append(code, x)
    BY <2>1 DEF Visit
  <2> HIDE DEF x
  <2>6. LeafStep(x)
    <3>2. mid' = TRUE /\ UNCHANGED enclosing /\ UNCHANGED return_scopes
          /\ ResolveLocal(scopes, "super") /\ scopes' = Accessed(scopes, "super")
          /\ open' = Started /\ warnings' = warnings \cup DeadHere
          /\ had_error' \in BOOLEAN /\ (~had_error' => Last(class_scopes) = "SUBCLASS")
      BY <2>1 DEF Resolving, Primary
    <3> QED BY <2>2, <2>4, <2>5, <3>2 DEF LeafStep, Leaves, Looking, FlagsNext, Named1
  <2> QED BY <2>3, <2>6
<1>8. CASE Suffix
  <2>1. /\ mid /\ UNCHANGED <<structure, scopes, enclosing, return_scopes, locals, warnings, had_error>>
    BY <1>8 DEF Suffix
  <2>2. Inner # "class"
    BY <1>1, <2>1
  <2>3. ASSUME NEW x \in NodeType, code' = Append(code, x), x.op \in {"call", "get"}
        PROVE  LeafStep(x)
    BY <1>1, <2>1, <2>2, <2>3 DEF LeafStep, Leaves, Looking, FlagsNext, structure
  <2>4. CASE \E args \in {{}, {"argument"}} : Visit("call", None, args, 0)
    <3>1. PICK args \in {{}, {"argument"}} : Visit("call", None, args, 0)
      BY <2>4
    <3> DEFINE x == [op |-> "call", name |-> None, arg |-> args, at |-> 0]
    <3>2. args \in SUBSET (Name \cup {"value", "argument"})
      OBVIOUS
    <3>3. x \in NodeType /\ Suits(code, x)
      BY <1>0, <2>2, <3>2 DEF Leaves
    <3>4. x.op \in {"call", "get"}
      OBVIOUS
    <3>5. code' = Append(code, x)
      BY <3>1 DEF Visit
    <3> HIDE DEF x
    <3> QED BY <2>3, <3>3, <3>4, <3>5
  <2>5. CASE \E k \in Member : Visit("get", k, {}, 0)
    <3>1. PICK k \in Member : Visit("get", k, {}, 0)
      BY <2>5
    <3> DEFINE x == [op |-> "get", name |-> k, arg |-> {}, at |-> 0]
    <3>3. x \in NodeType /\ Suits(code, x)
      BY <1>0, <2>2 DEF Leaves
    <3>4. x.op \in {"call", "get"}
      OBVIOUS
    <3>5. code' = Append(code, x)
      BY <3>1 DEF Visit
    <3> HIDE DEF x
    <3> QED BY <2>3, <3>3, <3>4, <3>5
  <2> QED BY <1>8, <2>4, <2>5 DEF Suffix
<1>9. CASE Assign
  <2>1. PICK n \in Name : /\ mid /\ Visit("assign", n, {}, 0)
                          /\ Resolving(n) /\ UNCHANGED <<open, warnings, had_error>>
    BY <1>9 DEF Assign
  <2> DEFINE x == [op |-> "assign", name |-> n, arg |-> {}, at |-> 0]
  <2>2. Inner # "class"
    BY <1>1, <2>1
  <2>3. x \in NodeType /\ Suits(code, x)
    BY <1>0, <2>2 DEF Leaves
  <2>4. x.op = "assign" /\ x.name = n
    OBVIOUS
  <2>5. code' = Append(code, x)
    BY <2>1 DEF Visit
  <2> HIDE DEF x
  <2>6. LeafStep(x)
    <3>2. mid' = TRUE /\ UNCHANGED enclosing /\ UNCHANGED return_scopes
          /\ ResolveLocal(scopes, n) /\ scopes' = Accessed(scopes, n)
      BY <2>1 DEF Resolving
    <3> QED BY <1>1, <2>1, <2>2, <2>4, <2>5, <3>2 DEF LeafStep, Leaves, Looking, FlagsNext, Named1
  <2> QED BY <2>3, <2>6
<1> QED BY <1>3, <1>4, <1>5, <1>6, <1>7, <1>8, <1>9

\* So leaves keep the stacks and the text in order.
LEMMA BaseLeafStep ==
  ASSUME Base, NEW x \in NodeType, Suits(code, x), LeafStep(x)
  PROVE  Base'
<1>1. /\ open \in Seq(OpenType) /\ scopes \in Seq(ScopeTypes)
      /\ return_scopes \in Seq(BOOLEAN) /\ return_scopes # <<>>
  BY DEF Base, ResolverTypes
<1>2. /\ code' = Append(code, x) /\ x.op \in Leaves /\ UNCHANGED enclosing /\ FlagsNext
      /\ (mid' => Inner # "class")
  BY DEF LeafStep
<1>3. Alike(open, open')
  <2>1. CASE open' = Started
    BY <1>1, <2>1, StartedIs
  <2>2. CASE open' = open
    BY <1>1, <2>2 DEF Alike
  <2> QED BY <2>1, <2>2 DEF LeafStep
<1>4. return_scopes' \in Seq(BOOLEAN) /\ Len(return_scopes') = Len(return_scopes)
  <2>1. Len(return_scopes) \in 1..Len(return_scopes)
    BY <1>1, EmptySeq
  <2>2. CASE x.op = "return"
    <3>1. return_scopes' = [return_scopes EXCEPT ![Len(return_scopes)] = TRUE]
      BY <2>2 DEF LeafStep
    <3> QED BY <1>1, <2>1, <3>1, ExceptSeq
  <2>3. CASE x.op # "return"
    BY <1>1, <2>3 DEF LeafStep
  <2> QED BY <2>2, <2>3
<1>5. scopes' \in Seq(ScopeTypes) /\ Len(scopes') = Len(scopes) /\ LocalsNext
  <2>1. CASE x.op \in Looking
    <3>1. ResolveLocal(scopes, Named1(x)) /\ scopes' = Accessed(scopes, Named1(x))
      BY <2>1 DEF LeafStep
    <3>2. scopes' \in Seq(ScopeTypes) /\ Len(scopes') = Len(scopes)
      BY <1>1, <3>1, AccessedIs
    <3>3. LocalsNext
      BY <1>1, <3>1, LocalsResolved
    <3> QED BY <3>2, <3>3
  <2>2. CASE x.op \notin Looking
    <3>1. UNCHANGED <<locals, scopes>>
      BY <2>2 DEF LeafStep
    <3> QED BY <1>1, <3>1, LocalsSame
  <2> QED BY <2>1, <2>2
<1> QED BY <1>2, <1>3, <1>4, <1>5, BaseLeaf

\* The names a node looks up, and the scopes it opens.
Used(x) ==
  CASE x.op \in {"variable", "assign", "this"} -> {x.name}
    [] x.op = "super" -> {"super"}
    [] x.op = "class" -> x.arg
    [] OTHER -> {}

Declaring == {"var", "fun", "class"}

NewScopes(x) ==
  CASE x.op \in Bodies -> <<[n \in x.arg |-> [defined |-> TRUE, accessed |-> FALSE]]>>
    [] x.op = "class"  -> IF x.arg = {} THEN <<Entry("this", Known)>>
                          ELSE <<Entry("super", Known), Entry("this", Known)>>
    [] x.op = "var"    -> <<>>
    [] OTHER           -> <<NoName>>

\* The scopes a node opens hold its parameters, this and super.
LEMMA NewScopesAre ==
  ASSUME NEW x \in NodeType, x.op \in Nesting \cup {"var"}, x.op \in Bodies => x.arg \subseteq Name
  PROVE  /\ NewScopes(x) \in Seq(ScopeTypes) /\ Len(NewScopes(x)) = Grown(x)
         /\ Grown(x) \in 0..2 /\ DOMAIN NewScopes(x) = 1..Grown(x)
<1>1. /\ Fresh \in States /\ Known \in States
      /\ \A D \in SUBSET (Name \cup Special) : \A f \in [D -> States] : f \in ScopeTypes
  BY ScopeIs
<1>2. CASE x.op \in Bodies
  <2> DEFINE f == [n \in x.arg |-> [defined |-> TRUE, accessed |-> FALSE]]
  <2>1. f \in [x.arg -> States]
    BY DEF States
  <2>2. x.arg \in SUBSET (Name \cup Special)
    BY <1>2
  <2>3. f \in ScopeTypes
    BY <1>1, <2>1, <2>2
  <2>4. NewScopes(x) = <<f>> /\ Grown(x) = 1
    <3>1. x.op \in Nesting /\ x.op # "class" /\ x.op # "var"
      BY <1>2 DEF Nesting, Bodies
    <3>2. Grown(x) = 1
      BY <3>1 DEF Grown
    <3>3. NewScopes(x) = <<f>>
      BY <1>2, <3>1 DEF NewScopes
    <3> QED BY <3>2, <3>3
  <2> HIDE DEF f
  <2> QED BY <2>3, <2>4
<1>3. CASE x.op = "class"
  <2>1. Entry("this", Known) \in ScopeTypes /\ Entry("super", Known) \in ScopeTypes
    <3>1. /\ Entry("this", Known) \in [{"this"} -> States] /\ Entry("super", Known) \in [{"super"} -> States]
          /\ {"this"} \in SUBSET (Name \cup Special) /\ {"super"} \in SUBSET (Name \cup Special)
      BY <1>1 DEF Entry, Special
    <3> QED BY <1>1, <3>1
  <2>2. x.op \notin Bodies /\ x.op \in Nesting
    BY <1>3 DEF Bodies, Nesting
  <2>3. CASE x.arg = {}
    <3>1. NewScopes(x) = <<Entry("this", Known)>> /\ Grown(x) = 1
      BY <1>3, <2>2, <2>3 DEF NewScopes, Grown
    <3> QED BY <2>1, <3>1
  <2>4. CASE x.arg # {}
    <3>1. NewScopes(x) = <<Entry("super", Known), Entry("this", Known)>> /\ Grown(x) = 2
      BY <1>3, <2>2, <2>4 DEF NewScopes, Grown
    <3> QED BY <2>1, <3>1
  <2> QED BY <2>3, <2>4
<1>4. CASE x.op = "var"
  <2>1. NewScopes(x) = <<>> /\ Grown(x) = 0
    BY <1>4 DEF NewScopes, Grown, Nesting, Bodies
  <2> QED BY <2>1
<1>5. CASE x.op \in Nesting \ (Bodies \cup {"class"})
  <2>1. NoName \in [{} -> States] /\ {} \in SUBSET (Name \cup Special)
    BY DEF NoName
  <2>2. NoName \in ScopeTypes
    BY <1>1, <2>1
  <2>3. NewScopes(x) = <<NoName>> /\ Grown(x) = 1
    BY <1>5 DEF NewScopes, Grown, Nesting
  <2> QED BY <2>2, <2>3
<1> QED BY <1>2, <1>3, <1>4, <1>5

\* The scopes after a node has declared its name and looked up the names it uses.
Marking(x, t) ==
  /\ t \in Seq(ScopeTypes) /\ Len(t) = Len(scopes)
  /\ \A k \in 1..Len(scopes) :
       /\ DOMAIN t[k] = DOMAIN scopes[k]
                        \cup (IF k = Len(scopes) /\ x.op \in Declaring THEN {x.name} ELSE {})
       /\ \A m \in DOMAIN scopes[k] : scopes[k][m].accessed => t[k][m].accessed
  /\ x.op \in Declaring /\ scopes # <<>> => x.name \notin DOMAIN scopes[Len(scopes)]
  /\ x.op \in Declaring => x.name \notin Used(x)
  /\ \A n \in Used(x) :
       /\ Holders(scopes, n) # {} => t[Len(scopes) - Min(Holders(scopes, n))][n].accessed
       /\ locals' = IF Holders(scopes, n) = {} THEN locals
                    ELSE Updated(locals, Here, Min(Holders(scopes, n)))
  /\ Used(x) = {} => UNCHANGED locals

\* Leaves look up their name, if any.
LEMMA LeafMarks ==
  ASSUME Base, NEW x \in NodeType, LeafStep(x)
  PROVE  Marking(x, scopes')
<1>1. scopes \in Seq(ScopeTypes)
  BY DEF Base, ResolverTypes
<1>2. x.op \in Leaves /\ x.op \notin Declaring /\ x.op # "class"
  BY DEF LeafStep, Leaves, Declaring
<1>3. CASE x.op \in Looking
  <2> DEFINE n == Named1(x)
  <2>1. ResolveLocal(scopes, n) /\ scopes' = Accessed(scopes, n)
    BY <1>3 DEF LeafStep
  <2>2. Used(x) = {n}
    BY <1>3 DEF Used, Named1, Looking
  <2> HIDE DEF n
  <2>3. /\ scopes' \in Seq(ScopeTypes) /\ Len(scopes') = Len(scopes)
        /\ \A k \in 1..Len(scopes) :
             /\ DOMAIN scopes'[k] = DOMAIN scopes[k]
             /\ \A m \in DOMAIN scopes[k] :
                  scopes'[k][m].accessed
                    = IF m = n /\ k = Len(scopes) - Min(Holders(scopes, n)) /\ Holders(scopes, n) # {}
                      THEN TRUE ELSE scopes[k][m].accessed
    <3>1. /\ Accessed(scopes, n) \in Seq(ScopeTypes) /\ Len(Accessed(scopes, n)) = Len(scopes)
          /\ \A k \in 1..Len(scopes) :
               /\ DOMAIN Accessed(scopes, n)[k] = DOMAIN scopes[k]
               /\ \A m \in DOMAIN scopes[k] :
                    Accessed(scopes, n)[k][m].accessed
                      = IF m = n /\ k = Len(scopes) - Min(Holders(scopes, n)) /\ Holders(scopes, n) # {}
                        THEN TRUE ELSE scopes[k][m].accessed
      BY <1>1, AccessedIs
    <3> QED BY <2>1, <3>1, Zenon
  <2>4. Holders(scopes, n) # {} => scopes'[Len(scopes) - Min(Holders(scopes, n))][n].accessed
    <3> HAVE Holders(scopes, n) # {}
    <3>1. /\ Len(scopes) - Min(Holders(scopes, n)) \in 1..Len(scopes)
          /\ n \in DOMAIN scopes[Len(scopes) - Min(Holders(scopes, n))]
      BY <1>1, HoldersAre
    <3> QED BY <2>3, <3>1
  <2>5. locals' = IF Holders(scopes, n) = {} THEN locals
                  ELSE Updated(locals, Here, Min(Holders(scopes, n)))
    BY <2>1 DEF ResolveLocal
  <2>6. \A k \in 1..Len(scopes) :
          /\ DOMAIN scopes'[k] = DOMAIN scopes[k]
          /\ \A m \in DOMAIN scopes[k] : scopes[k][m].accessed => scopes'[k][m].accessed
    BY <2>3
  <2> QED BY <1>2, <2>2, <2>3, <2>4, <2>5, <2>6 DEF Marking
<1>4. CASE x.op \notin Looking
  <2>1. scopes' = scopes /\ UNCHANGED locals
    BY <1>4 DEF LeafStep
  <2>2. Used(x) = {}
    BY <1>2, <1>4 DEF Used, Looking
  <2> QED BY <1>1, <1>2, <2>1, <2>2 DEF Marking
<1> QED BY <1>3, <1>4

\* Ends and definitions look up nothing.
LEMMA EndMarks ==
  ASSUME Base, UNCHANGED locals
  PROVE  /\ Marking(EndNode, scopes)
         /\ \A n, at : Marking([op |-> "define", name |-> n, arg |-> {}, at |-> at], Defined(scopes, n))
<1>1. scopes \in Seq(ScopeTypes)
  BY DEF Base, ResolverTypes
<1>2. Marking(EndNode, scopes)
  <2>1. EndNode.op = "end"
    BY DEF EndNode
  <2>2. Used(EndNode) = {} /\ EndNode.op \notin Declaring
    BY <2>1 DEF Used, Declaring
  <2> QED BY <1>1, <2>2 DEF Marking
<1>3. ASSUME NEW n, NEW at
      PROVE  Marking([op |-> "define", name |-> n, arg |-> {}, at |-> at], Defined(scopes, n))
  <2> DEFINE x == [op |-> "define", name |-> n, arg |-> {}, at |-> at]
  <2>1. x.op = "define"
    OBVIOUS
  <2> HIDE DEF x
  <2>2. Used(x) = {} /\ x.op \notin Declaring
    BY <2>1 DEF Used, Declaring
  <2>3. /\ Defined(scopes, n) \in Seq(ScopeTypes) /\ Len(Defined(scopes, n)) = Len(scopes)
        /\ \A k \in 1..Len(scopes) :
             /\ DOMAIN Defined(scopes, n)[k] = DOMAIN scopes[k]
             /\ \A m \in DOMAIN scopes[k] : Defined(scopes, n)[k][m].accessed = scopes[k][m].accessed
    BY <1>1, DefinedIs
  <2>4. Marking(x, Defined(scopes, n))
    BY <2>2, <2>3 DEF Marking
  <2> QED BY <2>4 DEF x
<1> QED BY <1>2, <1>3

\* The nodes that hold others: their own names are new where there is no error.
LEMMA OpenMarks ==
  ASSUME Base, NEW x \in NodeType, x.op \in Nesting \cup {"var"}
  PROVE  /\ x.op \notin Declaring /\ UNCHANGED locals => Marking(x, scopes)
         /\ x.op = "var" /\ x.name \in Name /\ ~Clash(x.name) /\ UNCHANGED locals =>
              Marking(x, Declared(scopes, x.name))
         /\ x.op = "fun" /\ x.name \in Name /\ ~Clash(x.name) /\ UNCHANGED locals =>
              Marking(x, DeclaredAndDefined(scopes, x.name))
<1>1. scopes \in Seq(ScopeTypes)
  BY DEF Base, ResolverTypes
<1>2. \A n : ~Clash(n) => (scopes # <<>> => n \notin DOMAIN scopes[Len(scopes)])
  BY DEF Clash, Last
<1>3. Len(scopes) \in Nat
  BY <1>1, LenProperties
<1>4. x.op # "class" => Used(x) = {}
  <2>1. x.op \notin {"variable", "assign", "this", "super"}
    BY DEF Nesting, Bodies
  <2> QED BY <2>1 DEF Used
<1>5. x.op \notin Declaring => x.op # "class"
  BY DEF Declaring
<1>6. ASSUME x.op \notin Declaring, UNCHANGED locals
      PROVE  Marking(x, scopes)
  BY <1>1, <1>4, <1>5, <1>6 DEF Marking
<1>7. ASSUME x.op = "var", x.name \in Name, ~Clash(x.name), UNCHANGED locals
      PROVE  Marking(x, Declared(scopes, x.name))
  <2> DEFINE t == Declared(scopes, x.name)
  <2>1. /\ t \in Seq(ScopeTypes) /\ Len(t) = Len(scopes)
        /\ \A k \in 1..Len(scopes) :
             /\ k # Len(scopes) => t[k] = scopes[k]
             /\ k = Len(scopes) => /\ DOMAIN t[k] = DOMAIN scopes[k] \cup {x.name}
                                   /\ \A m \in DOMAIN scopes[k] : m # x.name => t[k][m] = scopes[k][m]
    BY <1>1, <1>7, DeclaredIs
  <2> HIDE DEF t
  <2>2. x.op \in Declaring /\ Used(x) = {}
    BY <1>4, <1>7 DEF Declaring
  <2>3. scopes # <<>> => x.name \notin DOMAIN scopes[Len(scopes)]
    BY <1>2, <1>7
  <2>4. \A k \in 1..Len(scopes) :
          /\ DOMAIN t[k] = DOMAIN scopes[k]
                           \cup (IF k = Len(scopes) /\ x.op \in Declaring THEN {x.name} ELSE {})
          /\ \A m \in DOMAIN scopes[k] : scopes[k][m].accessed => t[k][m].accessed
    <3> TAKE k \in 1..Len(scopes)
    <3>1. scopes # <<>>
      BY <1>3
    <3>2. CASE k = Len(scopes)
      BY <2>1, <2>2, <2>3, <3>1, <3>2
    <3>3. CASE k # Len(scopes)
      BY <2>1, <2>2, <3>3
    <3> QED BY <3>2, <3>3
  <2>5. Marking(x, t)
    BY <1>7, <2>1, <2>2, <2>3, <2>4 DEF Marking
  <2> QED BY <2>5 DEF t
<1>8. ASSUME x.op = "fun", x.name \in Name, ~Clash(x.name), UNCHANGED locals
      PROVE  Marking(x, DeclaredAndDefined(scopes, x.name))
  <2> DEFINE t == DeclaredAndDefined(scopes, x.name)
  <2>1. /\ t \in Seq(ScopeTypes) /\ Len(t) = Len(scopes)
        /\ \A k \in 1..Len(scopes) :
             /\ DOMAIN t[k] = DOMAIN scopes[k] \cup (IF k = Len(scopes) THEN {x.name} ELSE {})
             /\ \A m \in DOMAIN scopes[k] :
                  m # x.name \/ k # Len(scopes) => t[k][m].accessed = scopes[k][m].accessed
    BY <1>1, <1>8, DeclaredAndDefinedIs
  <2> HIDE DEF t
  <2>2. x.op \in Declaring /\ Used(x) = {}
    BY <1>4, <1>8 DEF Declaring
  <2>3. scopes # <<>> => x.name \notin DOMAIN scopes[Len(scopes)]
    BY <1>2, <1>8
  <2>4. \A k \in 1..Len(scopes) :
          /\ DOMAIN t[k] = DOMAIN scopes[k]
                           \cup (IF k = Len(scopes) /\ x.op \in Declaring THEN {x.name} ELSE {})
          /\ \A m \in DOMAIN scopes[k] : scopes[k][m].accessed => t[k][m].accessed
    <3> TAKE k \in 1..Len(scopes)
    <3>1. scopes # <<>>
      BY <1>3
    <3>2. CASE k = Len(scopes)
      BY <2>1, <2>2, <2>3, <3>1, <3>2
    <3>3. CASE k # Len(scopes)
      BY <2>1, <2>2, <3>3
    <3> QED BY <3>2, <3>3
  <2>5. Marking(x, t)
    BY <1>8, <2>1, <2>2, <2>3, <2>4 DEF Marking
  <2> QED BY <2>5 DEF t
<1> QED BY <1>6, <1>7, <1>8

\* A class finds its superclass in the scopes in which its own name is already.
LEMMA ClassMarks ==
  ASSUME Base, NEW x \in NodeType, x.op = "class", x.name \in Name, ~Clash(x.name),
         NEW s \in Name \cup {None}, x.arg = {s} \ {None}, s # x.name,
         ResolveLocal(DeclaredAndDefined(scopes, x.name), s)
  PROVE  Marking(x, Accessed(DeclaredAndDefined(scopes, x.name), s))
<1>1. scopes \in Seq(ScopeTypes) /\ Len(scopes) \in Nat
  BY LenProperties DEF Base, ResolverTypes
<1> DEFINE ss == DeclaredAndDefined(scopes, x.name)
           t  == Accessed(ss, s)
<1>2. /\ ss \in Seq(ScopeTypes) /\ Len(ss) = Len(scopes)
      /\ \A k \in 1..Len(scopes) :
           /\ DOMAIN ss[k] = DOMAIN scopes[k] \cup (IF k = Len(scopes) THEN {x.name} ELSE {})
           /\ \A m \in DOMAIN scopes[k] :
                m # x.name \/ k # Len(scopes) => ss[k][m].accessed = scopes[k][m].accessed
  BY <1>1, DeclaredAndDefinedIs
<1>3. x.op \in Declaring /\ Used(x) = {s} \ {None} /\ s # x.name
  BY DEF Declaring, Used
<1>4. scopes # <<>> => x.name \notin DOMAIN scopes[Len(scopes)]
  BY DEF Clash, Last
<1>5. locals' = IF Holders(ss, s) = {} THEN locals ELSE Updated(locals, Here, Min(Holders(ss, s)))
  BY DEF ResolveLocal
<1> HIDE DEF ss
<1>6. /\ t \in Seq(ScopeTypes) /\ Len(t) = Len(ss)
      /\ \A k \in 1..Len(ss) :
           /\ DOMAIN t[k] = DOMAIN ss[k]
           /\ \A m \in DOMAIN ss[k] :
                t[k][m].accessed = IF m = s /\ k = Len(ss) - Min(Holders(ss, s)) /\ Holders(ss, s) # {}
                                   THEN TRUE ELSE ss[k][m].accessed
  <2>1. ss \in Seq(ScopeTypes)
    BY <1>2
  <2> QED BY <2>1, AccessedIs, ZenonT(30)
<1> HIDE DEF t
<1>7. Holders(ss, s) = Holders(scopes, s)
  <2>1. \A i \in 0..Len(scopes) - 1 : Len(scopes) - i \in 1..Len(scopes)
    BY <1>1
  <2>2. \A i \in 0..Len(scopes) - 1 : s \in DOMAIN ss[Len(ss) - i] <=> s \in DOMAIN scopes[Len(scopes) - i]
    BY <1>2, <1>3, <2>1
  <2> QED BY <1>2, <2>2 DEF Holders
<1>8. s = None => Holders(scopes, s) = {}
  <2>1. None \notin Name \cup Special
    BY ResolverAssumption DEF Special, None
  <2>2. \A k \in 1..Len(scopes) : DOMAIN scopes[k] \subseteq Name \cup Special
    BY <1>1, ScopeIs, ElementOfSeq
  <2>3. \A i \in 0..Len(scopes) - 1 : Len(scopes) - i \in 1..Len(scopes)
    BY <1>1
  <2> QED BY <2>1, <2>2, <2>3 DEF Holders
<1>9. \A k \in 1..Len(scopes) :
        /\ DOMAIN t[k] = DOMAIN scopes[k]
                         \cup (IF k = Len(scopes) /\ x.op \in Declaring THEN {x.name} ELSE {})
        /\ \A m \in DOMAIN scopes[k] : scopes[k][m].accessed => t[k][m].accessed
  <2> TAKE k \in 1..Len(scopes)
  <2>0. scopes # <<>> /\ k \in 1..Len(ss)
    BY <1>1, <1>2
  <2>1. DOMAIN t[k] = DOMAIN ss[k] /\ DOMAIN scopes[k] \subseteq DOMAIN ss[k]
    BY <1>2, <1>6, <2>0
  <2>2. \A m \in DOMAIN ss[k] : ss[k][m].accessed => t[k][m].accessed
    BY <1>6, <2>0
  <2>3. \A m \in DOMAIN scopes[k] : ss[k][m].accessed = scopes[k][m].accessed
    BY <1>2, <1>4, <2>0
  <2>4. DOMAIN ss[k] = DOMAIN scopes[k]
                       \cup (IF k = Len(scopes) /\ x.op \in Declaring THEN {x.name} ELSE {})
    BY <1>2, <1>3
  <2> QED BY <2>1, <2>2, <2>3, <2>4
<1>10. Holders(scopes, s) # {} => t[Len(scopes) - Min(Holders(scopes, s))][s].accessed
  <2> HAVE Holders(scopes, s) # {}
  <2>1. Len(ss) - Min(Holders(ss, s)) \in 1..Len(ss) /\ s \in DOMAIN ss[Len(ss) - Min(Holders(ss, s))]
    BY <1>2, <1>7, HoldersAre
  <2> QED BY <1>2, <1>6, <1>7, <2>1
<1>11. locals' = IF Holders(scopes, s) = {} THEN locals ELSE Updated(locals, Here, Min(Holders(scopes, s)))
  BY <1>5, <1>7
<1>12. Used(x) = {} => locals' = locals
  BY <1>3, <1>8, <1>11
<1>13. \A n \in Used(x) : n = s
  BY <1>3
<1>14. Marking(x, t)
  <2>1. t \in Seq(ScopeTypes) /\ Len(t) = Len(scopes)
    BY <1>2, <1>6
  <2>2. x.name \notin Used(x)
    BY <1>3
  <2> QED BY <1>4, <1>9, <1>10, <1>11, <1>12, <1>13, <2>1, <2>2 DEF Marking
<1> QED BY <1>14 DEF t, ss

\* What the visits of nodes that hold others, or variables, do to the scopes.
Opening(x) ==
  /\ \E ss \in Seq(ScopeTypes) : /\ Len(ss) = Len(scopes) /\ scopes' = ss \o NewScopes(x)
                                 /\ ~had_error' => Marking(x, ss)
  /\ return_scopes' = return_scopes
       \o [i \in 1..Grown(x) + (IF x.op \in {"if", "while"} THEN 1 ELSE 0) |-> FALSE]
  /\ warnings' = warnings \cup DeadHere \/ UNCHANGED warnings
  /\ open' = Opened(x.op, x.name) /\ mid' = FALSE /\ had_error' \in BOOLEAN /\ LocalsNext
  /\ x.op = "var" => AtStatement

\* They keep the types.
LEMMA OpeningTypes ==
  ASSUME Base, NEW x \in NodeType, x.op \in Nesting \cup {"var"}, Suits(code, x), Opening(x)
  PROVE  /\ scopes' \in Seq(ScopeTypes) /\ Len(scopes') = Len(scopes) + Grown(x)
         /\ return_scopes' \in Seq(BOOLEAN)
         /\ Len(return_scopes') = Len(return_scopes) + Grown(x) + (IF x.op \in {"if", "while"} THEN 1 ELSE 0)
<1> DEFINE w == Grown(x) + (IF x.op \in {"if", "while"} THEN 1 ELSE 0)
           f == [i \in 1..w |-> FALSE]
<1>1. return_scopes \in Seq(BOOLEAN) /\ Len(return_scopes) \in Nat
  BY LenProperties DEF Base, ResolverTypes
<1>2. /\ NewScopes(x) \in Seq(ScopeTypes) /\ Len(NewScopes(x)) = Grown(x) /\ Grown(x) \in 0..2
  BY NewScopesAre DEF Suits
<1>3. scopes' \in Seq(ScopeTypes) /\ Len(scopes') = Len(scopes) + Grown(x)
  <2>1. PICK ss \in Seq(ScopeTypes) : Len(ss) = Len(scopes) /\ scopes' = ss \o NewScopes(x)
    BY DEF Opening
  <2> QED BY <1>2, <2>1, ConcatProperties
<1>4. return_scopes' = return_scopes \o f
  BY DEF Opening
<1>5. w \in Nat
  BY <1>2
<1> HIDE DEF w
<1>6. f \in Seq(BOOLEAN) /\ Len(f) = w
  BY <1>5
<1> HIDE DEF f
<1>7. return_scopes' \in Seq(BOOLEAN) /\ Len(return_scopes') = Len(return_scopes) + w
  BY <1>1, <1>4, <1>6, ConcatProperties
<1>8. Len(return_scopes) + w = Len(return_scopes) + Grown(x) + (IF x.op \in {"if", "while"} THEN 1 ELSE 0)
  BY <1>1, <1>2 DEF w
<1> QED BY <1>3, <1>7, <1>8

\* The enclosing constructs of a node that is entered.
Stacked(x, t) ==
  /\ loop_scopes' = IF x.op = "while" THEN Append(loop_scopes, "WHILE") ELSE loop_scopes
  /\ function_scopes' = IF x.op \in Bodies THEN Append(function_scopes, t) ELSE function_scopes
  /\ class_scopes' = IF x.op = "class"
                     THEN Append(class_scopes, IF x.arg = {} THEN "CLASS" ELSE "SUBCLASS")
                     ELSE class_scopes

\* Such a step keeps the stacks and the text in order.
LEMMA BaseOpenStep ==
  ASSUME Base, NEW x \in NodeType, x.op \in Nesting \cup {"var"}, Suits(code, x),
         code' = Append(code, x), Opening(x), NEW t \in FunctionTypes, Stacked(x, t)
  PROVE  Base'
<1>1. OpenStep(x, t)
  BY OpeningTypes DEF Opening, Stacked, OpenStep
<1> QED BY <1>1, BaseOpen

EnterStep(x, t) ==
  /\ code' = Append(code, x) /\ x.op \in Nesting \cup {"var"} /\ Opening(x) /\ Stacked(x, t)

\* How the return scopes are written there.
LEMMA Falses ==
  /\ \A n \in Nat : [i \in 1..n |-> FALSE] = [i \in 1..n + 0 |-> FALSE]
  /\ <<FALSE, FALSE>> = [i \in 1..1 + 1 |-> FALSE]
<1>1. \A n \in Nat : n + 0 = n
  OBVIOUS
<1>2. <<FALSE, FALSE>> = [i \in 1..1 + 1 |-> FALSE]
  <2>1. [i \in 1..2 |-> FALSE] \in Seq(BOOLEAN) /\ Len([i \in 1..2 |-> FALSE]) = 2
    OBVIOUS
  <2>2. <<FALSE, FALSE>> \in Seq(BOOLEAN) /\ Len(<<FALSE, FALSE>>) = 2
    OBVIOUS
  <2>3. \A i \in 1..2 : <<FALSE, FALSE>>[i] = [j \in 1..2 |-> FALSE][i]
    <3> TAKE i \in 1..2
    <3>1. i = 1 \/ i = 2
      OBVIOUS
    <3>2. <<FALSE, FALSE>>[i] = FALSE
      <4>1. \A a, b : <<a, b>>[1] = a /\ <<a, b>>[2] = b
        OBVIOUS
      <4> QED BY <3>1, <4>1
    <3>3. [j \in 1..2 |-> FALSE][i] = FALSE
      OBVIOUS
    <3> QED BY <3>2, <3>3
  <2>4. <<FALSE, FALSE>> = [i \in 1..2 |-> FALSE]
    BY <2>1, <2>2, <2>3, SeqEqual
  <2>5. 1..1 + 1 = 1..2
    OBVIOUS
  <2> QED BY <2>4, <2>5
<1> QED BY <1>1, <1>2

\* What the visits of nodes that hold others, or variables, have in common.
LEMMA OpenSteps ==
  ASSUME Base, \/ Block \/ If \/ While \/ VarDeclaration \/ Function \/ Method \/ Getter
               \/ ClassDeclaration \/ AnonymousFunction
  PROVE  \E x \in NodeType, t \in FunctionTypes : Suits(code, x) /\ EnterStep(x, t)
<1>1. /\ scopes \in Seq(ScopeTypes) /\ mid \in BOOLEAN /\ had_error \in BOOLEAN
      /\ return_scopes \in Seq(BOOLEAN)
  BY DEF Base, ResolverTypes
<1>2. AtStatement \/ Inner = "var" => Inner # "class"
  BY DEF AtStatement
<1>3. UNCHANGED locals => LocalsNext
  BY LocalsSame
<1>4. NoName \in ScopeTypes /\ scopes \o <<NoName>> = Append(scopes, NoName)
  <2>1. NoName \in [{} -> States] /\ {} \in SUBSET (Name \cup Special)
    BY DEF NoName
  <2>2. NoName \in ScopeTypes
    BY <2>1, ScopeIs
  <2> QED BY <1>1, <2>2, AppendIsConcat
<1>5. ASSUME NEW op \in Nesting \cup {"var"}, NEW name \in Name \cup Member \cup {None, "this"},
             NEW arg \in SUBSET Name, (op \in {"method", "getter"}) = (Inner = "class"),
             op \in {"var", "fun", "class"} => name \in Name
      PROVE  LET x == [op |-> op, name |-> name, arg |-> arg, at |-> 0] IN
             x \in NodeType /\ Suits(code, x)
  <2>1. /\ op \in Nesting \cup Leaves \cup {"var"} /\ 0 \in Nat /\ op \notin Leaves
        /\ arg \in SUBSET (Name \cup {"value", "argument"})
        /\ op \notin {"define", "variable", "assign", "this"}
    BY <1>5 DEF Leaves, Nesting, Bodies
  <2>2. /\ op \in {"var", "define", "fun", "class", "variable", "assign"} => name \in Name
        /\ op = "this" => name = "this"
        /\ op \in Bodies \cup {"class"} => arg \subseteq Name
    BY <1>5, <2>1
  <2> QED BY <1>5, <2>1, <2>2, NodeSuits
<1>6. CASE Block \/ If \/ While
  <2>1. PICK op \in {"block", "if", "while"} :
          /\ Visit(op, None, {}, 0) /\ Statement /\ open' = Opened(op, None) /\ mid' = FALSE
          /\ scopes' = scopes \o <<NoName>>
          /\ return_scopes' = return_scopes
               \o [i \in 1..1 + (IF op \in {"if", "while"} THEN 1 ELSE 0) |-> FALSE]
          /\ loop_scopes' = IF op = "while" THEN Append(loop_scopes, "WHILE") ELSE loop_scopes
          /\ UNCHANGED <<function_scopes, class_scopes, locals, had_error>>
    <3>1. CASE Block
      <4>1. /\ Visit("block", None, {}, 0) /\ Statement /\ open' = Opened("block", None) /\ mid' = FALSE
            /\ scopes' = scopes \o <<NoName>>
            /\ return_scopes' = return_scopes \o [i \in DOMAIN <<NoName>> |-> FALSE]
            /\ UNCHANGED <<enclosing, locals, had_error>>
        BY <3>1 DEF Block, BeginScopes
      <4>2. DOMAIN <<NoName>> = 1..1 /\ 1 + (IF "block" \in {"if", "while"} THEN 1 ELSE 0) = 1
        OBVIOUS
      <4>3. return_scopes' = return_scopes
               \o [i \in 1..1 + (IF "block" \in {"if", "while"} THEN 1 ELSE 0) |-> FALSE]
        BY <4>1, <4>2
      <4>4. UNCHANGED <<loop_scopes, function_scopes, class_scopes, locals, had_error>>
        BY <4>1 DEF enclosing
      <4> QED BY <4>1, <4>3, <4>4
    <3>2. ASSUME NEW op \in {"if", "while"}, Guarded(op),
                 loop_scopes' = IF op = "while" THEN Append(loop_scopes, "WHILE") ELSE loop_scopes
          PROVE  /\ Visit(op, None, {}, 0) /\ Statement /\ open' = Opened(op, None) /\ mid' = FALSE
                 /\ scopes' = scopes \o <<NoName>>
                 /\ return_scopes' = return_scopes
                      \o [i \in 1..1 + (IF op \in {"if", "while"} THEN 1 ELSE 0) |-> FALSE]
                 /\ UNCHANGED <<function_scopes, class_scopes, locals, had_error>>
      <4>1. /\ Visit(op, None, {}, 0) /\ Statement /\ open' = Opened(op, None) /\ mid' = FALSE
            /\ scopes' = Append(scopes, NoName)
            /\ return_scopes' = return_scopes \o <<FALSE, FALSE>>
            /\ UNCHANGED <<function_scopes, class_scopes, locals, had_error>>
        BY <3>2 DEF Guarded
      <4>2. return_scopes' = return_scopes \o [i \in 1..1 + 1 |-> FALSE]
        BY <4>1, Falses
      <4>3. (IF op \in {"if", "while"} THEN 1 ELSE 0) = 1
        OBVIOUS
      <4> QED BY <1>4, <4>1, <4>2, <4>3
    <3>3. CASE If
      BY <3>2, <3>3 DEF If
    <3>4. CASE While
      BY <3>2, <3>4 DEF While
    <3> QED BY <1>6, <3>1, <3>3, <3>4
  <2> DEFINE x == [op |-> op, name |-> None, arg |-> {}, at |-> 0]
  <2>2. AtStatement /\ Inner # "class" /\ warnings' = warnings \cup DeadHere
    BY <1>2, <2>1 DEF Statement
  <2>3. op \in Nesting /\ op \notin Bodies /\ op \notin Declaring /\ op \notin {"method", "getter"}
    BY DEF Nesting, Bodies, Declaring
  <2>4. x \in NodeType /\ Suits(code, x)
    BY <1>5, <2>2, <2>3 DEF Declaring
  <2>5. x.op = op /\ x.name = None /\ x.arg = {} /\ code' = Append(code, x)
    BY <2>1 DEF Visit
  <2> HIDE DEF x
  <2>6. NewScopes(x) = <<NoName>> /\ Grown(x) = 1
    BY <2>3, <2>5 DEF NewScopes, Grown, Declaring
  <2>7. Marking(x, scopes)
    BY <2>1, <2>3, <2>4, <2>5, OpenMarks
  <2>8. had_error' \in BOOLEAN /\ LocalsNext
    BY <1>1, <1>3, <2>1
  <2>9. Opening(x)
    BY <1>1, <2>1, <2>2, <2>3, <2>5, <2>6, <2>7, <2>8 DEF Opening
  <2>10. Stacked(x, "FUNCTION") /\ "FUNCTION" \in FunctionTypes
    BY <2>1, <2>3, <2>5 DEF Stacked, FunctionTypes, Declaring
  <2> QED BY <2>3, <2>4, <2>5, <2>9, <2>10 DEF EnterStep
<1>7. CASE VarDeclaration
  <2>1. PICK n \in Name :
          /\ Visit("var", n, {}, 0) /\ Statement
          /\ open' = Opened("var", n) /\ mid' = FALSE
          /\ scopes' = Declared(scopes, n) /\ had_error' = Clash(n)
          /\ UNCHANGED <<enclosing, return_scopes, locals>>
    BY <1>7 DEF VarDeclaration
  <2> DEFINE x == [op |-> "var", name |-> n, arg |-> {}, at |-> 0]
  <2>2. AtStatement /\ Inner # "class" /\ warnings' = warnings \cup DeadHere
    BY <1>2, <2>1 DEF Statement
  <2>3. x \in NodeType /\ Suits(code, x)
    BY <1>5, <2>2
  <2>4. x.op = "var" /\ x.name = n /\ x.arg = {} /\ code' = Append(code, x)
    BY <2>1 DEF Visit
  <2> HIDE DEF x
  <2>5. NewScopes(x) = <<>> /\ Grown(x) = 0 /\ "var" \notin Bodies
    BY <2>4 DEF NewScopes, Grown, Nesting, Bodies
  <2>6. ~had_error' => Marking(x, Declared(scopes, n))
    BY <2>1, <2>3, <2>4, OpenMarks
  <2>7. Declared(scopes, n) \in Seq(ScopeTypes) /\ Len(Declared(scopes, n)) = Len(scopes)
    BY <1>1, DeclaredIs
  <2>8. scopes' = Declared(scopes, n) \o <<>>
    BY <2>1, <2>7, ConcatEmptySeq
  <2>9. return_scopes' = return_scopes \o [i \in 1..0 + 0 |-> FALSE]
    <3>1. [i \in 1..0 + 0 |-> FALSE] = <<>>
      OBVIOUS
    <3>2. return_scopes \o <<>> = return_scopes
      BY <1>1, ConcatEmptySeq
    <3> QED BY <2>1, <3>1, <3>2
  <2>10. had_error' \in BOOLEAN /\ LocalsNext
    BY <1>3, <2>1 DEF Clash
  <2>11. Opening(x)
    BY <2>1, <2>2, <2>4, <2>5, <2>6, <2>7, <2>8, <2>9, <2>10 DEF Opening
  <2>12. Stacked(x, "FUNCTION") /\ "FUNCTION" \in FunctionTypes
    BY <2>1, <2>4, <2>5 DEF Stacked, FunctionTypes, enclosing
  <2> QED BY <2>3, <2>4, <2>11, <2>12 DEF EnterStep
<1>8. ASSUME NEW op \in Bodies, NEW name \in Name \cup Member \cup {None, "this"}, NEW params \in SUBSET Name,
             NEW ss \in Seq(ScopeTypes), Len(ss) = Len(scopes), NEW t \in FunctionTypes,
             (op \in {"method", "getter"}) = (Inner = "class"), op = "fun" => name \in Name,
             Visit(op, name, params, 0), open' = Opened(op, name), mid' = FALSE,
             FunctionBody(ss, t, params), had_error' \in BOOLEAN,
             warnings' = warnings \cup DeadHere \/ UNCHANGED warnings,
             IF op = "fun" THEN ss = DeclaredAndDefined(scopes, name) /\ (~had_error' => ~Clash(name))
                           ELSE ss = scopes
      PROVE  \E x \in NodeType : Suits(code, x) /\ EnterStep(x, t)
  <2> DEFINE x == [op |-> op, name |-> name, arg |-> params, at |-> 0]
             f == [n \in params |-> [defined |-> TRUE, accessed |-> FALSE]]
  <2>1. op \in Nesting /\ op \notin {"var", "class", "if", "while"}
    BY DEF Nesting, Bodies
  <2>2. x \in NodeType /\ Suits(code, x)
    BY <1>5, <1>8, <2>1
  <2>3. x.op = op /\ x.name = name /\ x.arg = params /\ code' = Append(code, x)
    BY <1>8 DEF Visit
  <2> HIDE DEF x
  <2>4. NewScopes(x) = <<f>> /\ Grown(x) = 1
    <3>1. Grown(x) = 1
      BY <2>1, <2>3 DEF Grown
    <3>2. NewScopes(x) = <<f>>
      BY <2>1, <2>3 DEF NewScopes
    <3> QED BY <3>1, <3>2
  <2> HIDE DEF f
  <2>5. /\ function_scopes' = Append(function_scopes, t) /\ scopes' = ss \o <<f>>
        /\ return_scopes' = return_scopes \o [i \in DOMAIN <<f>> |-> FALSE]
        /\ UNCHANGED <<loop_scopes, class_scopes, locals>>
    BY <1>8 DEF FunctionBody, BeginScopes, f
  <2>6. DOMAIN <<f>> = 1..1 /\ 1 + (IF op \in {"if", "while"} THEN 1 ELSE 0) = 1
    BY <2>1
  <2>7. ~had_error' => Marking(x, ss)
    <3> HAVE ~had_error'
    <3>1. CASE op = "fun"
      BY <1>8, <2>2, <2>3, <2>5, <3>1, OpenMarks DEF Nesting, Bodies
    <3>2. CASE op # "fun"
      <4>1. op \notin Declaring
        BY <2>1, <3>2 DEF Declaring
      <4> QED BY <1>8, <2>1, <2>2, <2>3, <2>5, <3>2, <4>1, OpenMarks
    <3> QED BY <3>1, <3>2
  <2>8. LocalsNext
    BY <1>3, <2>5
  <2>9. return_scopes' = return_scopes \o [i \in 1..1 + (IF op \in {"if", "while"} THEN 1 ELSE 0) |-> FALSE]
    BY <2>5, <2>6
  <2>10. Opening(x)
    BY <1>8, <2>1, <2>3, <2>4, <2>5, <2>7, <2>8, <2>9 DEF Opening
  <2>11. Stacked(x, t)
    BY <2>1, <2>3, <2>5 DEF Stacked
  <2> QED BY <2>1, <2>2, <2>3, <2>10, <2>11 DEF EnterStep
<1>0. \A params \in Parameters : params \in SUBSET Name
  BY DEF Parameters
<1>9. CASE Function
  <2>1. PICK n \in Name, params \in Parameters :
          /\ Visit("fun", n, params, 0) /\ Statement
          /\ open' = Opened("fun", n) /\ mid' = FALSE
          /\ FunctionBody(DeclaredAndDefined(scopes, n), "FUNCTION", params)
          /\ had_error' = Clash(n)
    BY <1>9 DEF Function
  <2>2. Inner # "class" /\ warnings' = warnings \cup DeadHere
    BY <1>2, <2>1 DEF Statement
  <2>3. /\ "fun" \in Bodies /\ "FUNCTION" \in FunctionTypes /\ had_error' \in BOOLEAN
        /\ (~had_error' => ~Clash(n)) /\ ("fun" \in {"method", "getter"}) = (Inner = "class")
    <3>1. had_error' \in BOOLEAN /\ (~had_error' => ~Clash(n))
      BY <2>1 DEF Clash
    <3>2. ("fun" \in {"method", "getter"}) = (Inner = "class")
      BY <2>2
    <3> QED BY <3>1, <3>2 DEF Bodies, FunctionTypes
  <2>4. /\ DeclaredAndDefined(scopes, n) \in Seq(ScopeTypes)
        /\ Len(DeclaredAndDefined(scopes, n)) = Len(scopes)
    BY <1>1, DeclaredAndDefinedIs
  <2>5. \E x \in NodeType : Suits(code, x) /\ EnterStep(x, "FUNCTION")
    BY <1>0, <1>8, <2>1, <2>2, <2>3, <2>4
  <2> QED BY <2>3, <2>5
<1>10. CASE Method
  <2>1. PICK k \in Member, params \in Parameters :
          /\ Inner = "class" /\ Visit("method", k, params, 0)
          /\ open' = Opened("method", k) /\ mid' = FALSE
          /\ FunctionBody(scopes, IF k = "init" THEN "INITIALIZER" ELSE "METHOD", params)
          /\ UNCHANGED <<warnings, had_error>>
    BY <1>10 DEF Method
  <2> DEFINE t == IF k = "init" THEN "INITIALIZER" ELSE "METHOD"
  <2>2. "method" \in Bodies /\ t \in FunctionTypes /\ had_error' \in BOOLEAN
    BY <1>1, <2>1 DEF Bodies, FunctionTypes
  <2>3. \E x \in NodeType : Suits(code, x) /\ EnterStep(x, t)
    BY <1>0, <1>1, <1>8, <2>1, <2>2
  <2> QED BY <2>2, <2>3
<1>11. CASE Getter
  <2>1. PICK k \in Member :
          /\ Inner = "class" /\ Visit("getter", k, {}, 0)
          /\ open' = Opened("getter", k) /\ mid' = FALSE
          /\ FunctionBody(scopes, IF k = "init" THEN "INITIALIZER" ELSE "GETTER", {})
          /\ UNCHANGED <<warnings, had_error>>
    BY <1>11 DEF Getter
  <2> DEFINE t == IF k = "init" THEN "INITIALIZER" ELSE "GETTER"
  <2>2. "getter" \in Bodies /\ t \in FunctionTypes /\ had_error' \in BOOLEAN /\ {} \in SUBSET Name
    BY <1>1, <2>1 DEF Bodies, FunctionTypes
  <2>3. \E x \in NodeType : Suits(code, x) /\ EnterStep(x, t)
    BY <1>1, <1>8, <2>1, <2>2
  <2> QED BY <2>2, <2>3
<1>12. CASE AnonymousFunction
  <2>1. PICK params \in Parameters :
          /\ Visit("anonymous", None, params, 0) /\ Primary
          /\ open' = Opened("anonymous", None) /\ mid' = FALSE
          /\ FunctionBody(scopes, "FUNCTION", params)
          /\ UNCHANGED had_error
    BY <1>12 DEF AnonymousFunction
  <2>2. Inner # "class" /\ warnings' = warnings \cup DeadHere
    BY <1>2, <2>1 DEF Primary
  <2>3. /\ "anonymous" \in Bodies /\ "FUNCTION" \in FunctionTypes /\ had_error' \in BOOLEAN
        /\ ("anonymous" \in {"method", "getter"}) = (Inner = "class")
    BY <1>1, <2>1, <2>2 DEF Bodies, FunctionTypes
  <2>4. \E x \in NodeType : Suits(code, x) /\ EnterStep(x, "FUNCTION")
    BY <1>0, <1>1, <1>8, <2>1, <2>2, <2>3
  <2> QED BY <2>3, <2>4
<1>13. CASE ClassDeclaration
  <2>1. PICK n \in Name, s \in Name \cup {None} :
          LET ss     == DeclaredAndDefined(scopes, n)
              supers == IF s = None THEN <<>> ELSE <<Entry("super", Known)>>
          IN /\ Visit("class", n, {s} \ {None}, 0) /\ Statement
             /\ open' = Opened("class", n) /\ mid' = FALSE
             /\ class_scopes' = Append(class_scopes, IF s = None THEN "CLASS" ELSE "SUBCLASS")
             /\ ResolveLocal(ss, s)
             /\ BeginScopes(Accessed(ss, s), supers \o <<Entry("this", Known)>>)
             /\ had_error' = (Clash(n) \/ s = n)
             /\ UNCHANGED <<loop_scopes, function_scopes>>
    BY <1>13 DEF ClassDeclaration
  <2> DEFINE x == [op |-> "class", name |-> n, arg |-> {s} \ {None}, at |-> 0]
             ss == DeclaredAndDefined(scopes, n)
             supers == IF s = None THEN <<>> ELSE <<Entry("super", Known)>>
  <2>2. AtStatement /\ Inner # "class" /\ warnings' = warnings \cup DeadHere
    BY <1>2, <2>1 DEF Statement
  <2>3. {s} \ {None} \in SUBSET Name /\ "class" \in Nesting
    BY DEF Nesting
  <2>4. x \in NodeType /\ Suits(code, x)
    BY <1>5, <2>2, <2>3
  <2>5. x.op = "class" /\ x.name = n /\ x.arg = {s} \ {None} /\ code' = Append(code, x)
    BY <2>1 DEF Visit
  <2> HIDE DEF x
  <2>6. /\ ss \in Seq(ScopeTypes) /\ Len(ss) = Len(scopes)
    BY <1>1, DeclaredAndDefinedIs
  <2>7. /\ open' = Opened("class", n) /\ mid' = FALSE
        /\ class_scopes' = Append(class_scopes, IF s = None THEN "CLASS" ELSE "SUBCLASS")
        /\ ResolveLocal(ss, s)
        /\ scopes' = Accessed(ss, s) \o (supers \o <<Entry("this", Known)>>)
        /\ return_scopes' = return_scopes \o [i \in DOMAIN (supers \o <<Entry("this", Known)>>) |-> FALSE]
        /\ had_error' = (Clash(n) \/ s = n)
        /\ UNCHANGED <<loop_scopes, function_scopes>>
    BY <2>1 DEF BeginScopes
  <2> HIDE DEF ss
  <2>8. x.arg = {} <=> s = None
    BY <2>5
  <2>9. supers \o <<Entry("this", Known)>> = NewScopes(x)
    <3>1. "class" \notin Bodies
      BY DEF Bodies
    <3>2. CASE s = None
      BY <2>5, <2>8, <3>1, <3>2 DEF NewScopes
    <3>3. CASE s # None
      BY <2>5, <2>8, <3>1, <3>3 DEF NewScopes
    <3> QED BY <3>2, <3>3
  <2> HIDE DEF supers
  <2>10. /\ DOMAIN NewScopes(x) = 1..Grown(x) /\ Grown(x) \in 0..2
    BY <2>3, <2>4, <2>5, NewScopesAre DEF Suits
  <2>11. Grown(x) + (IF x.op \in {"if", "while"} THEN 1 ELSE 0) = Grown(x)
    BY <2>5, <2>10
  <2>12. return_scopes' = return_scopes
           \o [i \in 1..Grown(x) + (IF x.op \in {"if", "while"} THEN 1 ELSE 0) |-> FALSE]
    BY <2>7, <2>9, <2>10, <2>11
  <2>13. /\ Accessed(ss, s) \in Seq(ScopeTypes) /\ Len(Accessed(ss, s)) = Len(scopes)
         /\ scopes' = Accessed(ss, s) \o NewScopes(x)
    BY <2>6, <2>7, <2>9, AccessedIs
  <2>14. ~had_error' => Marking(x, Accessed(ss, s))
    BY <2>4, <2>5, <2>7, ClassMarks DEF ss
  <2>15. had_error' \in BOOLEAN /\ LocalsNext
    <3>1. LocalsNext
      BY <2>6, <2>7, LocalsResolved
    <3> QED BY <2>7, <3>1 DEF Clash
  <2>16. Opening(x)
    BY <2>2, <2>5, <2>7, <2>12, <2>13, <2>14, <2>15 DEF Opening
  <2>17. Stacked(x, "FUNCTION") /\ "FUNCTION" \in FunctionTypes
    BY <2>5, <2>7, <2>8 DEF Stacked, FunctionTypes, Bodies
  <2> QED BY <2>3, <2>4, <2>5, <2>16, <2>17 DEF EnterStep
<1> QED BY <1>6, <1>7, <1>9, <1>10, <1>11, <1>12, <1>13

-----------------------------------------------------------------------------
(* What a name means in the text.                                          *)

\* What one node more declares.
LEMMA DeclaredNext ==
  ASSUME NEW c, WellFormed(c), NEW x \in NodeType, WellFormed(Append(c, x))
  PROVE  LET d == Append(c, x)
             p == Len(c) + 1
         IN
         /\ \A n : \A i \in 1..Len(c) :
              (DeclaredIn(d, <<"body", i>>, n, p + 1) <=>
                 \/ DeclaredIn(c, <<"body", i>>, n, p)
                 \/ x.op \in Declaring /\ x.name = n /\ Inmost(c, p) = i)
         /\ \A n : \A s : s[1] # "body" => (DeclaredIn(d, s, n, p + 1) <=> DeclaredIn(c, s, n, p))
         /\ \A n : DeclaredIn(d, <<"body", p>>, n, p + 1) <=> x.op \in Bodies /\ n \in x.arg
         /\ UsesOf(d, p) = Used(x)
<1> DEFINE d == Append(c, x)
           p == Len(c) + 1
<1>1. /\ c \in Seq(NodeType) /\ Len(c) \in Nat /\ p \in 1..Len(c) + 1 /\ p \in Nat
      /\ \A i \in 1..Len(c) : d[i] = c[i]
      /\ d[p] = x
  BY StepIs
<1>2. \A q \in 1..p : Inmost(d, q) = Inmost(c, q)
  BY <1>1, EnclAppend
<1> HIDE DEF d
<1>3. ASSUME NEW n, NEW i \in 1..Len(c)
      PROVE  DeclaredIn(d, <<"body", i>>, n, p + 1) <=>
               \/ DeclaredIn(c, <<"body", i>>, n, p)
               \/ x.op \in Declaring /\ x.name = n /\ Inmost(c, p) = i
  <2>1. \A j : j \in i + 1..(p + 1) - 1 <=> j \in i + 1..p - 1 \/ j = p
    BY <1>1
  <2>2. \A j \in i + 1..p - 1 : j \in 1..Len(c) /\ j \in 1..p
    BY <1>1
  <2>3. \A j \in i + 1..p - 1 : d[j] = c[j] /\ Inmost(d, j) = Inmost(c, j)
    BY <1>1, <1>2, <2>2
  <2>4. d[p] = x /\ Inmost(d, p) = Inmost(c, p) /\ d[i] = c[i]
    BY <1>1, <1>2
  <2> HIDE DEF p
  <2> DEFINE R(b, j) == b[j].op \in {"var", "fun", "class"} /\ b[j].name = n /\ Inmost(b, j) = i
  <2>5. \A b, q : DeclaredIn(b, <<"body", i>>, n, q) <=>
                    \/ b[i].op \in Bodies /\ n \in b[i].arg
                    \/ \E j \in i + 1..q - 1 : R(b, j)
    BY DEF DeclaredIn
  <2>6. \A j \in i + 1..p - 1 : R(d, j) <=> R(c, j)
    BY <2>3
  <2>7. R(d, p) <=> x.op \in Declaring /\ x.name = n /\ Inmost(c, p) = i
    BY <2>4 DEF Declaring
  <2> HIDE DEF R
  <2>8. (\E j \in i + 1..(p + 1) - 1 : R(d, j)) <=> (\E j \in i + 1..p - 1 : R(c, j)) \/ R(d, p)
    BY <2>1, <2>6
  <2>9. DeclaredIn(d, <<"body", i>>, n, p + 1) <=>
          \/ c[i].op \in Bodies /\ n \in c[i].arg
          \/ \E j \in i + 1..(p + 1) - 1 : R(d, j)
    <3>1. DeclaredIn(d, <<"body", i>>, n, p + 1) <=>
            \/ d[i].op \in Bodies /\ n \in d[i].arg
            \/ \E j \in i + 1..(p + 1) - 1 : R(d, j)
      BY <2>5
    <3> QED BY <2>4, <3>1
  <2>10. DeclaredIn(c, <<"body", i>>, n, p) <=>
          \/ c[i].op \in Bodies /\ n \in c[i].arg
          \/ \E j \in i + 1..p - 1 : R(c, j)
    BY <2>5, Zenon
  <2> HIDE DEF d
  <2> QED BY <2>7, <2>8, <2>9, <2>10, Zenon
<1>4. ASSUME NEW n, NEW s, s[1] # "body"
      PROVE  DeclaredIn(d, s, n, p + 1) <=> DeclaredIn(c, s, n, p)
  BY <1>4 DEF DeclaredIn
<1>5. ASSUME NEW n
      PROVE  DeclaredIn(d, <<"body", p>>, n, p + 1) <=> x.op \in Bodies /\ n \in x.arg
  <2>1. ~ \E j \in p + 1..(p + 1) - 1 : TRUE
    BY <1>1
  <2> QED BY <1>1, <2>1 DEF DeclaredIn
<1>6. UsesOf(d, p) = Used(x)
  BY <1>1 DEF UsesOf, Used
<1> QED BY <1>3, <1>4, <1>5, <1>6 DEF d

\* Lexical is the last of the scopes around that declare the name.
LEMMA LexicalIs ==
  ASSUME NEW c, WellFormed(c), NEW p \in 1..Len(c) + 1, NEW ids, Shaped(c, p, ids),
         NEW n \in Name \cup Special
  PROVE  /\ (\A k \in DOMAIN ids : ~DeclaredIn(c, ids[k], n, p)) => Lexical(c, n, p) = Outside
         /\ \A k \in DOMAIN ids :
              DeclaredIn(c, ids[k], n, p) /\ (\A l \in DOMAIN ids : DeclaredIn(c, ids[l], n, p) => l <= k) =>
                Lexical(c, n, p) = ids[k]
<1> DEFINE B == IF n \in Special THEN n ELSE "body"
           H == {i \in Encl(c, p) : Binds(c, i, n, p)}
<1>1. /\ c \in Seq(NodeType) /\ Len(c) \in Nat /\ p \in Nat /\ DOMAIN c = 1..Len(c)
      /\ \A e \in 1..Len(c) : e \in DOMAIN c /\ Fits(c, e)
  BY LenProperties DEF WellFormed
<1>2. Encl(c, p) \in SUBSET (1..p - 1) /\ \A j \in Encl(c, p) : j \in 1..Len(c)
  BY <1>1, EnclIs
<1>3. ids \in Seq({"body", "this", "super"} \X Nat) /\ DOMAIN ids = 1..Len(ids) /\ Len(ids) \in Nat
  BY LenProperties DEF Shaped
<1>4. \A k \in DOMAIN ids : /\ ids[k] \in {"body", "this", "super"} \X Nat
                            /\ ids[k][2] \in Encl(c, p)
                            /\ (ids[k][1] = "body" <=> c[ids[k][2]].op # "class")
                            /\ ids[k][1] = "super" => c[ids[k][2]].arg # {}
  BY <1>3, ElementOfSeq DEF Shaped
<1>5. ASSUME NEW k \in DOMAIN ids, DeclaredIn(c, ids[k], n, p)
      PROVE  ids[k] = <<B, ids[k][2]>> /\ ids[k][2] \in H
  <2> DEFINE i == ids[k][2]
  <2>1. ids[k] = <<ids[k][1], i>> /\ i \in Encl(c, p) /\ i \in 1..Len(c) /\ i \in 1..p - 1
    BY <1>2, <1>4
  <2>2. CASE ids[k][1] = "body"
    <3>1. c[i].op # "class" /\ ids[k] = <<"body", i>>
      BY <1>4, <2>1, <2>2
    <3>2. DeclaredIn(c, <<"body", i>>, n, p)
      BY <1>5, <3>1
    <3>3. n \in Name
      <4>1. CASE c[i].op \in Bodies /\ n \in c[i].arg
        BY <1>1, <2>1, <4>1 DEF Fits
      <4>2. CASE \E j \in i + 1..p - 1 : c[j].op \in {"var", "fun", "class"} /\ c[j].name = n
        <5>1. PICK j \in i + 1..p - 1 : c[j].op \in {"var", "fun", "class"} /\ c[j].name = n
          BY <4>2
        <5>2. j \in 1..Len(c)
          BY <1>1, <2>1
        <5> QED BY <1>1, <5>1, <5>2 DEF Fits
      <4> HIDE DEF i
      <4> QED BY <3>2, <4>1, <4>2 DEF DeclaredIn
    <3>4. B = "body"
      BY <3>3, ResolverAssumption
    <3> HIDE DEF B
    <3>5. Binds(c, i, n, p)
      BY <3>1, <3>2 DEF Binds
    <3> QED BY <2>1, <3>1, <3>4, <3>5
  <2>3. CASE ids[k][1] # "body"
    <3>1. n = ids[k][1] /\ c[i].op = "class"
      BY <1>4, <1>5, <2>3 DEF DeclaredIn
    <3>2. n \in {"this", "super"}
      BY <1>4, <2>3, <3>1
    <3>3. B = n /\ (n = "super" => c[i].arg # {})
      BY <1>4, <3>1, <3>2 DEF Special
    <3> HIDE DEF B
    <3>4. Binds(c, i, n, p)
      BY <3>1, <3>2, <3>3 DEF Binds
    <3> QED BY <2>1, <3>1, <3>3, <3>4
  <2> QED BY <2>2, <2>3
<1>6. ASSUME NEW i \in H
      PROVE  \E k \in DOMAIN ids : DeclaredIn(c, ids[k], n, p) /\ ids[k] = <<B, i>>
  <2>1. i \in Encl(c, p) /\ Binds(c, i, n, p)
    OBVIOUS
  <2>2. /\ \E k \in DOMAIN ids : ids[k] = ScopeAt(c, i)
        /\ c[i].op = "class" /\ c[i].arg # {} => \E k \in DOMAIN ids : ids[k] = <<"super", i>>
    BY <2>1 DEF Shaped
  <2>3. CASE n = "this" /\ c[i].op = "class"
    <3>1. PICK k \in DOMAIN ids : ids[k] = ScopeAt(c, i)
      BY <2>2
    <3>2. ids[k] = <<"this", i>> /\ B = "this"
      BY <2>3, <3>1 DEF ScopeAt, Special
    <3> HIDE DEF B
    <3>3. DeclaredIn(c, ids[k], n, p)
      BY <2>3, <3>2 DEF DeclaredIn
    <3> QED BY <3>2, <3>3
  <2>4. CASE n = "super" /\ c[i].op = "class" /\ c[i].arg # {}
    <3>1. PICK k \in DOMAIN ids : ids[k] = <<"super", i>>
      BY <2>2, <2>4
    <3>2. B = "super"
      BY <2>4 DEF Special
    <3> HIDE DEF B
    <3>3. DeclaredIn(c, ids[k], n, p)
      BY <2>4, <3>1 DEF DeclaredIn
    <3> QED BY <3>1, <3>2, <3>3
  <2>5. CASE c[i].op # "class" /\ DeclaredIn(c, <<"body", i>>, n, p)
    <3>1. PICK k \in DOMAIN ids : ids[k] = ScopeAt(c, i)
      BY <2>2
    <3>2. ids[k] = <<"body", i>>
      BY <2>5, <3>1 DEF ScopeAt
    <3>3. DeclaredIn(c, ids[k], n, p)
      BY <2>5, <3>2
    <3>4. ids[k] = <<B, ids[k][2]>>
      BY <1>5, <3>3
    <3>5. B = "body"
      BY <3>2, <3>4
    <3> QED BY <3>2, <3>3, <3>5
  <2> QED BY <2>1, <2>3, <2>4, <2>5 DEF Binds
<1> HIDE DEF B
<1>7. Lexical(c, n, p) = IF H = {} THEN Outside ELSE <<B, Max(H)>>
  BY DEF Lexical, B
<1>8. ASSUME \A k \in DOMAIN ids : ~DeclaredIn(c, ids[k], n, p)
      PROVE  Lexical(c, n, p) = Outside
  BY <1>6, <1>7, <1>8
<1>9. ASSUME NEW k \in DOMAIN ids, DeclaredIn(c, ids[k], n, p),
             \A l \in DOMAIN ids : DeclaredIn(c, ids[l], n, p) => l <= k
      PROVE  Lexical(c, n, p) = ids[k]
  <2>1. ids[k] = <<B, ids[k][2]>> /\ ids[k][2] \in H
    BY <1>5, <1>9
  <2>2. H \in SUBSET (0..Len(c)) /\ H # {}
    BY <1>1, <1>2, <2>1
  <2>3. ASSUME NEW i \in H
        PROVE  i <= ids[k][2]
    <3>1. PICK l \in DOMAIN ids : DeclaredIn(c, ids[l], n, p) /\ ids[l] = <<B, i>>
      BY <1>6
    <3>2. l <= k /\ i = ids[l][2]
      BY <1>9, <3>1
    <3>3. CASE l = k
      BY <2>2, <3>2, <3>3
    <3>4. CASE l # k
      <4>1. l < k
        BY <1>3, <3>2, <3>4
      <4> QED BY <3>2, <4>1 DEF Shaped
    <3> QED BY <3>3, <3>4
  <2> HIDE DEF H
  <2>4. Max(H) \in H /\ \A y \in H : y <= Max(H)
    BY <1>1, <2>2, MaxIs
  <2>5. Max(H) = ids[k][2]
    <3>1. Max(H) <= ids[k][2] /\ ids[k][2] <= Max(H) /\ Max(H) \in 0..Len(c) /\ ids[k][2] \in 0..Len(c)
      BY <2>1, <2>2, <2>3, <2>4
    <3> QED BY <1>1, <3>1
  <2> QED BY <1>7, <2>1, <2>2, <2>5
<1> QED BY <1>8, <1>9

-----------------------------------------------------------------------------
(* The scopes around a place.                                              *)

Kinds == {"body", "this", "super"}

\* What the names of the scopes around a place tell.
Around1(c, p, ids) ==
  /\ ids \in Seq(Kinds \X Nat) /\ DOMAIN ids = 1..Len(ids) /\ Len(ids) \in Nat
  /\ \A k \in 1..Len(ids) :
       /\ ids[k] \in Kinds \X Nat /\ ids[k] = <<ids[k][1], ids[k][2]>>
       /\ ids[k][2] \in Encl(c, p) /\ ids[k][2] \in 1..Len(c) /\ ids[k][2] \in 1..p - 1
       /\ ids[k] # Outside
       /\ Outer(c, ids[k]) = IF k = 1 THEN Outside ELSE ids[k - 1]
       /\ (ids[k][1] = "body" <=> c[ids[k][2]].op # "class")
       /\ ids[k][1] = "super" => c[ids[k][2]].arg # {}
       /\ \A l \in 1..Len(ids) : k < l => ids[k] # ids[l] /\ ids[k][2] <= ids[l][2]
  /\ Scope(c, p) = IF Len(ids) = 0 THEN Outside ELSE ids[Len(ids)]

\* Shaped, with the bounds that the provers need spelled out.
LEMMA ShapedIs ==
  ASSUME NEW c, WellFormed(c), NEW p \in 1..Len(c) + 1, NEW ids, Shaped(c, p, ids)
  PROVE  Around1(c, p, ids)
<1>1. ids \in Seq(Kinds \X Nat)
  BY DEF Shaped, Kinds
<1>2. DOMAIN ids = 1..Len(ids) /\ Len(ids) \in Nat /\ \A k \in 1..Len(ids) : ids[k] \in Kinds \X Nat
  BY <1>1, LenProperties, ElementOfSeq
<1>3. c \in Seq(NodeType)
  BY DEF WellFormed
<1>4. \A j \in Encl(c, p) : j \in 1..Len(c) /\ j \in 1..p - 1
  BY <1>3, EnclIs
<1>5. ASSUME NEW k \in 1..Len(ids)
      PROVE  ids[k] # Outside
  BY <1>2, <1>5 DEF Kinds, Outside
<1>6. Scope(c, p) = IF Len(ids) = 0 THEN Outside ELSE ids[Len(ids)]
  BY <1>1, EmptySeq DEF Shaped
<1>7. \A k \in 1..Len(ids) : ids[k][2] \in Encl(c, p)
  BY <1>2 DEF Shaped
<1>8. \A k \in 1..Len(ids) :
              /\ Outer(c, ids[k]) = IF k = 1 THEN Outside ELSE ids[k - 1]
              /\ (ids[k][1] = "body" <=> c[ids[k][2]].op # "class")
              /\ ids[k][1] = "super" => c[ids[k][2]].arg # {}
              /\ \A l \in 1..Len(ids) : k < l => ids[k] # ids[l] /\ ids[k][2] <= ids[l][2]
  BY <1>2 DEF Shaped
<1> QED BY <1>1, <1>2, <1>4, <1>5, <1>6, <1>7, <1>8 DEF Around1

\* A leaf or a definition leaves them.
LEMMA ShapePlain ==
  ASSUME NEW c, WellFormed(c), NEW x \in NodeType, WellFormed(Append(c, x)),
         NEW ids, Shaped(c, Len(c) + 1, ids), x.op \notin Nesting \cup {"end"}
  PROVE  Shaped(Append(c, x), Len(c) + 1 + 1, ids)
<1> DEFINE d == Append(c, x)
           p == Len(c) + 1
<1>1. /\ c \in Seq(NodeType) /\ Len(c) \in Nat /\ p \in 1..Len(c) + 1
      /\ \A i \in 1..Len(c) : d[i] = c[i]
      /\ Encl(d, p + 1) = Encl(c, p)
  BY StepIs
<1>2. \A s : s[2] \in 1..Len(c) => Outer(d, s) = Outer(c, s)
  BY <1>1, TextAppend
<1>3. \A j \in Encl(c, p) : j \in 1..Len(c)
  BY <1>1, EnclIs
<1>4. Encl(c, p) # {} => Inmost(c, p) \in 1..Len(c)
  BY <1>1, EnclIs
<1> HIDE DEF d, p
<1>5. \A j \in Encl(c, p) : ScopeAt(d, j) = ScopeAt(c, j) /\ d[j] = c[j]
  BY <1>1, <1>3 DEF ScopeAt
<1>6. Scope(d, p + 1) = Scope(c, p)
  BY <1>1, <1>4 DEF Scope, Inmost, ScopeAt
<1>7. Shaped(c, p, ids)
  BY DEF p
<1>8. \A k \in DOMAIN ids : Outer(d, ids[k]) = Outer(c, ids[k]) /\ d[ids[k][2]] = c[ids[k][2]]
  BY <1>1, <1>2, <1>3, <1>7 DEF Shaped
<1>9. Shaped(d, p + 1, ids)
  <2>1. /\ ids \in Seq({"body", "this", "super"} \X Nat)
        /\ Scope(d, p + 1) = IF ids = <<>> THEN Outside ELSE ids[Len(ids)]
        /\ \A k, l \in DOMAIN ids : k < l => ids[k] # ids[l] /\ ids[k][2] <= ids[l][2]
    BY <1>6, <1>7 DEF Shaped
  <2>2. \A k \in DOMAIN ids :
          /\ Outer(d, ids[k]) = IF k = 1 THEN Outside ELSE ids[k - 1]
          /\ ids[k][2] \in Encl(d, p + 1)
          /\ (ids[k][1] = "body" <=> d[ids[k][2]].op # "class")
          /\ ids[k][1] = "super" => d[ids[k][2]].arg # {}
    BY <1>1, <1>7, <1>8, ZenonT(30) DEF Shaped
  <2>3. \A i \in Encl(d, p + 1) :
          /\ \E k \in DOMAIN ids : ids[k] = ScopeAt(d, i)
          /\ d[i].op = "class" /\ d[i].arg # {} => \E k \in DOMAIN ids : ids[k] = <<"super", i>>
    <3> TAKE i \in Encl(d, p + 1)
    <3>1. i \in Encl(c, p)
      BY <1>1
    <3>2. /\ \E k \in DOMAIN ids : ids[k] = ScopeAt(c, i)
          /\ c[i].op = "class" /\ c[i].arg # {} => \E k \in DOMAIN ids : ids[k] = <<"super", i>>
      BY <1>7, <3>1 DEF Shaped
    <3> QED BY <1>5, <3>1, <3>2
  <2> QED BY <2>1, <2>2, <2>3 DEF Shaped
<1> QED BY <1>9 DEF d, p

\* The scopes of a node.
ScopesOf(x, p) ==
  IF x.op # "class" THEN << <<"body", p>> >>
  ELSE IF x.arg = {} THEN << <<"this", p>> >> ELSE << <<"super", p>>, <<"this", p>> >>

\* A subclass names two scopes, what else holds others one.
LEMMA ScopesOfAre ==
  ASSUME NEW x, NEW p \in Nat
  PROVE  /\ ScopesOf(x, p) \in Seq(Kinds \X Nat)
         /\ Len(ScopesOf(x, p)) = IF x.op = "class" /\ x.arg # {} THEN 2 ELSE 1
         /\ x.op = "class" /\ x.arg # {} =>
              ScopesOf(x, p)[1] = <<"super", p>> /\ ScopesOf(x, p)[2] = <<"this", p>>
         /\ x.op = "class" /\ x.arg = {} => ScopesOf(x, p)[1] = <<"this", p>>
         /\ x.op # "class" => ScopesOf(x, p)[1] = <<"body", p>>
<1>1. <<"body", p>> \in Kinds \X Nat /\ <<"this", p>> \in Kinds \X Nat /\ <<"super", p>> \in Kinds \X Nat
  BY DEF Kinds
<1>2. CASE x.op # "class"
  <2>1. ScopesOf(x, p) = << <<"body", p>> >>
    BY <1>2 DEF ScopesOf
  <2> QED BY <1>1, <1>2, <2>1
<1>3. CASE x.op = "class" /\ x.arg = {}
  <2>1. ScopesOf(x, p) = << <<"this", p>> >>
    BY <1>3 DEF ScopesOf
  <2> QED BY <1>1, <1>3, <2>1
<1>4. CASE x.op = "class" /\ x.arg # {}
  <2>1. ScopesOf(x, p) = << <<"super", p>>, <<"this", p>> >>
    BY <1>4 DEF ScopesOf
  <2> QED BY <1>1, <1>4, <2>1
<1> QED BY <1>2, <1>3, <1>4

\* A node that holds others adds its own.
LEMMA ShapeOpen ==
  ASSUME NEW c, WellFormed(c), NEW x \in NodeType, WellFormed(Append(c, x)),
         NEW ids, Shaped(c, Len(c) + 1, ids), x.op \in Nesting
  PROVE  Shaped(Append(c, x), Len(c) + 1 + 1, ids \o ScopesOf(x, Len(c) + 1))
<1> DEFINE d == Append(c, x)
           p == Len(c) + 1
           new == ScopesOf(x, p)
           all == ids \o new
           L == Len(ids)
           g == IF x.op = "class" /\ x.arg # {} THEN 2 ELSE 1
<1>1. /\ c \in Seq(NodeType) /\ d \in Seq(NodeType) /\ Len(c) \in Nat /\ p \in 1..Len(c) + 1 /\ p \in Nat
      /\ Len(d) = p /\ p + 1 \in 1..Len(d) + 1
      /\ \A i \in 1..Len(c) : d[i] = c[i]
      /\ d[p] = x
      /\ Encl(d, p + 1) = Encl(c, p) \cup {p}
  BY StepIs
<1>2. /\ \A s : s[2] \in 1..Len(c) => Outer(d, s) = Outer(c, s)
      /\ Scope(d, p) = Scope(c, p)
  BY <1>1, TextAppend, EnclAppend
<1>3. \A j \in Encl(c, p) : j \in 1..Len(c) /\ j \in 1..p - 1
  BY <1>1, EnclIs
<1>4. /\ ids \in Seq(Kinds \X Nat) /\ DOMAIN ids = 1..L /\ L \in Nat
      /\ \A k \in 1..L :
           /\ ids[k] \in Kinds \X Nat
           /\ ids[k][2] \in Encl(c, p) /\ ids[k][2] \in 1..Len(c) /\ ids[k][2] \in 1..p - 1
           /\ Outer(c, ids[k]) = IF k = 1 THEN Outside ELSE ids[k - 1]
           /\ (ids[k][1] = "body" <=> c[ids[k][2]].op # "class")
           /\ ids[k][1] = "super" => c[ids[k][2]].arg # {}
           /\ \A l \in 1..L : k < l => ids[k] # ids[l] /\ ids[k][2] <= ids[l][2]
      /\ Scope(c, p) = IF L = 0 THEN Outside ELSE ids[L]
  <2>1. Around1(c, p, ids)
    BY <1>1, ShapedIs
  <2> QED BY <2>1 DEF Around1
<1>5. Inmost(d, p + 1) = p
  <2>1. /\ Inmost(d, p + 1) \in Encl(d, p + 1) /\ \A j \in Encl(d, p + 1) : j <= Inmost(d, p + 1)
    BY <1>1, EnclIs
  <2>2. p <= Inmost(d, p + 1) /\ (Inmost(d, p + 1) = p \/ Inmost(d, p + 1) \in 1..p - 1)
    BY <1>1, <1>3, <2>1
  <2> QED BY <1>1, <2>2
<1>6. /\ new \in Seq(Kinds \X Nat) /\ Len(new) = g
      /\ x.op = "class" /\ x.arg # {} => new[1] = <<"super", p>> /\ new[2] = <<"this", p>>
      /\ x.op = "class" /\ x.arg = {} => new[1] = <<"this", p>>
      /\ x.op # "class" => new[1] = <<"body", p>>
  BY <1>1, ScopesOfAre
<1> HIDE DEF d, p, new
<1>7. /\ all \in Seq(Kinds \X Nat) /\ Len(all) = L + g /\ DOMAIN all = 1..L + g
      /\ \A k \in 1..L : all[k] = ids[k]
      /\ all[L + 1] = new[1] /\ (g = 2 => all[L + 2] = new[2])
  <2>1. /\ all \in Seq(Kinds \X Nat) /\ Len(all) = L + Len(new)
        /\ \A i \in 1..L + Len(new) : all[i] = IF i <= L THEN ids[i] ELSE new[i - L]
    <3>1. ids \in Seq(Kinds \X Nat) /\ new \in Seq(Kinds \X Nat)
      BY <1>4, <1>6
    <3> QED BY <3>1, ConcatProperties
  <2>2. DOMAIN all = 1..L + g
    BY <1>6, <2>1, LenProperties
  <2>3. \A k \in 1..L : k \in 1..L + Len(new) /\ k <= L
    BY <1>4, <1>6
  <2>4. L + 1 \in 1..L + Len(new) /\ ~(L + 1 <= L) /\ (L + 1) - L = 1
    BY <1>4, <1>6
  <2>5. g = 2 => L + 2 \in 1..L + Len(new) /\ ~(L + 2 <= L) /\ (L + 2) - L = 2
    BY <1>4, <1>6
  <2> HIDE DEF all
  <2>6. all[L + 1] = new[1] /\ (g = 2 => all[L + 2] = new[2])
    BY <2>1, <2>4, <2>5
  <2>7. \A k \in 1..L : all[k] = ids[k]
    BY <2>1, <2>3
  <2> QED BY <1>6, <2>1, <2>2, <2>6, <2>7
<1>8. /\ g = 2 => x.op = "class" /\ x.arg # {} /\ all[L + 1] = <<"super", p>> /\ all[L + 2] = <<"this", p>>
      /\ g = 1 => all[L + 1] = <<IF x.op = "class" THEN "this" ELSE "body", p>>
                  /\ ~(x.op = "class" /\ x.arg # {})
  BY <1>6, <1>7
<1>9. g \in {1, 2}
  OBVIOUS
<1> HIDE DEF all, g, L
<1>10. \A k \in 1..L + g : k \in 1..L \/ k = L + 1 \/ (g = 2 /\ k = L + 2)
  BY <1>4, <1>9
<1>11. Scope(d, p + 1) = all[L + g] /\ all # <<>>
  <2>1. Scope(d, p + 1) = <<IF x.op = "class" THEN "this" ELSE "body", p>>
    BY <1>1, <1>5 DEF Scope, ScopeAt
  <2>2. Len(all) # 0
    BY <1>4, <1>7, <1>9
  <2> QED BY <1>7, <1>8, <1>9, <2>1, <2>2
<1>12. ASSUME NEW k \in 1..L + g
       PROVE  /\ Outer(d, all[k]) = IF k = 1 THEN Outside ELSE all[k - 1]
              /\ all[k][2] \in Encl(d, p + 1)
              /\ (all[k][1] = "body" <=> d[all[k][2]].op # "class")
              /\ all[k][1] = "super" => d[all[k][2]].arg # {}
  <2>1. CASE k \in 1..L
    <3>1. k # 1 => k - 1 \in 1..L
      BY <1>4, <2>1
    <3>2. all[k] = ids[k] /\ (k # 1 => all[k - 1] = ids[k - 1])
      BY <1>7, <2>1, <3>1
    <3>3. /\ ids[k][2] \in Encl(c, p) /\ ids[k][2] \in 1..Len(c)
          /\ Outer(c, ids[k]) = IF k = 1 THEN Outside ELSE ids[k - 1]
          /\ (ids[k][1] = "body" <=> c[ids[k][2]].op # "class")
          /\ ids[k][1] = "super" => c[ids[k][2]].arg # {}
      BY <1>4, <2>1
    <3>4. Outer(d, ids[k]) = Outer(c, ids[k]) /\ d[ids[k][2]] = c[ids[k][2]]
      BY <1>1, <1>2, <3>3
    <3>5. ids[k][2] \in Encl(d, p + 1)
      BY <1>1, <3>3
    <3> QED BY <3>2, <3>3, <3>4, <3>5
  <2>2. CASE k = L + 1
    <3>1. Outer(d, <<"body", p>>) = Scope(c, p) /\ Outer(d, <<"super", p>>) = Scope(c, p)
          /\ (g = 1 /\ x.op = "class" => Outer(d, <<"this", p>>) = Scope(c, p))
      BY <1>1, <1>2, <1>8 DEF Outer
    <3>2. Scope(c, p) = IF k = 1 THEN Outside ELSE all[k - 1]
      <4>1. CASE L = 0
        BY <1>4, <2>2, <4>1
      <4>2. CASE L # 0
        <5>1. L \in 1..L /\ k # 1 /\ k - 1 = L
          BY <1>4, <2>2, <4>2
        <5> QED BY <1>4, <1>7, <4>2, <5>1
      <4> QED BY <4>1, <4>2
    <3>3. all[k] = <<"super", p>> \/ all[k] = <<"body", p>> \/ (all[k] = <<"this", p>> /\ g = 1 /\ x.op = "class")
      BY <1>8, <1>9, <2>2
    <3>4. /\ (all[k][1] = "body" <=> x.op # "class") /\ all[k][2] = p
          /\ all[k][1] = "super" => x.arg # {}
      BY <1>8, <1>9, <2>2
    <3> QED BY <1>1, <3>1, <3>2, <3>3, <3>4
  <2>3. CASE g = 2 /\ k = L + 2
    <3>1. Outer(d, <<"this", p>>) = <<"super", p>>
      BY <1>1, <1>8, <2>3 DEF Outer
    <3>2. k # 1 /\ k - 1 = L + 1
      BY <1>4, <2>3
    <3>3. all[k] = <<"this", p>> /\ all[k - 1] = <<"super", p>> /\ x.op = "class"
      BY <1>8, <2>3, <3>2
    <3> QED BY <1>1, <3>1, <3>2, <3>3
  <2> QED BY <1>10, <2>1, <2>2, <2>3
<1>13. ASSUME NEW k \in 1..L + g, NEW l \in 1..L + g, k < l
       PROVE  all[k] # all[l] /\ all[k][2] <= all[l][2]
  <2>1. CASE k \in 1..L /\ l \in 1..L
    BY <1>4, <1>7, <1>13, <2>1
  <2>2. CASE k \in 1..L /\ l \notin 1..L
    <3>1. all[l][2] = p
      BY <1>8, <1>9, <1>10, <2>2
    <3>2. all[k][2] \in 1..p - 1
      BY <1>4, <1>7, <2>2
    <3> QED BY <1>1, <3>1, <3>2
  <2>3. CASE k \notin 1..L
    <3>1. g = 2 /\ k = L + 1 /\ l = L + 2
      BY <1>4, <1>9, <1>10, <1>13, <2>3
    <3> QED BY <1>1, <1>8, <3>1
  <2> QED BY <2>1, <2>2, <2>3
<1>14. ASSUME NEW i \in Encl(d, p + 1)
       PROVE  /\ \E k \in 1..L + g : all[k] = ScopeAt(d, i)
              /\ d[i].op = "class" /\ d[i].arg # {} => \E k \in 1..L + g : all[k] = <<"super", i>>
  <2>1. CASE i \in Encl(c, p)
    <3>1. d[i] = c[i] /\ ScopeAt(d, i) = ScopeAt(c, i)
      BY <1>1, <1>3, <2>1 DEF ScopeAt
    <3>2. /\ \E k \in DOMAIN ids : ids[k] = ScopeAt(c, i)
          /\ c[i].op = "class" /\ c[i].arg # {} => \E k \in DOMAIN ids : ids[k] = <<"super", i>>
      BY <2>1 DEF Shaped, p
    <3>3. \A k \in DOMAIN ids : k \in 1..L + g /\ all[k] = ids[k]
      BY <1>4, <1>7, <1>9
    <3> QED BY <3>1, <3>2, <3>3
  <2>2. CASE i = p
    <3>1. L + 1 \in 1..L + g /\ L + g \in 1..L + g
      BY <1>4, <1>9
    <3>2. ScopeAt(d, i) = <<IF x.op = "class" THEN "this" ELSE "body", p>>
      BY <1>1, <2>2 DEF ScopeAt
    <3>3. all[L + g] = ScopeAt(d, i)
      BY <1>8, <1>9, <3>2
    <3>4. d[i].op = "class" /\ d[i].arg # {} => all[L + 1] = <<"super", i>>
      BY <1>1, <1>8, <1>9, <2>2
    <3> QED BY <3>1, <3>3, <3>4
  <2> QED BY <1>1, <2>1, <2>2
<1>15. Shaped(d, p + 1, all)
  BY <1>7, <1>11, <1>12, <1>13, <1>14 DEF Shaped, Kinds
<1> QED BY <1>15 DEF d, p, all, new

\* How many.
Breadth(x) == IF x.op = "class" /\ x.arg # {} THEN 2 ELSE 1

\* An end takes those of its node away.
LEMMA ShapeClose ==
  ASSUME NEW c, WellFormed(c), NEW x \in NodeType, WellFormed(Append(c, x)),
         NEW ids, Shaped(c, Len(c) + 1, ids), x.op = "end", NEW w, w = Breadth(c[x.at])
  PROVE  /\ w \in 1..Len(ids) /\ Len(ids) \in Nat /\ ids[Len(ids)] = ScopeAt(c, x.at)
         /\ Shaped(Append(c, x), Len(c) + 1 + 1, SubSeq(ids, 1, Len(ids) - w))
<1> DEFINE d == Append(c, x)
           p == Len(c) + 1
           j == x.at
           L == Len(ids)
           rest == SubSeq(ids, 1, L - w)
<1>1. /\ c \in Seq(NodeType) /\ Len(c) \in Nat /\ p \in 1..Len(c) + 1 /\ p \in Nat
      /\ \A i \in 1..Len(c) : d[i] = c[i]
      /\ Encl(c, p) # {} /\ j = Inmost(c, p) /\ j \in 1..Len(c)
      /\ Encl(c, p) = Encl(c, j) \cup {j} /\ j \notin Encl(c, j)
      /\ Encl(d, p + 1) = Encl(c, j)
  BY StepIs
<1>2. \A s : s[2] \in 1..Len(c) => Outer(d, s) = Outer(c, s)
  BY <1>1, TextAppend
<1>3. \A i \in Encl(c, p) : i \in 1..Len(c)
  BY <1>1, EnclIs
<1>4. Around1(c, p, ids)
  BY <1>1, ShapedIs
<1>5. ids \in Seq(Kinds \X Nat) /\ DOMAIN ids = 1..L /\ L \in Nat
  BY <1>4 DEF Around1
<1>6. \A k \in 1..L :
        /\ ids[k] \in Kinds \X Nat /\ ids[k] = <<ids[k][1], ids[k][2]>>
        /\ ids[k][2] \in Encl(c, p)
        /\ Outer(c, ids[k]) = IF k = 1 THEN Outside ELSE ids[k - 1]
        /\ (ids[k][1] = "body" <=> c[ids[k][2]].op # "class")
        /\ ids[k][1] = "super" => c[ids[k][2]].arg # {}
        /\ \A l \in 1..L : k < l => ids[k] # ids[l] /\ ids[k][2] <= ids[l][2]
  BY <1>4 DEF Around1
<1>7. Scope(c, p) = IF L = 0 THEN Outside ELSE ids[L]
  BY <1>4 DEF Around1
<1>8. Shaped(c, p, ids) /\ p + 1 = Len(c) + 1 + 1
  BY <1>1
<1>9. /\ w = IF c[j].op = "class" /\ c[j].arg # {} THEN 2 ELSE 1
      /\ w \in {1, 2}
  BY DEF Breadth
<1> HIDE DEF d, p, j, L
<1>10. L \in 1..L /\ ids[L] = ScopeAt(c, j)
  <2>1. Scope(c, p) = ScopeAt(c, j) /\ ScopeAt(c, j)[2] # 0
    BY <1>1 DEF Scope, ScopeAt
  <2>2. Scope(c, p) # Outside
    BY <2>1 DEF Outside
  <2>3. L # 0
    BY <1>7, <2>2
  <2> QED BY <1>5, <1>7, <2>1, <2>3
<1>11. w = 2 => L - 1 \in 1..L /\ ids[L - 1] = <<"super", j>> /\ ids[L] = <<"this", j>>
  <2> HAVE w = 2
  <2>1. ids[L] = <<"this", j>> /\ c[j].arg # {}
    BY <1>9, <1>10 DEF ScopeAt
  <2>2. Outer(c, ids[L]) = <<"super", j>> /\ <<"super", j>> # Outside
    BY <2>1 DEF Outer, Outside
  <2>3. L # 1 /\ ids[L - 1] = <<"super", j>>
    BY <1>6, <1>10, <2>2
  <2> QED BY <1>5, <1>10, <2>1, <2>3
<1>12. w \in 1..L /\ L - w \in Nat /\ L - w <= L
  BY <1>5, <1>9, <1>10, <1>11
<1>13. \A k \in 1..L - w : k \in 1..L /\ ids[k][2] # j
  <2> TAKE k \in 1..L - w
  <2>1. k \in 1..L /\ k < L /\ (w = 2 => k < L - 1)
    BY <1>5, <1>9, <1>12
  <2>2. ids[k] # ids[L] /\ (w = 2 => ids[k] # ids[L - 1])
    BY <1>6, <1>10, <1>11, <2>1
  <2>3. ASSUME ids[k][2] = j
        PROVE  FALSE
    <3>1. /\ ids[k] = <<ids[k][1], j>> /\ ids[k][1] \in Kinds
          /\ (ids[k][1] = "body" <=> c[j].op # "class")
          /\ ids[k][1] = "super" => c[j].arg # {}
      BY <1>6, <2>1, <2>3
    <3>2. CASE c[j].op # "class"
      BY <1>10, <2>2, <3>1, <3>2 DEF ScopeAt
    <3>3. CASE c[j].op = "class" /\ ids[k][1] = "this"
      BY <1>10, <2>2, <3>1, <3>3 DEF ScopeAt
    <3>4. CASE c[j].op = "class" /\ ids[k][1] = "super"
      BY <1>9, <1>11, <2>2, <3>1, <3>4
    <3> QED BY <3>1, <3>2, <3>3, <3>4 DEF Kinds
  <2> QED BY <2>1, <2>3
<1>14. /\ rest \in Seq(Kinds \X Nat) /\ Len(rest) = L - w /\ DOMAIN rest = 1..L - w
       /\ \A k \in 1..L - w : rest[k] = ids[k]
  <2>1. w \in 0..Len(ids) /\ ids \in Seq(Kinds \X Nat)
    BY <1>5, <1>12 DEF L
  <2>2. /\ SubSeq(ids, 1, Len(ids) - w) \in Seq(Kinds \X Nat)
        /\ Len(SubSeq(ids, 1, Len(ids) - w)) = Len(ids) - w
        /\ DOMAIN SubSeq(ids, 1, Len(ids) - w) = 1..Len(ids) - w
        /\ \A k \in 1..Len(ids) - w : SubSeq(ids, 1, Len(ids) - w)[k] = ids[k]
    <3>1. \A S : \A s \in Seq(S) : \A k \in 0..Len(s) :
            /\ SubSeq(s, 1, Len(s) - k) \in Seq(S)
            /\ Len(SubSeq(s, 1, Len(s) - k)) = Len(s) - k
            /\ DOMAIN SubSeq(s, 1, Len(s) - k) = 1..Len(s) - k
            /\ \A i \in 1..Len(s) - k : SubSeq(s, 1, Len(s) - k)[i] = s[i]
      BY Shortened
    <3> QED BY <2>1, <3>1, Zenon
  <2> QED BY <2>2 DEF L
<1> HIDE DEF rest
<1>15. \A k \in 1..L - w :
         /\ rest[k] = ids[k] /\ ids[k][2] \in Encl(c, j) /\ ids[k][2] \in 1..Len(c)
         /\ d[ids[k][2]] = c[ids[k][2]] /\ Outer(d, ids[k]) = Outer(c, ids[k])
  <2> TAKE k \in 1..L - w
  <2>1. rest[k] = ids[k] /\ ids[k][2] \in Encl(c, p) /\ ids[k][2] # j
    BY <1>6, <1>13, <1>14
  <2> QED BY <1>1, <1>2, <1>3, <2>1
<1>16. Scope(d, p + 1) = IF rest = <<>> THEN Outside ELSE rest[Len(rest)]
  <2>1. Scope(d, p + 1) = Scope(c, j)
    <3>1. Inmost(d, p + 1) = Inmost(c, j)
      BY <1>1 DEF Inmost
    <3>2. ASSUME Encl(c, j) # {}
          PROVE  ScopeAt(d, Inmost(c, j)) = ScopeAt(c, Inmost(c, j))
      <4>1. Inmost(c, j) \in Encl(c, j)
        BY <1>1, <3>2, EnclIs
      <4>2. Inmost(c, j) \in 1..Len(c)
        BY <1>1, <1>3, <4>1
      <4> QED BY <1>1, <4>2 DEF ScopeAt
    <3> QED BY <1>1, <3>1, <3>2 DEF Scope
  <2>2. Scope(c, j) = IF L - w = 0 THEN Outside ELSE ids[L - w]
    <3>1. CASE w = 2
      <4>1. Outer(c, ids[L - 1]) = Scope(c, j)
        BY <1>11, <3>1 DEF Outer
      <4>2. Outer(c, ids[L - 1]) = IF L - 1 = 1 THEN Outside ELSE ids[(L - 1) - 1]
        BY <1>6, <1>11, <3>1
      <4>3. (L - 1) - 1 = L - w /\ (L - 1 = 1 <=> L - w = 0)
        BY <1>5, <3>1
      <4> QED BY <4>1, <4>2, <4>3
    <3>2. CASE w = 1
      <4>1. Outer(c, ids[L]) = Scope(c, j)
        BY <1>9, <1>10, <3>2 DEF Outer, ScopeAt
      <4>2. Outer(c, ids[L]) = IF L = 1 THEN Outside ELSE ids[L - 1]
        BY <1>6, <1>10
      <4>3. L = 1 <=> L - w = 0
        BY <1>5, <3>2
      <4> QED BY <3>2, <4>1, <4>2, <4>3
    <3> QED BY <1>9, <3>1, <3>2
  <2>3. L - w # 0 => L - w \in 1..L - w
    <3>1. \A m \in Nat : m # 0 => m \in 1..m
      OBVIOUS
    <3> QED BY <1>12, <3>1
  <2>4. rest = <<>> <=> L - w = 0
    BY <1>14, EmptySeq
  <2> QED BY <1>14, <2>1, <2>2, <2>3, <2>4
<1>17. ASSUME NEW k \in 1..L - w
       PROVE  /\ Outer(d, rest[k]) = IF k = 1 THEN Outside ELSE rest[k - 1]
              /\ rest[k][2] \in Encl(d, p + 1)
              /\ (rest[k][1] = "body" <=> d[rest[k][2]].op # "class")
              /\ rest[k][1] = "super" => d[rest[k][2]].arg # {}
  <2>1. k \in 1..L /\ (k # 1 => k - 1 \in 1..L - w)
    <3>1. \A m \in Nat : \A i \in 1..m : i # 1 => i - 1 \in 1..m
      OBVIOUS
    <3> QED BY <1>12, <1>13, <3>1
  <2>2. rest[k] = ids[k] /\ (k # 1 => rest[k - 1] = ids[k - 1])
    BY <1>15, <2>1
  <2>3. /\ Outer(c, ids[k]) = IF k = 1 THEN Outside ELSE ids[k - 1]
        /\ (ids[k][1] = "body" <=> c[ids[k][2]].op # "class")
        /\ ids[k][1] = "super" => c[ids[k][2]].arg # {}
    BY <1>6, <2>1
  <2>4. ids[k][2] \in Encl(c, j) /\ d[ids[k][2]] = c[ids[k][2]] /\ Outer(d, ids[k]) = Outer(c, ids[k])
    BY <1>15
  <2>5. ids[k][2] \in Encl(d, p + 1)
    BY <1>1, <2>4
  <2> QED BY <2>2, <2>3, <2>4, <2>5
<1>18. \A k, l \in 1..L - w : k < l => rest[k] # rest[l] /\ rest[k][2] <= rest[l][2]
  <2> TAKE k, l \in 1..L - w
  <2>1. k \in 1..L /\ l \in 1..L /\ rest[k] = ids[k] /\ rest[l] = ids[l]
    BY <1>13, <1>14
  <2> QED BY <1>6, <2>1
<1>19. ASSUME NEW i \in Encl(d, p + 1)
       PROVE  /\ \E k \in 1..L - w : rest[k] = ScopeAt(d, i)
              /\ d[i].op = "class" /\ d[i].arg # {} => \E k \in 1..L - w : rest[k] = <<"super", i>>
  <2>1. i \in Encl(c, p) /\ i # j /\ i \in 1..Len(c) /\ d[i] = c[i] /\ ScopeAt(d, i) = ScopeAt(c, i)
    BY <1>1, <1>3 DEF ScopeAt
  <2>2. /\ \E k \in DOMAIN ids : ids[k] = ScopeAt(c, i)
        /\ c[i].op = "class" /\ c[i].arg # {} => \E k \in DOMAIN ids : ids[k] = <<"super", i>>
    BY <1>8, <2>1 DEF Shaped
  <2>3. ASSUME NEW k \in DOMAIN ids, ids[k][2] = i
        PROVE  k \in 1..L - w
    <3>1. ids[L][2] = j /\ (w = 2 => ids[L - 1][2] = j)
      BY <1>10, <1>11 DEF ScopeAt
    <3>2. k # L /\ (w = 2 => k # L - 1)
      BY <2>1, <2>3, <3>1
    <3> QED BY <1>5, <1>9, <2>3, <3>2
  <2>4. ScopeAt(c, i)[2] = i /\ <<"super", i>>[2] = i
    BY DEF ScopeAt
  <2> QED BY <1>14, <2>1, <2>2, <2>3, <2>4
<1>20. Shaped(d, p + 1, rest)
  BY <1>14, <1>16, <1>17, <1>18, <1>19 DEF Shaped, Kinds
<1> QED BY <1>5, <1>10, <1>12, <1>20 DEF d, p, j, L, rest

-----------------------------------------------------------------------------
(* The names in the scopes.                                                *)

\* A name means a node that binds it.
LEMMA LexicalBinds ==
  ASSUME NEW c, WellFormed(c), NEW q \in 1..Len(c) + 1, NEW n, NEW i \in Nat, NEW kind,
         Lexical(c, n, q) = <<kind, i>>, i # 0
  PROVE  /\ i \in Encl(c, q) /\ i \in 1..q - 1 /\ kind = (IF n \in Special THEN n ELSE "body")
         /\ Binds(c, i, n, q)
<1> DEFINE H == {e \in Encl(c, q) : Binds(c, e, n, q)}
<1>1. c \in Seq(NodeType) /\ Len(c) \in Nat
  BY LenProperties DEF WellFormed
<1>2. Encl(c, q) \in SUBSET (1..q - 1) /\ q \in Nat
  BY <1>1, EnclIs
<1>3. Lexical(c, n, q) = IF H = {} THEN Outside ELSE <<IF n \in Special THEN n ELSE "body", Max(H)>>
  BY DEF Lexical
<1>4. H # {} /\ i = Max(H) /\ kind = (IF n \in Special THEN n ELSE "body")
  BY <1>3 DEF Outside
<1>5. H \in SUBSET (0..q) /\ H # {}
  BY <1>2, <1>4
<1> HIDE DEF H
<1>6. i \in H
  BY <1>2, <1>4, <1>5, MaxIs
<1> QED BY <1>2, <1>4, <1>6 DEF H

\* A declaration stays one.
LEMMA DeclaredStays ==
  ASSUME NEW c, NEW q \in Nat, NEW p \in Nat, q <= p, NEW i \in Nat, NEW n,
         DeclaredIn(c, <<"body", i>>, n, q)
  PROVE  DeclaredIn(c, <<"body", i>>, n, p)
<1>1. \A j : j \in i + 1..q - 1 => j \in i + 1..p - 1
  OBVIOUS
<1> QED BY <1>1 DEF DeclaredIn

\* _resolve_local finds the scope that the name means.
LEMMA Found ==
  ASSUME Base, NEW ids, Shaped(code, Here, ids), Named(code, Here, scopes, ids), NEW n \in Name \cup Special
  PROVE  /\ Len(ids) = Len(scopes) /\ Len(ids) \in Nat
         /\ Holders(scopes, n) = {} => Lexical(code, n, Here) = Outside
         /\ Holders(scopes, n) # {} =>
              /\ Min(Holders(scopes, n)) \in 0..Len(ids) - 1
              /\ Len(ids) - Min(Holders(scopes, n)) \in 1..Len(ids)
              /\ n \in DOMAIN scopes[Len(ids) - Min(Holders(scopes, n))]
              /\ Lexical(code, n, Here) = ids[Len(ids) - Min(Holders(scopes, n))]
<1>1. WellFormed(code) /\ scopes \in Seq(ScopeTypes) /\ Len(scopes) \in Nat
  BY LenProperties DEF Base, ResolverTypes
<1>2. Here \in 1..Len(code) + 1
  BY <1>1, LenProperties DEF WellFormed, Here
<1>3. DOMAIN ids = 1..Len(ids) /\ Len(ids) = Len(scopes)
  <2>1. Around1(code, Here, ids)
    BY <1>1, <1>2, ShapedIs
  <2> QED BY <2>1 DEF Around1, Named
<1>4. \A k \in 1..Len(ids) : n \in DOMAIN scopes[k] <=> DeclaredIn(code, ids[k], n, Here)
  BY <1>3 DEF Named
<1>5. ASSUME Holders(scopes, n) = {}
      PROVE  Lexical(code, n, Here) = Outside
  <2>1. ASSUME NEW k \in 1..Len(ids), n \in DOMAIN scopes[k]
        PROVE  FALSE
    <3>1. Len(scopes) - k \in 0..Len(scopes) - 1 /\ Len(scopes) - (Len(scopes) - k) = k
      BY <1>1, <1>3
    <3>2. Len(scopes) - k \in Holders(scopes, n)
      BY <2>1, <3>1 DEF Holders
    <3> QED BY <1>5, <3>2
  <2>2. \A k \in DOMAIN ids : ~DeclaredIn(code, ids[k], n, Here)
    BY <1>3, <1>4, <2>1
  <2> QED BY <1>1, <1>2, <2>2, LexicalIs
<1>6. ASSUME Holders(scopes, n) # {}
      PROVE  /\ Min(Holders(scopes, n)) \in 0..Len(ids) - 1
             /\ Len(ids) - Min(Holders(scopes, n)) \in 1..Len(ids)
             /\ n \in DOMAIN scopes[Len(ids) - Min(Holders(scopes, n))]
             /\ Lexical(code, n, Here) = ids[Len(ids) - Min(Holders(scopes, n))]
  <2> DEFINE m == Len(ids) - Min(Holders(scopes, n))
  <2>1. /\ Min(Holders(scopes, n)) \in 0..Len(ids) - 1 /\ m \in 1..Len(ids)
        /\ n \in DOMAIN scopes[m]
        /\ \A k \in 1..Len(ids) : n \in DOMAIN scopes[k] => k <= m
    BY <1>1, <1>3, <1>6, HoldersAre
  <2>2. DeclaredIn(code, ids[m], n, Here) /\ m \in DOMAIN ids
    BY <1>3, <1>4, <2>1
  <2>3. \A l \in DOMAIN ids : DeclaredIn(code, ids[l], n, Here) => l <= m
    BY <1>3, <1>4, <2>1
  <2> HIDE DEF m
  <2>4. Lexical(code, n, Here) = ids[m]
    BY <1>1, <1>2, <2>2, <2>3, LexicalIs
  <2> QED BY <2>1, <2>4 DEF m
<1> QED BY <1>1, <1>3, <1>5, <1>6

\* The scopes hold what the text declares, after the visit too.
LEMMA NamedMark ==
  ASSUME Base, NEW x \in NodeType, WellFormed(Append(code, x)), Suits(code, x),
         NEW ids, Shaped(code, Here, ids), Named(code, Here, scopes, ids), NEW t, Marking(x, t)
  PROVE  Named(Append(code, x), Here + 1, t, ids)
<1> DEFINE d == Append(code, x)
           p == Here
           L == Len(ids)
<1>1. /\ WellFormed(code) /\ code \in Seq(NodeType) /\ Len(code) \in Nat
      /\ p \in 1..Len(code) + 1 /\ p \in Nat /\ p = Len(code) + 1
      /\ scopes \in Seq(ScopeTypes)
      /\ \A i \in 1..Len(code) : d[i] = code[i]
  BY LenProperties, StepIs DEF Base, ResolverTypes, Here
<1>2. Around1(code, p, ids)
  BY <1>1, ShapedIs
<1>3. L = Len(scopes) /\ L \in Nat /\ DOMAIN ids = 1..L
  BY <1>2 DEF Around1, Named
<1>4. \A k \in 1..L :
        /\ ids[k] = <<ids[k][1], ids[k][2]>> /\ ids[k][1] \in Kinds /\ ids[k][2] \in Encl(code, p)
        /\ ids[k][2] \in 1..Len(code) /\ ids[k] # Outside
        /\ \A l \in 1..L : k < l => ids[k] # ids[l]
  BY <1>2 DEF Around1
<1>5. L # 0 => ids[L] = Scope(code, p)
  BY <1>2 DEF Around1
<1>6. /\ t \in Seq(ScopeTypes) /\ Len(t) = L
      /\ \A k \in 1..L :
           /\ DOMAIN t[k] = DOMAIN scopes[k] \cup (IF k = L /\ x.op \in Declaring THEN {x.name} ELSE {})
           /\ \A m \in DOMAIN scopes[k] : scopes[k][m].accessed => t[k][m].accessed
      /\ \A n \in Used(x) :
           Holders(scopes, n) # {} => t[L - Min(Holders(scopes, n))][n].accessed
  BY <1>3 DEF Marking
<1>7. \A k \in 1..L :
        /\ DOMAIN scopes[k] = {n \in Name \cup Special : DeclaredIn(code, ids[k], n, p)}
        /\ \A n \in DOMAIN scopes[k], q \in 1..p - 1 :
             ~scopes[k][n].accessed /\ n \in UsesOf(code, q) => Lexical(code, n, q) # ids[k]
  BY <1>3 DEF Named
<1>8. /\ \A n : \A i \in 1..Len(code) :
           (DeclaredIn(d, <<"body", i>>, n, p + 1) <=>
              \/ DeclaredIn(code, <<"body", i>>, n, p)
              \/ x.op \in Declaring /\ x.name = n /\ Inmost(code, p) = i)
      /\ \A n : \A s : s[1] # "body" => (DeclaredIn(d, s, n, p + 1) <=> DeclaredIn(code, s, n, p))
      /\ UsesOf(d, p) = Used(x)
  BY <1>1, DeclaredNext
<1>9. /\ \A n : \A q \in 1..p : Lexical(d, n, q) = Lexical(code, n, q)
      /\ \A q \in 1..Len(code) : UsesOf(d, q) = UsesOf(code, q)
  BY <1>1, TextAppend
<1>10. \A n \in Name \cup Special :
         /\ Holders(scopes, n) = {} => Lexical(code, n, p) = Outside
         /\ Holders(scopes, n) # {} =>
              /\ L - Min(Holders(scopes, n)) \in 1..L
              /\ Lexical(code, n, p) = ids[L - Min(Holders(scopes, n))]
  BY Found
<1> HIDE DEF d, p, L
<1>11. x.op \in Declaring => x.name \in Name
  BY DEF Suits, Declaring
<1>12. ASSUME NEW k \in 1..L, x.op \in Declaring
       PROVE  ids[k][1] = "body" /\ Inmost(code, p) = ids[k][2] <=> k = L
  <2>1. Encl(code, p) # {} /\ L # 0 /\ L \in 1..L
    BY <1>3, <1>4
  <2>2. code[Inmost(code, p)].op # "class"
    BY <1>12, <2>1 DEF Suits, Declaring, p, Here
  <2>3. ids[L] = <<"body", Inmost(code, p)>>
    BY <1>5, <2>1, <2>2 DEF Scope, ScopeAt
  <2>4. k # L => ids[k] # ids[L]
    BY <1>3, <1>4, <2>1
  <2> QED BY <1>4, <2>3, <2>4
<1>13. ASSUME NEW k \in 1..L
       PROVE  DOMAIN t[k] = {n \in Name \cup Special : DeclaredIn(d, ids[k], n, p + 1)}
  <2>1. \A n : DeclaredIn(d, ids[k], n, p + 1) <=>
                 DeclaredIn(code, ids[k], n, p) \/ (k = L /\ x.op \in Declaring /\ x.name = n)
    <3>1. CASE ids[k][1] = "body"
      <4>1. ids[k] = <<"body", ids[k][2]>> /\ ids[k][2] \in 1..Len(code)
        BY <1>4, <3>1
      <4>2. \A n : DeclaredIn(d, ids[k], n, p + 1) <=>
              \/ DeclaredIn(code, ids[k], n, p)
              \/ x.op \in Declaring /\ x.name = n /\ Inmost(code, p) = ids[k][2]
        BY <1>8, <4>1
      <4> QED BY <1>12, <3>1, <4>2
    <3>2. CASE ids[k][1] # "body"
      BY <1>8, <1>12, <3>2
    <3> QED BY <3>1, <3>2
  <2> QED BY <1>6, <1>7, <1>11, <2>1
<1>14. ASSUME NEW k \in 1..L, NEW n \in DOMAIN t[k], NEW q \in 1..p,
              ~t[k][n].accessed, n \in UsesOf(d, q)
       PROVE  Lexical(d, n, q) # ids[k]
  <2>0. Lexical(d, n, q) = Lexical(code, n, q) /\ n \in Name \cup Special
    BY <1>9, <1>13
  <2>1. CASE q = p
    <3>1. n \in Used(x)
      BY <1>8, <1>14, <2>1
    <3>2. CASE Holders(scopes, n) = {}
      BY <1>4, <1>10, <2>0, <2>1, <3>2
    <3>3. CASE Holders(scopes, n) # {}
      <4> DEFINE m == L - Min(Holders(scopes, n))
      <4>1. m \in 1..L /\ Lexical(code, n, p) = ids[m] /\ t[m][n].accessed
        BY <1>6, <1>10, <2>0, <3>1, <3>3
      <4> HIDE DEF m
      <4>2. m # k
        BY <1>14, <4>1
      <4>3. m < k \/ k < m
        BY <1>3, <4>1, <4>2
      <4>4. ids[m] # ids[k]
        BY <1>4, <4>1, <4>3
      <4> QED BY <2>0, <2>1, <4>1, <4>4
    <3> QED BY <3>2, <3>3
  <2>2. CASE q # p
    <3>1. q \in 1..p - 1 /\ q \in 1..Len(code) /\ q \in Nat /\ q <= p
      BY <1>1, <2>2
    <3>2. n \in UsesOf(code, q)
      BY <1>9, <1>14, <3>1
    <3>3. CASE n \in DOMAIN scopes[k]
      <4>1. ~scopes[k][n].accessed
        BY <1>6, <1>14, <3>3
      <4> QED BY <1>7, <2>0, <3>1, <3>2, <3>3, <4>1
    <3>4. CASE n \notin DOMAIN scopes[k]
      <4>1. n = x.name /\ x.op \in Declaring /\ k = L
        BY <1>6, <3>4
      <4>2. n \in Name /\ n \notin Special /\ ids[k][1] = "body" /\ ids[k][2] \in 1..Len(code)
        BY <1>4, <1>11, <1>12, <4>1, ResolverAssumption
      <4>3. ids[k] = <<"body", ids[k][2]>> /\ ids[k][2] \in Nat /\ ids[k][2] # 0
        BY <1>1, <1>4, <4>2
      <4>4. ~DeclaredIn(code, <<"body", ids[k][2]>>, n, p)
        BY <1>7, <2>0, <3>4, <4>3
      <4>5. ASSUME Lexical(code, n, q) = ids[k]
            PROVE  FALSE
        <5>1. q \in 1..Len(code) + 1
          BY <1>1, <3>1
        <5>2. Binds(code, ids[k][2], n, q)
          BY <1>1, <4>3, <4>5, <5>1, LexicalBinds
        <5>3. n # "this" /\ n # "super"
          BY <4>2 DEF Special
        <5>4. DeclaredIn(code, <<"body", ids[k][2]>>, n, q)
          BY <5>2, <5>3 DEF Binds
        <5>5. DeclaredIn(code, <<"body", ids[k][2]>>, n, p)
          BY <1>1, <3>1, <4>3, <5>4, DeclaredStays
        <5> QED BY <4>4, <5>5
      <4> QED BY <2>0, <4>5
    <3> QED BY <3>3, <3>4
  <2> QED BY <2>1, <2>2
<1>15. \A q : q \in 1..(p + 1) - 1 <=> q \in 1..p
  BY <1>1
<1>16. Named(d, p + 1, t, ids)
  BY <1>3, <1>6, <1>13, <1>14, <1>15 DEF Named, L
<1> QED BY <1>16 DEF d, p

\* A node that opens scopes pushes ones that hold what it declares in them.
LEMMA NamedPush ==
  ASSUME NEW c, WellFormed(c), NEW x \in NodeType, WellFormed(Append(c, x)), x.op \in Nesting,
         x.op \in Bodies => x.arg \subseteq Name, NEW t \in Seq(ScopeTypes), NEW ids,
         ids \in Seq(Kinds \X Nat), Named(Append(c, x), Len(c) + 1 + 1, t, ids)
  PROVE  Named(Append(c, x), Len(c) + 1 + 1, t \o NewScopes(x), ids \o ScopesOf(x, Len(c) + 1))
<1> DEFINE d == Append(c, x)
           p == Len(c) + 1
           new == NewScopes(x)
           more == ScopesOf(x, p)
           L == Len(ids)
           G == Grown(x)
<1>1. /\ c \in Seq(NodeType) /\ d \in Seq(NodeType) /\ Len(c) \in Nat /\ p \in Nat /\ p # 0
      /\ Len(d) = p
  BY StepIs
<1>2. new \in Seq(ScopeTypes) /\ Len(new) = G /\ G \in 0..2 /\ DOMAIN new = 1..G
  BY NewScopesAre
<1>3. /\ more \in Seq(Kinds \X Nat)
      /\ Len(more) = IF x.op = "class" /\ x.arg # {} THEN 2 ELSE 1
      /\ x.op = "class" /\ x.arg # {} => more[1] = <<"super", p>> /\ more[2] = <<"this", p>>
      /\ x.op = "class" /\ x.arg = {} => more[1] = <<"this", p>>
      /\ x.op # "class" => more[1] = <<"body", p>>
  BY <1>1, ScopesOfAre
<1>4. L \in Nat /\ Len(t) = L /\ DOMAIN ids = 1..L /\ DOMAIN t = 1..L
  BY LenProperties DEF Named
<1>5. \A k \in 1..L :
        /\ DOMAIN t[k] = {n \in Name \cup Special : DeclaredIn(d, ids[k], n, p + 1)}
        /\ \A n \in DOMAIN t[k], q \in 1..(p + 1) - 1 :
             ~t[k][n].accessed /\ n \in UsesOf(d, q) => Lexical(d, n, q) # ids[k]
  BY <1>4 DEF Named
<1>6. \A n : DeclaredIn(d, <<"body", p>>, n, p + 1) <=> x.op \in Bodies /\ n \in x.arg
  BY DeclaredNext
<1>7. \A n : \A q \in 1..(p + 1) - 1 : Lexical(d, n, q) # <<"body", p>>
  <2> SUFFICES ASSUME NEW n, NEW q \in 1..p, Lexical(d, n, q) = <<"body", p>> PROVE FALSE
    BY <1>1
  <2>1. q \in 1..Len(d) + 1
    BY <1>1
  <2>2. p \in 1..q - 1
    BY <1>1, <2>1, LexicalBinds
  <2> QED BY <1>1, <2>2
<1> HIDE DEF p
<1>8. Len(more) = G
  BY <1>3 DEF Grown
<1> HIDE DEF d, new, more, L, G
<1> DEFINE all == ids \o more
           tt == t \o new
<1>9. /\ all \in Seq(Kinds \X Nat) /\ Len(all) = L + G
      /\ \A i \in 1..L + G : all[i] = IF i <= L THEN ids[i] ELSE more[i - L]
  BY <1>3, <1>8, ConcatProperties, SMTT(30) DEF L
<1>10. /\ Len(tt) = L + G
       /\ \A i \in 1..L + G : tt[i] = IF i <= L THEN t[i] ELSE new[i - L]
  <2>1. Len(tt) = Len(t) + Len(new)
    BY <1>2, ConcatProperties
  <2>2. \A i \in 1..Len(t) + Len(new) : tt[i] = IF i <= Len(t) THEN t[i] ELSE new[i - Len(t)]
    BY <1>2, ConcatProperties
  <2> QED BY <1>2, <1>4, <2>1, <2>2
<1>11. ASSUME NEW j \in 1..G
       PROVE  /\ DOMAIN new[j] = {n \in Name \cup Special : DeclaredIn(d, more[j], n, p + 1)}
              /\ \A n \in DOMAIN new[j] : new[j][n].accessed \/ more[j] = <<"body", p>>
  <2>1. CASE x.op = "class"
    <3>0. "class" \notin Bodies
      BY DEF Bodies
    <3>1. \A n : \A s : s[1] # "body" => (DeclaredIn(d, s, n, p + 1) <=> n = s[1])
      BY DEF DeclaredIn
    <3>2. /\ Entry("this", Known) = [m \in {"this"} |-> Known]
          /\ Entry("super", Known) = [m \in {"super"} |-> Known]
      BY DEF Entry
    <3>3. Known.accessed
      BY DEF Known
    <3>4. \E kind \in Special : new[j] = [m \in {kind} |-> Known] /\ more[j] = <<kind, p>>
      <4>1. CASE x.arg = {}
        <5>1. G = 1 /\ j = 1
          BY <1>2, <2>1, <4>1 DEF G, Grown, Nesting
        <5>2. new = <<Entry("this", Known)>>
          BY <2>1, <3>0, <4>1 DEF new, NewScopes
        <5> QED BY <1>3, <2>1, <3>2, <4>1, <5>1, <5>2 DEF Special
      <4>2. CASE x.arg # {}
        <5>1. j = 1 \/ j = 2
          BY <1>2
        <5>2. new = <<Entry("super", Known), Entry("this", Known)>>
          BY <2>1, <3>0, <4>2 DEF new, NewScopes
        <5> QED BY <1>3, <2>1, <3>2, <4>2, <5>1, <5>2 DEF Special
      <4> QED BY <4>1, <4>2
    <3>5. PICK kind \in Special : new[j] = [m \in {kind} |-> Known] /\ more[j] = <<kind, p>>
      BY <3>4
    <3>6. kind # "body" /\ more[j][1] = kind
      BY <3>5 DEF Special
    <3>7. DOMAIN new[j] = {kind} /\ \A n \in {kind} : new[j][n] = Known
      BY <3>5
    <3>8. {n \in Name \cup Special : DeclaredIn(d, more[j], n, p + 1)} = {kind}
      BY <3>1, <3>6
    <3> QED BY <3>3, <3>7, <3>8
  <2>2. CASE x.op # "class"
    <3>1. G = 1 /\ j = 1 /\ more[j] = <<"body", p>>
      BY <1>3, <2>2 DEF G, Grown
    <3>2. DOMAIN new[j] = IF x.op \in Bodies THEN x.arg ELSE {}
      <4>1. CASE x.op \in Bodies
        <5>1. new = <<[n \in x.arg |-> [defined |-> TRUE, accessed |-> FALSE]]>>
          <6>1. x.op # "class" /\ x.op # "var"
            BY <2>2, <4>1 DEF Bodies
          <6> QED BY <4>1, <6>1 DEF new, NewScopes
        <5> QED BY <3>1, <4>1, <5>1
      <4>2. CASE x.op \notin Bodies
        <5>0. x.op # "var"
          BY DEF Nesting, Bodies
        <5>1. new = <<NoName>>
          BY <2>2, <4>2, <5>0 DEF new, NewScopes
        <5>2. DOMAIN NoName = {}
          BY DEF NoName
        <5> QED BY <3>1, <4>2, <5>1, <5>2
      <4> QED BY <4>1, <4>2
    <3>3. {n \in Name \cup Special : DeclaredIn(d, more[j], n, p + 1)} = IF x.op \in Bodies THEN x.arg ELSE {}
      BY <1>6, <3>1
    <3> QED BY <3>1, <3>2, <3>3
  <2> QED BY <2>1, <2>2
<1> HIDE DEF all, tt
<1>12. ASSUME NEW k \in 1..L + G
       PROVE  /\ DOMAIN tt[k] = {n \in Name \cup Special : DeclaredIn(d, all[k], n, p + 1)}
              /\ \A n \in DOMAIN tt[k], q \in 1..(p + 1) - 1 :
                   ~tt[k][n].accessed /\ n \in UsesOf(d, q) => Lexical(d, n, q) # all[k]
  <2>1. CASE k <= L
    <3>1. k \in 1..L /\ all[k] = ids[k] /\ tt[k] = t[k]
      BY <1>2, <1>4, <1>9, <1>10, <2>1
    <3> QED BY <1>5, <3>1
  <2>2. CASE ~(k <= L)
    <3>1. k - L \in 1..G /\ all[k] = more[k - L] /\ tt[k] = new[k - L]
      BY <1>2, <1>4, <1>9, <1>10, <2>2
    <3> QED BY <1>7, <1>11, <3>1
  <2> QED BY <2>1, <2>2
<1>13. DOMAIN all = 1..L + G
  BY <1>9, LenProperties
<1>14. Named(d, p + 1, tt, all)
  BY <1>9, <1>10, <1>12, <1>13 DEF Named
<1> QED BY <1>14 DEF d, p, new, more, tt, all

\* The scopes that are left when some are popped hold what they held.
LEMMA NamedPop ==
  ASSUME NEW c, NEW p \in Nat, NEW ss \in Seq(ScopeTypes), NEW ids, ids \in Seq(Kinds \X Nat),
         Named(c, p, ss, ids), NEW w \in 0..Len(ids)
  PROVE  Named(c, p, SubSeq(ss, 1, Len(ss) - w), SubSeq(ids, 1, Len(ids) - w))
<1> DEFINE L == Len(ids) - w
           tt == SubSeq(ss, 1, Len(ss) - w)
           all == SubSeq(ids, 1, Len(ids) - w)
<1>1. Len(ss) = Len(ids) /\ DOMAIN ids = 1..Len(ids) /\ Len(ids) \in Nat
  BY LenProperties DEF Named
<1>2. DOMAIN all = 1..L /\ Len(all) = L /\ \A i \in 1..L : all[i] = ids[i] /\ i \in DOMAIN ids
  <2>1. /\ Len(all) = Len(ids) - w /\ DOMAIN all = 1..Len(ids) - w
        /\ \A i \in 1..Len(ids) - w : all[i] = ids[i]
    BY Shortened
  <2> QED BY <1>1, <2>1
<1>3. Len(tt) = L /\ \A i \in 1..L : tt[i] = ss[i]
  <2>1. w \in 0..Len(ss)
    BY <1>1
  <2>2. Len(tt) = Len(ss) - w /\ \A i \in 1..Len(ss) - w : tt[i] = ss[i]
    BY <2>1, Shortened
  <2> QED BY <1>1, <2>2
<1> HIDE DEF tt, all, L
<1>4. Named(c, p, tt, all)
  BY <1>2, <1>3 DEF Named
<1> QED BY <1>4 DEF tt, all

\* A distance leads to the same scope when a node follows.
LEMMA ResolvedBefore ==
  ASSUME NEW c, WellFormed(c), NEW x \in NodeType, WellFormed(Append(c, x)), NEW q \in 1..Len(c),
         NEW n, NEW ls, NEW more, ResolvedAt(c, ls, q, n),
         q \in DOMAIN more <=> q \in DOMAIN ls, q \in DOMAIN ls => more[q] = ls[q]
  PROVE  ResolvedAt(Append(c, x), more, q, n)
<1> DEFINE d == Append(c, x)
<1>1. c \in Seq(NodeType) /\ Len(c) \in Nat /\ q \in 1..Len(c) + 1 /\ q \in Nat
  BY StepIs
<1>2. /\ Lexical(d, n, q) = Lexical(c, n, q) /\ \A s : s[2] \in 1..Len(c) => Outer(d, s) = Outer(c, s)
  BY <1>1, TextAppend
<1>3. Encl(d, q) = Encl(c, q) /\ Scope(d, q) = Scope(c, q)
  BY <1>1, EnclAppend
<1>4. \A j \in Encl(c, q) : j \in 1..Len(c)
  BY <1>1, EnclIs
<1> HIDE DEF d
<1>5. ASSUME NEW path, NEW m, Path(c, q, m, path)
      PROVE  Path(d, q, m, path)
  BY <1>2, <1>3, <1>4, <1>5 DEF Path
<1>6. ResolvedAt(d, more, q, n)
  <2>1. CASE q \in DOMAIN ls
    <3>1. PICK path : Path(c, q, ls[q], path) /\ path[ls[q]] = Lexical(c, n, q) /\ path[ls[q]] # Outside
      BY <2>1 DEF ResolvedAt
    <3>2. Path(d, q, more[q], path) /\ path[more[q]] = Lexical(d, n, q) /\ path[more[q]] # Outside
      BY <1>2, <1>5, <2>1, <3>1
    <3> QED BY <2>1, <3>2 DEF ResolvedAt
  <2>2. CASE q \notin DOMAIN ls
    BY <1>2, <2>2 DEF ResolvedAt
  <2> QED BY <2>1, <2>2
<1> QED BY <1>6 DEF d

\* The distance that _resolve_local counts leads to the scope the name means in the text.
LEMMA ResolvedHere ==
  ASSUME Base, NEW x \in NodeType, WellFormed(Append(code, x)), NEW ids, Shaped(code, Here, ids),
         Named(code, Here, scopes, ids), NEW t, Marking(x, t), NEW n \in Name \cup Special, n \in Used(x)
  PROVE  ResolvedAt(Append(code, x), locals', Here, n)
<1> DEFINE d == Append(code, x)
           p == Len(code) + 1
           L == Len(ids)
           m == Min(Holders(scopes, n))
<1>1. /\ code \in Seq(NodeType) /\ Len(code) \in Nat /\ p \in 1..Len(code) + 1 /\ p \in Nat
      /\ WellFormed(code) /\ DOMAIN code = 1..Len(code)
  BY StepIs DEF Base
<1>2. /\ Lexical(d, n, p) = Lexical(code, n, p)
      /\ \A s : s[2] \in 1..Len(code) => Outer(d, s) = Outer(code, s)
      /\ Encl(d, p) = Encl(code, p) /\ Scope(d, p) = Scope(code, p)
  BY <1>1, TextAppend, EnclAppend
<1>3. p \notin DOMAIN locals
  BY <1>1 DEF Base, ResolverTypes
<1>4. /\ L = Len(scopes) /\ L \in Nat
      /\ Holders(scopes, n) = {} => Lexical(code, n, p) = Outside
      /\ Holders(scopes, n) # {} => m \in 0..L - 1 /\ Lexical(code, n, p) = ids[L - m]
  BY Found DEF Here
<1>5. locals' = IF Holders(scopes, n) = {} THEN locals ELSE Updated(locals, p, m)
  BY DEF Marking, Here
<1>6. CASE Holders(scopes, n) = {}
  BY <1>2, <1>3, <1>4, <1>5, <1>6 DEF ResolvedAt, Here
<1>7. CASE Holders(scopes, n) # {}
  <2>1. Around1(code, p, ids)
    BY <1>1, ShapedIs DEF Here
  <2>2. /\ \A k \in 1..L : /\ ids[k][2] \in Encl(code, p) /\ ids[k][2] \in 1..Len(code) /\ ids[k] # Outside
                           /\ Outer(code, ids[k]) = IF k = 1 THEN Outside ELSE ids[k - 1]
        /\ Scope(code, p) = IF L = 0 THEN Outside ELSE ids[L]
    BY <2>1 DEF Around1
  <2>3. p \in DOMAIN locals' /\ locals'[p] = m
    BY <1>5, <1>7 DEF Updated
  <2>4. m \in 0..L - 1 /\ Lexical(code, n, p) = ids[L - m]
    BY <1>4, <1>7
  <2> DEFINE path == [j \in 0..m |-> ids[L - j]]
  <2> HIDE DEF d, p, L, m
  <2>5. \A j \in 0..m : path[j] = ids[L - j] /\ L - j \in 1..L
    BY <1>4, <2>4
  <2>6. path[0] = Scope(d, p)
    <3>1. 0 \in 0..m /\ L - 0 = L /\ L # 0
      BY <1>4, <2>4
    <3> QED BY <1>2, <2>2, <2>5, <3>1
  <2>7. path[m] = Lexical(d, n, p) /\ path[m] # Outside
    <3>1. m \in 0..m
      BY <1>4, <2>4
    <3> QED BY <1>2, <2>2, <2>4, <2>5, <3>1
  <2> HIDE DEF path
  <2>8. ASSUME NEW k \in 1..m
        PROVE  path[k - 1] # Outside /\ path[k - 1][2] \in Encl(d, p) /\ path[k] = Outer(d, path[k - 1])
    <3>1. k - 1 \in 0..m /\ k \in 0..m /\ L - (k - 1) \in 1..L /\ L - (k - 1) # 1 /\ (L - (k - 1)) - 1 = L - k
      BY <1>4, <2>4
    <3>2. path[k - 1] = ids[L - (k - 1)] /\ path[k] = ids[L - k]
      BY <2>5, <3>1
    <3>3. Outer(code, ids[L - (k - 1)]) = ids[L - k]
      BY <2>2, <3>1
    <3> QED BY <1>2, <2>2, <3>1, <3>2, <3>3
  <2>9. Path(d, p, m, path)
    BY <2>6, <2>8 DEF Path
  <2>10. ResolvedAt(d, locals', p, n)
    BY <2>3, <2>7, <2>9 DEF ResolvedAt
  <2> QED BY <2>10 DEF d, p, Here
<1> QED BY <1>6, <1>7

ClassKinds == {"NONE", "CLASS", "SUBCLASS"}

\* class_scopes follows the classes around the next node.
LEMMA ClassedNext ==
  ASSUME NEW c, WellFormed(c), NEW x \in NodeType, WellFormed(Append(c, x)),
         NEW cs \in Seq(ClassKinds), NEW classes, Classed(c, Len(c) + 1, cs, classes)
  PROVE  LET d == Append(c, x)
             p == Len(c) + 1
         IN
         /\ x.op \notin {"class", "end"} \/ (x.op = "end" /\ c[x.at].op # "class") =>
              \E more : Classed(d, p + 1, cs, more)
         /\ x.op = "class" =>
              \E more : Classed(d, p + 1, Append(cs, IF x.arg = {} THEN "CLASS" ELSE "SUBCLASS"), more)
         /\ x.op = "end" /\ c[x.at].op = "class" => \E more : Classed(d, p + 1, Front(cs), more)
<1> DEFINE d == Append(c, x)
           p == Len(c) + 1
           n == Len(classes)
<1>1. /\ c \in Seq(NodeType) /\ Len(c) \in Nat /\ p \in 1..Len(c) + 1
      /\ \A i \in 1..Len(c) : d[i] = c[i]
      /\ d[p] = x /\ p \notin Encl(c, p)
      /\ x.op \notin Nesting \cup {"end"} => Encl(d, p + 1) = Encl(c, p)
      /\ x.op \in Nesting => Encl(d, p + 1) = Encl(c, p) \cup {p}
      /\ x.op = "end" => /\ Encl(c, p) # {} /\ x.at = Inmost(c, p) /\ x.at \in 1..Len(c)
                         /\ Encl(c, p) = Encl(c, x.at) \cup {x.at} /\ x.at \notin Encl(c, x.at)
                         /\ Encl(d, p + 1) = Encl(c, x.at)
  BY StepIs
<1>2. /\ \A j \in Encl(c, p) : j \in 1..Len(c) /\ j < p /\ j \in Nat
      /\ Encl(c, p) # {} => \A j \in Encl(c, p) : j <= Inmost(c, p)
  BY <1>1, EnclIs
<1>3. /\ classes \in Seq(Nat) /\ Len(cs) = 1 + n
      /\ \A k \in DOMAIN classes : (cs[k + 1] = "SUBCLASS" <=> c[classes[k]].arg # {})
      /\ \A k, l \in DOMAIN classes : k < l => classes[k] < classes[l]
      /\ {classes[k] : k \in DOMAIN classes} = {j \in Encl(c, p) : c[j].op = "class"}
  BY DEF Classed
<1>n. n \in Nat /\ DOMAIN classes = 1..n
  BY <1>3, LenProperties
<1>s. classes \in Seq(Nat) /\ Len(cs) = n + 1 /\ n = Len(classes)
  BY <1>3, <1>n
<1> HIDE DEF d, n, p
<1>k. \A k \in 1..n : (cs[k + 1] = "SUBCLASS" <=> c[classes[k]].arg # {})
  BY <1>3, <1>n
<1>l. \A k, l \in 1..n : k < l => classes[k] < classes[l]
  BY <1>3, <1>n
<1>e. \A k \in 1..n : classes[k] \in Encl(c, p) /\ c[classes[k]].op = "class"
  <2> SUFFICES ASSUME NEW k \in 1..n PROVE classes[k] \in {j \in Encl(c, p) : c[j].op = "class"}
    OBVIOUS
  <2> QED BY <1>3, <1>n
<1>a. \A j \in Encl(c, p) : c[j].op = "class" => \E k \in 1..n : classes[k] = j
  <2> SUFFICES ASSUME NEW j \in Encl(c, p), c[j].op = "class" PROVE \E k \in 1..n : classes[k] = j
    OBVIOUS
  <2>1. j \in {classes[k] : k \in DOMAIN classes}
    BY <1>3
  <2> QED BY <1>n, <2>1
<1>d. \A k \in 1..n : d[classes[k]] = c[classes[k]]
  BY <1>1, <1>2, <1>e
<1>4. ASSUME x.op \notin {"class", "end"} \/ (x.op = "end" /\ c[x.at].op # "class")
      PROVE  Classed(d, p + 1, cs, classes)
  <2>1. {j \in Encl(d, p + 1) : d[j].op = "class"} = {j \in Encl(c, p) : c[j].op = "class"}
    <3>1. CASE x.op \notin Nesting \cup {"end"}
      BY <1>1, <1>2, <3>1
    <3>2. CASE x.op \in Nesting
      <4>1. d[p].op # "class"
        BY <1>1, <1>4, <3>2 DEF Nesting, Bodies
      <4> QED BY <1>1, <1>2, <3>2, <4>1
    <3>3. CASE x.op = "end"
      BY <1>1, <1>2, <1>4, <3>3
    <3> QED BY <3>1, <3>2, <3>3
  <2>2. \A k \in 1..n : d[classes[k]] = c[classes[k]]
    BY <1>d
  <2>3. {classes[k] : k \in 1..n} = {j \in Encl(c, p) : c[j].op = "class"}
    BY <1>e, <1>a
  <2> QED BY <1>k, <1>l, <1>n, <1>s, <2>1, <2>2, <2>3 DEF Classed
<1>5. ASSUME x.op = "class"
      PROVE  Classed(d, p + 1, Append(cs, IF x.arg = {} THEN "CLASS" ELSE "SUBCLASS"), Append(classes, p))
  <2> DEFINE kind == IF x.arg = {} THEN "CLASS" ELSE "SUBCLASS"
             cs2 == Append(cs, kind)
             more == Append(classes, p)
  <2>1. /\ more \in Seq(Nat) /\ Len(more) = n + 1 /\ DOMAIN more = 1..n + 1
        /\ \A i \in 1..n : more[i] = classes[i]
        /\ more[n + 1] = p
    <3>1. p \in Nat
      BY <1>1
    <3> QED BY <1>n, <1>s, <3>1, Appended
  <2>2. Len(cs2) = n + 2 /\ (\A i \in 1..n + 1 : cs2[i] = cs[i]) /\ cs2[n + 2] = kind
    <3>1. kind \in ClassKinds
      BY DEF ClassKinds
    <3>2. /\ Len(cs2) = Len(cs) + 1 /\ (\A i \in 1..Len(cs) : cs2[i] = cs[i]) /\ cs2[Len(cs) + 1] = kind
      BY <3>1, Appended
    <3>3. Len(cs) + 1 = n + 2
      BY <1>n, <1>s
    <3> QED BY <1>n, <1>s, <3>2, <3>3
  <2>3. kind = "SUBCLASS" <=> d[p].arg # {}
    BY <1>1
  <2> HIDE DEF more, cs2, kind
  <2>4. \A k \in 1..n : d[classes[k]] = c[classes[k]]
    BY <1>d
  <2>5. Encl(d, p + 1) = Encl(c, p) \cup {p} /\ d[p].op = "class"
    BY <1>1, <1>5 DEF Nesting
  <2>6. \A k \in 1..n + 1 : k \in 1..n \/ k = n + 1
    BY <1>n
  <2>7. {more[k] : k \in 1..n + 1} = {j \in Encl(d, p + 1) : d[j].op = "class"}
    <3>1. \A k \in 1..n + 1 : more[k] \in {j \in Encl(d, p + 1) : d[j].op = "class"}
      BY <1>e, <2>1, <2>4, <2>5, <2>6
    <3>2. ASSUME NEW j \in Encl(d, p + 1), d[j].op = "class"
          PROVE  \E k \in 1..n + 1 : more[k] = j
      <4>1. CASE j = p
        <5>1. n + 1 \in 1..n + 1
          BY <1>n
        <5> QED BY <2>1, <4>1, <5>1
      <4>2. CASE j # p
        <5>1. j \in Encl(c, p) /\ c[j].op = "class"
          BY <1>1, <1>2, <2>5, <3>2, <4>2
        <5>2. PICK k \in 1..n : classes[k] = j
          BY <1>a, <5>1
        <5>3. k \in 1..n + 1
          BY <1>n
        <5> QED BY <2>1, <5>2, <5>3
      <4> QED BY <4>1, <4>2
    <3> QED BY <3>1, <3>2
  <2>8. \A k \in 1..n + 1 : cs2[k + 1] = "SUBCLASS" <=> d[more[k]].arg # {}
    <3>1. ASSUME NEW k \in 1..n PROVE cs2[k + 1] = "SUBCLASS" <=> d[more[k]].arg # {}
      <4>1. k + 1 \in 1..n + 1
        BY <1>n
      <4> QED BY <1>k, <2>1, <2>2, <2>4, <4>1, SMTT(30)
    <3>2. cs2[(n + 1) + 1] = "SUBCLASS" <=> d[more[n + 1]].arg # {}
      <4>1. (n + 1) + 1 = n + 2
        BY <1>n
      <4> QED BY <2>1, <2>2, <2>3, <4>1
    <3> QED BY <2>6, <3>1, <3>2
  <2>9. \A k, l \in 1..n + 1 : k < l => more[k] < more[l]
    <3> SUFFICES ASSUME NEW k \in 1..n + 1, NEW l \in 1..n + 1, k < l PROVE more[k] < more[l]
      OBVIOUS
    <3>1. k \in 1..n
      BY <1>n
    <3>2. CASE l \in 1..n
      BY <1>l, <2>1, <3>1, <3>2
    <3>3. CASE l = n + 1
      <4>1. classes[k] \in Encl(c, p)
        BY <1>e, <3>1
      <4>2. classes[k] < p
        BY <1>2, <4>1
      <4> QED BY <2>1, <3>1, <3>3, <4>2
    <3> QED BY <2>6, <3>2, <3>3
  <2>10. Len(cs2) = 1 + Len(more)
    BY <1>n, <2>1, <2>2
  <2>11. Classed(d, p + 1, cs2, more)
    BY <2>1, <2>7, <2>8, <2>9, <2>10 DEF Classed
  <2> QED BY <2>11 DEF cs2, more, kind
<1>6. ASSUME x.op = "end", c[x.at].op = "class"
      PROVE  Classed(d, p + 1, Front(cs), Front(classes))
  <2> DEFINE cs2 == Front(cs)
             more == Front(classes)
  <2>1. x.at \in Encl(c, p) /\ \A j \in Encl(c, p) : j <= x.at
    BY <1>1, <1>2, <1>6
  <2>2. PICK k0 \in 1..n : classes[k0] = x.at
    BY <1>a, <1>6, <2>1
  <2>3. n \in 1..n /\ n # 0
    BY <1>n, <2>2
  <2>4. classes[n] = x.at
    <3>1. k0 < n => x.at < classes[n]
      BY <1>l, <2>2, <2>3
    <3>2. classes[n] <= x.at /\ classes[n] \in Nat /\ x.at \in Nat
      BY <1>2, <1>e, <2>1, <2>3
    <3>3. ~(k0 < n)
      BY <3>1, <3>2
    <3>4. k0 = n
      BY <1>n, <3>3
    <3> QED BY <2>2, <3>4
  <2>5. more \in Seq(Nat) /\ Len(more) = n - 1 /\ DOMAIN more = 1..n - 1 /\ \A i \in 1..n - 1 : more[i] = classes[i]
    <3>1. classes # <<>>
      BY <1>n, <1>s, <2>3
    <3> QED BY <1>s, <3>1, FrontIs
  <2>6. Len(cs2) = n /\ \A i \in 1..n : cs2[i] = cs[i]
    <3>1. cs # <<>>
      BY <1>n, <1>s
    <3>2. Len(cs2) = Len(cs) - 1 /\ \A i \in 1..Len(cs) - 1 : cs2[i] = cs[i]
      BY <3>1, FrontIs
    <3>3. Len(cs) - 1 = n
      BY <1>n, <1>s
    <3> QED BY <3>2, <3>3
  <2> HIDE DEF more, cs2
  <2>7. Encl(d, p + 1) = Encl(c, x.at) /\ Encl(c, p) = Encl(c, x.at) \cup {x.at} /\ x.at \notin Encl(c, x.at)
    BY <1>1, <1>6
  <2>8. \A k \in 1..n - 1 : k \in 1..n /\ k < n /\ k + 1 \in 1..n
    BY <1>n
  <2>9. \A k \in 1..n - 1 : classes[k] < x.at /\ classes[k] # x.at
    <3> SUFFICES ASSUME NEW k \in 1..n - 1 PROVE classes[k] < x.at /\ classes[k] # x.at
      OBVIOUS
    <3>1. classes[k] < classes[n] /\ classes[k] \in Nat /\ x.at \in Nat
      BY <1>1, <1>2, <1>e, <1>l, <2>1, <2>3, <2>8, <1>6
    <3> QED BY <2>4, <3>1
  <2>10. \A k \in 1..n : d[classes[k]] = c[classes[k]]
    BY <1>d
  <2>11. {more[k] : k \in 1..n - 1} = {j \in Encl(d, p + 1) : d[j].op = "class"}
    <3>1. ASSUME NEW k \in 1..n - 1
          PROVE  more[k] \in Encl(d, p + 1) /\ d[more[k]].op = "class"
      BY <1>e, <2>5, <2>7, <2>8, <2>9, <2>10
    <3>2. ASSUME NEW j \in Encl(d, p + 1), d[j].op = "class"
          PROVE  \E k \in 1..n - 1 : more[k] = j
      <4>1. j \in Encl(c, p) /\ j # x.at /\ c[j].op = "class"
        BY <1>1, <1>2, <2>7, <3>2
      <4>2. PICK k \in 1..n : classes[k] = j
        BY <1>a, <4>1
      <4>3. k \in 1..n - 1
        BY <1>n, <2>4, <4>1, <4>2
      <4> QED BY <2>5, <4>2, <4>3
    <3> QED BY <3>1, <3>2
  <2>12. \A k \in 1..n - 1 : cs2[k + 1] = "SUBCLASS" <=> d[more[k]].arg # {}
    <3> SUFFICES ASSUME NEW k \in 1..n - 1 PROVE cs2[k + 1] = "SUBCLASS" <=> d[more[k]].arg # {}
      OBVIOUS
    <3>1. more[k] = classes[k] /\ cs2[k + 1] = cs[k + 1] /\ d[classes[k]] = c[classes[k]]
      BY <2>5, <2>6, <2>8, <2>10
    <3>2. cs[k + 1] = "SUBCLASS" <=> c[classes[k]].arg # {}
      BY <1>k, <2>8
    <3> QED BY <3>1, <3>2
  <2>13. \A k, l \in 1..n - 1 : k < l => more[k] < more[l]
    BY <1>l, <2>5, <2>8
  <2>14. Len(cs2) = 1 + Len(more)
    BY <1>3, <2>5, <2>6
  <2>15. Classed(d, p + 1, cs2, more)
    BY <2>5, <2>11, <2>12, <2>13, <2>14 DEF Classed
  <2> QED BY <2>15 DEF cs2, more
<1> QED BY <1>4, <1>5, <1>6 DEF d, p

\* The facts of Returning, apart.
LEMMA ReturningIs ==
  ASSUME NEW c, NEW p, NEW rets, Returning(c, p, rets)
  PROVE  /\ rets \in Seq((0..2) \X Nat) /\ Len(rets) \in Nat /\ Len(rets) # 0 /\ DOMAIN rets = 1..Len(rets)
         /\ rets[Len(rets)] = TopReturn(c, p) /\ rets[1] = <<0, 0>>
         /\ \A k \in 1..Len(rets) : rets[k] = <<rets[k][1], rets[k][2]>> /\ rets[k][1] \in 0..2
         /\ \A k \in 2..Len(rets) : rets[k][2] \in Encl(c, p) /\ rets[k][1] \in 1..Width(c, rets[k][2])
         /\ \A k \in 2..Len(rets) :
              rets[k - 1] = IF rets[k][1] = 2 THEN <<1, rets[k][2]>> ELSE TopReturn(c, rets[k][2])
         /\ \A k, l \in 1..Len(rets) : k < l => rets[k] # rets[l]
<1>1. rets \in Seq((0..2) \X Nat) /\ rets # <<>>
  BY DEF Returning
<1>2. Len(rets) \in Nat /\ Len(rets) # 0 /\ DOMAIN rets = 1..Len(rets)
  BY <1>1, LenProperties, EmptySeq
<1>3. \A k \in 1..Len(rets) : rets[k] = <<rets[k][1], rets[k][2]>> /\ rets[k][1] \in 0..2
  <2> SUFFICES ASSUME NEW k \in 1..Len(rets)
               PROVE  rets[k] = <<rets[k][1], rets[k][2]>> /\ rets[k][1] \in 0..2
    OBVIOUS
  <2>1. rets[k] \in (0..2) \X Nat
    BY <1>1, <1>2, ElementOfSeq
  <2> QED BY <2>1
<1>4. rets[Len(rets)] = TopReturn(c, p) /\ rets[1] = <<0, 0>>
  BY DEF Returning
<1>5. \A k \in 2..Len(rets) : rets[k][2] \in Encl(c, p) /\ rets[k][1] \in 1..Width(c, rets[k][2])
  BY DEF Returning
<1>6. \A k \in 2..Len(rets) :
        rets[k - 1] = IF rets[k][1] = 2 THEN <<1, rets[k][2]>> ELSE TopReturn(c, rets[k][2])
  BY DEF Returning
<1>7. \A k, l \in 1..Len(rets) : k < l => rets[k] # rets[l]
  BY <1>2 DEF Returning
<1> QED BY <1>1, <1>2, <1>3, <1>4, <1>5, <1>6, <1>7

\* The first m return scopes are those around the next place if the m-th is its own.
LEMMA ReturningKept ==
  ASSUME NEW c, WellFormed(c), NEW x \in NodeType, WellFormed(Append(c, x)),
         NEW rets, Returning(c, Len(c) + 1, rets), NEW m \in 1..Len(rets),
         \A k \in 2..m : rets[k][2] \in Encl(Append(c, x), Len(c) + 1 + 1),
         rets[m] = TopReturn(Append(c, x), Len(c) + 1 + 1)
  PROVE  Returning(Append(c, x), Len(c) + 1 + 1, SubSeq(rets, 1, m))
<1> DEFINE d == Append(c, x)
           p == Len(c) + 1
           n == Len(rets)
           more == SubSeq(rets, 1, m)
<1>1. /\ c \in Seq(NodeType) /\ Len(c) \in Nat /\ p \in 1..Len(c) + 1
      /\ \A i \in 1..Len(c) : d[i] = c[i]
  BY StepIs
<1>2. \A j \in Encl(c, p) : j \in 1..Len(c) /\ j \in 1..Len(c) + 1
  BY <1>1, EnclIs
<1>3. \A j \in 1..Len(c) + 1 : TopReturn(d, j) = TopReturn(c, j)
  BY <1>1, TextAppend
<1>4. \A j \in 1..Len(c) : Width(d, j) = Width(c, j)
  BY <1>1 DEF Width
<1>5. rets \in Seq((0..2) \X Nat) /\ n \in Nat /\ rets[1] = <<0, 0>>
  BY ReturningIs
<1>6. \A k \in 2..n : rets[k][2] \in Encl(c, p) /\ rets[k][1] \in 1..Width(c, rets[k][2])
  BY ReturningIs
<1>7. \A k \in 2..n : rets[k - 1] = IF rets[k][1] = 2 THEN <<1, rets[k][2]>> ELSE TopReturn(c, rets[k][2])
  BY ReturningIs
<1>8. \A k, l \in 1..n : k < l => rets[k] # rets[l]
  BY ReturningIs
<1> HIDE DEF d, p, n
<1>9. /\ more \in Seq((0..2) \X Nat) /\ Len(more) = m /\ DOMAIN more = 1..m
      /\ \A i \in 1..m : more[i] = rets[i]
  <2> DEFINE k == n - m
  <2>1. k \in 0..n /\ n - k = m
    BY <1>5 DEF n
  <2> HIDE DEF k
  <2>2. LET t == SubSeq(rets, 1, n - k)
        IN t \in Seq((0..2) \X Nat) /\ Len(t) = n - k /\ DOMAIN t = 1..n - k /\ \A i \in 1..n - k : t[i] = rets[i]
    BY <1>5, <2>1, Shortened DEF n
  <2> QED BY <2>1, <2>2
<1>10. m \in 1..n /\ m # 0
  BY <1>5 DEF n
<1>11. more # <<>>
  BY <1>9, <1>10, EmptySeq
<1>12. more[m] = TopReturn(d, p + 1) /\ more[1] = <<0, 0>>
  <2>1. 1 \in 1..m /\ m \in 1..m
    BY <1>5, <1>10
  <2> QED BY <1>5, <1>9, <2>1 DEF d, p
<1> HIDE DEF more
<1>13. ASSUME NEW k \in 2..m
       PROVE  /\ more[k][2] \in Encl(d, p + 1) /\ more[k][1] \in 1..Width(d, more[k][2])
              /\ more[k - 1] = IF more[k][1] = 2 THEN <<1, more[k][2]>> ELSE TopReturn(d, more[k][2])
  <2>1. k \in 1..m /\ k - 1 \in 1..m /\ k \in 2..n
    BY <1>5, <1>10, SMTT(30)
  <2>2. more[k] = rets[k] /\ more[k - 1] = rets[k - 1]
    BY <1>9, <2>1
  <2>3. rets[k][2] \in Encl(d, p + 1)
    BY DEF d, p
  <2>4. rets[k][2] \in 1..Len(c) /\ rets[k][2] \in 1..Len(c) + 1
    BY <1>2, <1>6, <2>1
  <2>5. Width(d, rets[k][2]) = Width(c, rets[k][2]) /\ TopReturn(d, rets[k][2]) = TopReturn(c, rets[k][2])
    BY <1>3, <1>4, <2>4
  <2>6. rets[k][1] \in 1..Width(d, more[k][2])
    BY <1>6, <2>1, <2>2, <2>5
  <2>7. rets[k - 1] = IF rets[k][1] = 2 THEN <<1, rets[k][2]>> ELSE TopReturn(c, rets[k][2])
    BY <1>7, <2>1
  <2> QED BY <2>2, <2>3, <2>5, <2>6, <2>7
<1>14. \A k, l \in 1..m : k < l => more[k] # more[l]
  <2>1. \A k \in 1..m : k \in 1..n
    BY <1>5, <1>10
  <2> QED BY <1>8, <1>9, <2>1
<1>15. Returning(d, p + 1, more)
  BY <1>9, <1>11, <1>12, <1>13, <1>14 DEF Returning
<1> QED BY <1>15 DEF d, p, more

\* A node that holds no other leaves the return scopes where they were.
LEMMA ReturningPlain ==
  ASSUME NEW c, WellFormed(c), NEW x \in NodeType, WellFormed(Append(c, x)),
         NEW rets, Returning(c, Len(c) + 1, rets), x.op \notin Nesting \cup {"end"}
  PROVE  Returning(Append(c, x), Len(c) + 1 + 1, rets)
<1> DEFINE d == Append(c, x)
           p == Len(c) + 1
           n == Len(rets)
<1>1. /\ c \in Seq(NodeType) /\ Len(c) \in Nat /\ p \in 1..Len(c) + 1
      /\ \A i \in 1..Len(c) : d[i] = c[i]
      /\ Encl(d, p + 1) = Encl(c, p)
  BY StepIs
<1>2. Encl(c, p) # {} => Inmost(c, p) \in 1..Len(c)
  BY <1>1, EnclIs
<1>3. /\ rets \in Seq((0..2) \X Nat) /\ n \in Nat /\ n # 0 /\ rets[n] = TopReturn(c, p)
      /\ \A k \in 2..n : rets[k][2] \in Encl(c, p)
  BY ReturningIs
<1>4. TopReturn(d, p + 1) = TopReturn(c, p)
  <2>1. Inmost(d, p + 1) = Inmost(c, p)
    BY <1>1 DEF Inmost
  <2>2. Encl(c, p) # {} => Width(d, Inmost(c, p)) = Width(c, Inmost(c, p))
    BY <1>1, <1>2 DEF Width
  <2> HIDE DEF d, p
  <2> QED BY <1>1, <2>1, <2>2 DEF TopReturn
<1>5. SubSeq(rets, 1, n) = rets
  BY <1>3, SubSeqFull
<1>6. n \in 1..n
  BY <1>3
<1>7. Returning(d, p + 1, SubSeq(rets, 1, n))
  BY <1>1, <1>3, <1>4, <1>6, ReturningKept
<1> QED BY <1>5, <1>7

\* Leaving the innermost node leaves the return scopes around it.
LEMMA ReturningClose ==
  ASSUME NEW c, WellFormed(c), NEW x \in NodeType, WellFormed(Append(c, x)),
         NEW rets, Returning(c, Len(c) + 1, rets), x.op = "end", NEW w, w = Width(c, x.at)
  PROVE  /\ w \in 1..Len(rets) - 1 /\ Len(rets) \in Nat
         /\ Returning(Append(c, x), Len(c) + 1 + 1, SubSeq(rets, 1, Len(rets) - w))
         /\ \A k \in 1..Len(rets) - w : rets[k][2] # x.at
<1> DEFINE d == Append(c, x)
           p == Len(c) + 1
           n == Len(rets)
           j == x.at
<1>1. /\ c \in Seq(NodeType) /\ Len(c) \in Nat /\ p \in 1..Len(c) + 1
      /\ \A i \in 1..Len(c) : d[i] = c[i]
      /\ Encl(c, p) # {} /\ j = Inmost(c, p) /\ j \in 1..Len(c)
      /\ Encl(c, p) = Encl(c, j) \cup {j} /\ j \notin Encl(c, j)
      /\ Encl(d, p + 1) = Encl(c, j)
  BY StepIs
<1>2. \A i \in Encl(c, j) : i \in 1..Len(c)
  <2>1. j \in 1..Len(c) + 1
    BY <1>1
  <2> QED BY <1>1, <2>1, EnclIs
<1>3. /\ rets \in Seq((0..2) \X Nat) /\ n \in Nat /\ n # 0 /\ rets[n] = TopReturn(c, p) /\ rets[1] = <<0, 0>>
  BY ReturningIs
<1>4. \A k \in 1..n : rets[k] = <<rets[k][1], rets[k][2]>> /\ rets[k][1] \in 0..2
  BY ReturningIs
<1>5. \A k \in 2..n : rets[k][2] \in Encl(c, p) /\ rets[k][1] \in 1..Width(c, rets[k][2])
  BY ReturningIs
<1>6. \A k \in 2..n : rets[k - 1] = IF rets[k][1] = 2 THEN <<1, rets[k][2]>> ELSE TopReturn(c, rets[k][2])
  BY ReturningIs
<1>7. \A k, l \in 1..n : k < l => rets[k] # rets[l]
  BY ReturningIs
<1>8. w \in {1, 2}
  BY DEF Width
<1>9. rets[n] = <<w, j>>
  BY <1>1, <1>3 DEF TopReturn
<1>10. TopReturn(d, p + 1) = TopReturn(c, j)
  <2>1. Inmost(d, p + 1) = Inmost(c, j)
    BY <1>1 DEF Inmost
  <2>2. Encl(c, j) # {} => Width(d, Inmost(c, j)) = Width(c, Inmost(c, j))
    <3>1. Encl(c, j) # {} => Inmost(c, j) \in Encl(c, j)
      <4>1. j \in 1..Len(c) + 1
        BY <1>1
      <4> QED BY <1>1, <4>1, EnclIs
    <3> QED BY <1>1, <1>2, <3>1 DEF Width
  <2> HIDE DEF d, p, j
  <2> QED BY <1>1, <2>1, <2>2 DEF TopReturn
<1> HIDE DEF d, p, n, j
<1>11. n \in 2..n /\ n # 1
  <2>1. n # 1
    <3>1. j # 0
      BY <1>1
    <3> QED BY <1>3, <1>8, <1>9, <3>1
  <2> QED BY <1>3, <2>1
<1>12. w = 2 => n # 2 /\ n - 1 \in 2..n /\ rets[n - 1] = <<1, j>>
  <2> SUFFICES ASSUME w = 2 PROVE n # 2 /\ n - 1 \in 2..n /\ rets[n - 1] = <<1, j>>
    OBVIOUS
  <2>1. rets[n][1] = 2 /\ rets[n][2] = j
    BY <1>9
  <2>2. rets[n - 1] = <<1, j>>
    BY <1>6, <1>11, <2>1
  <2>3. n # 2
    <3>1. CASE n = 2
      <4>1. n - 1 = 1
        BY <3>1
      <4>2. <<0, 0>> = <<1, j>>
        BY <1>3, <2>2, <4>1
      <4> QED BY <4>2
    <3> QED BY <3>1
  <2> QED BY <1>3, <1>11, <2>2, <2>3
<1>13. w \in 1..n - 1 /\ n - w \in 1..n
  BY <1>3, <1>8, <1>11, <1>12
<1>14. rets[n - w] = TopReturn(c, j)
  <2>1. CASE w = 1
    <3>1. rets[n][1] # 2 /\ rets[n][2] = j
      BY <1>9, <2>1
    <3> QED BY <1>6, <1>11, <2>1, <3>1
  <2>2. CASE w = 2
    <3>1. rets[n - 1][1] # 2 /\ rets[n - 1][2] = j
      BY <1>12, <2>2
    <3>2. rets[(n - 1) - 1] = TopReturn(c, j)
      BY <1>6, <1>12, <2>2, <3>1
    <3>3. (n - 1) - 1 = n - w
      BY <1>3, <2>2
    <3> QED BY <3>2, <3>3
  <2> QED BY <1>8, <2>1, <2>2
<1>15. ASSUME NEW k \in 1..n - w
       PROVE  rets[k][2] # j
  <2>1. CASE k = 1
    <3>1. rets[1][2] = 0
      BY <1>3
    <3>2. j # 0
      BY <1>1
    <3> QED BY <2>1, <3>1, <3>2
  <2>2. CASE k # 1
    <3>1. k \in 2..n /\ k \in 1..n /\ k < n /\ n \in 1..n /\ (w = 2 => k < n - 1 /\ n - 1 \in 1..n)
      BY <1>3, <1>8, <1>13, <2>2
    <3>2. rets[k] # <<w, j>>
      BY <1>7, <1>9, <3>1
    <3>3. w = 2 => rets[k] # <<1, j>>
      BY <1>7, <1>12, <3>1
    <3>4. SUFFICES ASSUME rets[k][2] = j PROVE FALSE
      OBVIOUS
    <3>5. rets[k][1] \in 1..w
      BY <1>5, <3>1, <3>4 DEF j
    <3>6. rets[k] = <<rets[k][1], j>>
      BY <1>4, <3>1, <3>4
    <3>7. rets[k][1] = w \/ (w = 2 /\ rets[k][1] = 1)
      BY <1>8, <3>5
    <3> QED BY <3>2, <3>3, <3>6, <3>7
  <2> QED BY <2>1, <2>2
<1>16. \A k \in 2..n - w : rets[k][2] \in Encl(d, p + 1)
  <2> SUFFICES ASSUME NEW k \in 2..n - w PROVE rets[k][2] \in Encl(d, p + 1)
    OBVIOUS
  <2>1. k \in 1..n - w /\ k \in 2..n
    BY <1>3, <1>13
  <2> QED BY <1>1, <1>5, <1>15, <2>1
<1>17. Returning(d, p + 1, SubSeq(rets, 1, n - w))
  BY <1>10, <1>13, <1>14, <1>16, ReturningKept DEF d, p, n
<1> QED BY <1>3, <1>13, <1>15, <1>17 DEF d, p, n, j

WidthOf(x) == IF x.op \in {"if", "while"} \/ (x.op = "class" /\ x.arg # {}) THEN 2 ELSE 1
ReturnsOf(x, p) == IF WidthOf(x) = 2 THEN << <<1, p>>, <<2, p>> >> ELSE << <<1, p>> >>

\* A node that opens scopes has return scopes of its own.
LEMMA ReturningOpen ==
  ASSUME NEW c, WellFormed(c), NEW x \in NodeType, WellFormed(Append(c, x)),
         NEW rets, Returning(c, Len(c) + 1, rets), x.op \in Nesting
  PROVE  LET more == rets \o ReturnsOf(x, Len(c) + 1) IN
         /\ Returning(Append(c, x), Len(c) + 1 + 1, more)
         /\ Len(more) = Len(rets) + WidthOf(x) /\ \A k \in 1..Len(rets) : more[k] = rets[k]
<1> DEFINE d == Append(c, x)
           p == Len(c) + 1
           n == Len(rets)
           w == WidthOf(x)
           new == ReturnsOf(x, p)
           more == rets \o new
<1>1. /\ c \in Seq(NodeType) /\ d \in Seq(NodeType) /\ Len(c) \in Nat /\ p \in 1..Len(c) + 1 /\ p \in Nat
      /\ Len(d) = p /\ p + 1 \in 1..Len(d) + 1
      /\ \A i \in 1..Len(c) : d[i] = c[i]
      /\ d[p] = x
      /\ Encl(d, p + 1) = Encl(c, p) \cup {p}
  BY StepIs
<1>2. \A j \in Encl(c, p) : j \in 1..Len(c) /\ j \in 1..Len(c) + 1 /\ j # p
  BY <1>1, EnclIs
<1>3. \A j \in 1..Len(c) + 1 : TopReturn(d, j) = TopReturn(c, j)
  BY <1>1, TextAppend
<1>4. (\A j \in 1..Len(c) : Width(d, j) = Width(c, j)) /\ Width(d, p) = w
  BY <1>1 DEF Width, WidthOf
<1>5. Inmost(d, p + 1) = p
  <2>1. /\ Inmost(d, p + 1) \in Encl(d, p + 1) /\ \A j \in Encl(d, p + 1) : j <= Inmost(d, p + 1)
    BY <1>1, EnclIs
  <2>2. p <= Inmost(d, p + 1) /\ (Inmost(d, p + 1) = p \/ Inmost(d, p + 1) \in 1..Len(c))
    BY <1>1, <1>2, <2>1
  <2> QED BY <1>1, <2>2
<1>6. w \in {1, 2}
  BY DEF WidthOf
<1>7. TopReturn(d, p + 1) = <<w, p>>
  <2>1. Encl(d, p + 1) # {}
    BY <1>1
  <2> HIDE DEF d, p, w
  <2> QED BY <1>4, <1>5, <2>1 DEF TopReturn
<1>8. rets \in Seq((0..2) \X Nat) /\ n \in Nat /\ n # 0 /\ rets[n] = TopReturn(c, p) /\ rets[1] = <<0, 0>>
  BY ReturningIs
<1>9. \A k \in 2..n : rets[k][2] \in Encl(c, p) /\ rets[k][1] \in 1..Width(c, rets[k][2])
  BY ReturningIs
<1>10. \A k \in 2..n : rets[k - 1] = IF rets[k][1] = 2 THEN <<1, rets[k][2]>> ELSE TopReturn(c, rets[k][2])
  BY ReturningIs
<1>11. \A k, l \in 1..n : k < l => rets[k] # rets[l]
  BY ReturningIs
<1> HIDE DEF d, n, w
<1>12. /\ new \in Seq((0..2) \X Nat) /\ Len(new) = w
       /\ \A i \in 1..w : new[i] = <<i, p>>
  <2>1. CASE w = 1
    <3>1. new = << <<1, p>> >>
      BY <2>1 DEF ReturnsOf, w
    <3>2. <<1, p>> \in (0..2) \X Nat
      BY <1>1
    <3> HIDE DEF p, new
    <3>3. new \in Seq((0..2) \X Nat) /\ Len(new) = 1 /\ new[1] = <<1, p>>
      BY <3>1, <3>2
    <3> QED BY <2>1, <3>3
  <2>2. CASE w = 2
    <3>1. new = << <<1, p>>, <<2, p>> >>
      BY <2>2 DEF ReturnsOf, w
    <3>2. <<1, p>> \in (0..2) \X Nat /\ <<2, p>> \in (0..2) \X Nat
      BY <1>1
    <3> HIDE DEF p, new
    <3>3. new \in Seq((0..2) \X Nat) /\ Len(new) = 2 /\ new[1] = <<1, p>> /\ new[2] = <<2, p>>
      BY <3>1, <3>2
    <3>4. \A i \in 1..2 : i = 1 \/ i = 2
      OBVIOUS
    <3> QED BY <2>2, <3>3, <3>4
  <2> QED BY <1>6, <2>1, <2>2
<1> HIDE DEF p, new
<1>13. /\ more \in Seq((0..2) \X Nat) /\ Len(more) = n + w /\ DOMAIN more = 1..n + w
       /\ \A i \in 1..n + w : more[i] = IF i <= n THEN rets[i] ELSE new[i - n]
  <2>1. /\ more \in Seq((0..2) \X Nat) /\ Len(more) = Len(rets) + Len(new)
        /\ \A i \in 1..Len(rets) + Len(new) : more[i] = IF i <= Len(rets) THEN rets[i] ELSE new[i - Len(rets)]
    BY <1>8, <1>12, ConcatProperties
  <2>2. DOMAIN more = 1..Len(more)
    BY <2>1, LenProperties
  <2> QED BY <1>12, <2>1, <2>2 DEF n
<1> HIDE DEF more
<1>14. /\ \A k \in 1..n : more[k] = rets[k] /\ k \in 1..n + w
       /\ \A i \in 1..w : more[n + i] = <<i, p>> /\ n + i \in 1..n + w
  <2>1. ASSUME NEW k \in 1..n PROVE more[k] = rets[k] /\ k \in 1..n + w
    <3>1. k \in 1..n + w /\ k <= n
      BY <1>6, <1>8
    <3> QED BY <1>13, <3>1
  <2>2. ASSUME NEW i \in 1..w PROVE more[n + i] = <<i, p>> /\ n + i \in 1..n + w
    <3>1. n + i \in 1..n + w /\ ~(n + i <= n) /\ (n + i) - n = i
      BY <1>6, <1>8
    <3> QED BY <1>12, <1>13, <3>1
  <2> QED BY <2>1, <2>2
<1>15. \A k \in 1..n + w : k \in 1..n \/ \E i \in 1..w : k = n + i
  <2> SUFFICES ASSUME NEW k \in 1..n + w, k \notin 1..n PROVE \E i \in 1..w : k = n + i
    OBVIOUS
  <2>1. k - n \in 1..w /\ k = n + (k - n)
    BY <1>6, <1>8
  <2> QED BY <2>1
<1>16. more # <<>> /\ more[1] = <<0, 0>> /\ more[n + w] = TopReturn(d, p + 1) /\ more[n] = TopReturn(c, p)
  <2>1. 1 \in 1..n /\ n \in 1..n /\ w \in 1..w /\ n + w # 0
    BY <1>6, <1>8
  <2>2. more # <<>>
    BY <1>13, <2>1, EmptySeq
  <2> QED BY <1>7, <1>8, <1>14, <2>1, <2>2
<1>17. ASSUME NEW k \in 2..n + w
       PROVE  /\ more[k][2] \in Encl(d, p + 1) /\ more[k][1] \in 1..Width(d, more[k][2])
              /\ more[k - 1] = IF more[k][1] = 2 THEN <<1, more[k][2]>> ELSE TopReturn(d, more[k][2])
  <2>1. CASE k \in 1..n
    <3>1. k \in 2..n /\ k - 1 \in 1..n
      BY <1>8, <2>1
    <3>2. more[k] = rets[k] /\ more[k - 1] = rets[k - 1]
      BY <1>14, <2>1, <3>1
    <3>3. rets[k][2] \in Encl(c, p) /\ rets[k][1] \in 1..Width(c, rets[k][2])
      BY <1>9, <3>1
    <3>4. Width(d, rets[k][2]) = Width(c, rets[k][2]) /\ TopReturn(d, rets[k][2]) = TopReturn(c, rets[k][2])
      BY <1>2, <1>3, <1>4, <3>3
    <3>5. rets[k - 1] = IF rets[k][1] = 2 THEN <<1, rets[k][2]>> ELSE TopReturn(c, rets[k][2])
      BY <1>10, <3>1
    <3> QED BY <1>1, <3>2, <3>3, <3>4, <3>5
  <2>2. CASE k \notin 1..n
    <3>1. PICK i \in 1..w : k = n + i
      <4>1. k \in 1..n + w
        BY <1>6, <1>8
      <4> QED BY <1>15, <2>2, <4>1
    <3>2. more[k] = <<i, p>>
      BY <1>14, <3>1
    <3>3. more[k][2] = p /\ more[k][1] = i
      BY <3>2
    <3>4. p \in Encl(d, p + 1) /\ i \in 1..Width(d, p)
      BY <1>1, <1>4, <3>1
    <3>5. CASE i = 1
      <4>1. k - 1 = n
        BY <1>8, <3>1, <3>5
      <4>2. more[k - 1] = TopReturn(d, p)
        BY <1>1, <1>3, <1>16, <4>1
      <4> QED BY <3>3, <3>4, <3>5, <4>2
    <3>6. CASE i = 2
      <4>1. k - 1 = n + 1 /\ 1 \in 1..w
        BY <1>6, <1>8, <3>1, <3>6
      <4>2. more[k - 1] = <<1, p>>
        BY <1>14, <4>1
      <4> QED BY <3>3, <3>4, <3>6, <4>2
    <3>7. i = 1 \/ i = 2
      BY <1>6
    <3> QED BY <3>5, <3>6, <3>7
  <2> QED BY <2>1, <2>2
<1>18. ASSUME NEW k \in 1..n + w, NEW l \in 1..n + w, k < l
       PROVE  more[k] # more[l]
  <2>1. CASE l \in 1..n
    <3>1. k \in 1..n
      BY <1>8, <1>18, <2>1
    <3> QED BY <1>11, <1>14, <1>18, <2>1, <3>1
  <2>2. CASE l \notin 1..n
    <3>1. PICK i \in 1..w : l = n + i
      BY <1>15, <2>2
    <3>2. more[l] = <<i, p>>
      BY <1>14, <3>1
    <3>3. CASE k \in 1..n
      <4>1. more[k] = rets[k]
        BY <1>14, <3>3
      <4>2. rets[k][2] # p
        <5>1. CASE k = 1
          <6>1. rets[k][2] = 0
            BY <1>8, <5>1
          <6>2. p # 0
            BY <1>1
          <6> QED BY <6>1, <6>2
        <5>2. CASE k # 1
          <6>1. k \in 2..n
            BY <1>8, <3>3, <5>2
          <6> QED BY <1>2, <1>9, <6>1
        <5> QED BY <5>1, <5>2
      <4>3. rets[k] # <<i, p>>
        BY <4>2
      <4> QED BY <3>2, <4>1, <4>3
    <3>4. CASE k \notin 1..n
      <4>1. PICK h \in 1..w : k = n + h
        BY <1>15, <3>4
      <4>2. h # i
        BY <1>18, <3>1, <4>1
      <4>3. more[k] = <<h, p>>
        BY <1>14, <4>1
      <4> QED BY <3>2, <4>2, <4>3
    <3> QED BY <3>3, <3>4
  <2> QED BY <2>1, <2>2
<1>19. more[Len(more)] = TopReturn(d, p + 1)
  BY <1>13, <1>16
<1>20. Returning(d, p + 1, more)
  BY <1>13, <1>16, <1>17, <1>18, <1>19 DEF Returning
<1> QED BY <1>13, <1>14, <1>20 DEF d, p, n, w, new, more

\* What Watched says where the node to come has been warned about.
Solid(c, o, rs, rets) ==
  \A k \in 1..Len(rets) : rs[k] =>
    /\ rets[k][2] \in 1..Len(c) /\ rets[k][1] = Width(c, rets[k][2])
    /\ \E i \in 1..Len(o) : o[i].at = rets[k][2] /\ o[i].warned

\* A scope with a return in it has been warned about, or is about to be.
LEMMA WatchedOn ==
  ASSUME Base, NEW rets, Returning(code, Here, rets), Watched(code, open, mid, return_scopes, rets),
         NEW k \in 1..Len(rets), return_scopes[k]
  PROVE  /\ rets[k][2] \in 1..Len(code) /\ rets[k][1] = Width(code, rets[k][2])
         /\ \E i \in 1..Len(open) : /\ open[i].at = rets[k][2]
                                    /\ open[i].warned \/ (i = Len(open) /\ ~mid /\ Dead)
<1> DEFINE p == Len(code) + 1
           n == Len(rets)
           L == Len(open)
<1>1. /\ WellFormed(code) /\ code \in Seq(NodeType) /\ Len(code) \in Nat /\ p \in 1..Len(code) + 1
      /\ DOMAIN code = 1..Len(code) /\ \A q \in 1..Len(code) : Fits(code, q)
  BY LenProperties DEF Base, WellFormed
<1>2. open \in Seq(OpenType) /\ L \in Nat /\ DOMAIN open = 1..L /\ Linked(code, open) /\ return_scopes \in Seq(BOOLEAN)
  BY LenProperties DEF Base, ResolverTypes
<1>3. n \in Nat /\ DOMAIN rets = 1..n /\ rets[n] = TopReturn(code, p) /\ rets[1] = <<0, 0>>
  BY ReturningIs DEF Here
<1>4. \A l \in 1..n : rets[l] = <<rets[l][1], rets[l][2]>>
  BY ReturningIs
<1>5. \A l \in 2..n : rets[l][2] \in Encl(code, p)
  BY ReturningIs DEF Here
<1>6. \A l, m \in 1..n : l < m => rets[l] # rets[m]
  BY ReturningIs
<1>7. /\ n = Len(return_scopes) /\ rets[k][1] = Width(code, rets[k][2])
      /\ \E i \in DOMAIN open : /\ open[i].at = rets[k][2]
                                /\ open[i].warned \/ (i = Len(open) /\ code[Len(code)].op = "return" /\ ~mid)
  BY <1>3 DEF Watched
<1>8. PICK i \in 1..L : /\ open[i].at = rets[k][2]
                        /\ open[i].warned \/ (i = L /\ code[Len(code)].op = "return" /\ ~mid)
  BY <1>2, <1>7
<1>9. /\ open[i].at \in 1..Len(code) /\ code[open[i].at].op = open[i].op
  BY <1>1, <1>2 DEF Linked
<1> HIDE DEF p, n, L
<1>10. ASSUME ~open[i].warned
       PROVE  ~mid /\ i = L /\ Dead
  <2>1. i = L /\ code[Len(code)].op = "return" /\ ~mid
    BY <1>8, <1>10
  <2>2. k # 1
    <3>1. rets[1][2] = 0
      BY <1>3
    <3> QED BY <1>1, <1>8, <1>9, <3>1
  <2>3. k \in 2..n
    BY <1>3, <2>2 DEF n
  <2>4. open[i].at \in Encl(code, p) /\ code[open[i].at].op \in Nesting
    <3>1. open[i].at \in Encl(code, p)
      BY <1>5, <1>8, <2>3
    <3> QED BY <1>1, <3>1, EnclIs DEF p
  <2>5. open # <<>> /\ Last(open) = open[L] /\ L # 0
    <3>1. L # 0
      BY <1>2, <2>1
    <3>2. open # <<>>
      BY <3>1, EmptySeq DEF L
    <3> QED BY <1>2, <3>1, <3>2, FrontIs DEF L
  <2>6. Last(open).op \in Nesting /\ Last(open).op # "var"
    BY <1>9, <2>1, <2>4, <2>5 DEF Nesting, Bodies
  <2>7. Inmost(code, p) = Last(open).at /\ Encl(code, p) # {}
    BY <1>1, <1>2, <2>5, <2>6, InnerIs DEF p
  <2>8. rets[k] = rets[n]
    <3>1. rets[n] = <<Width(code, Last(open).at), Last(open).at>>
      BY <1>3, <2>7 DEF TopReturn
    <3>2. rets[k] = <<rets[k][1], rets[k][2]>>
      BY <1>4 DEF n
    <3> QED BY <1>7, <1>8, <2>1, <2>5, <3>1, <3>2
  <2>9. k = n
    <3>1. k \in 1..n /\ n \in 1..n
      BY <1>3, <2>3 DEF n
    <3>2. k < n => rets[k] # rets[n]
      BY <1>6, <3>1
    <3> QED BY <1>3, <2>8, <3>1, <3>2
  <2>10. Last(return_scopes)
    <3>1. Len(return_scopes) = k /\ k # 0
      BY <1>3, <1>7, <2>3, <2>9
    <3>2. return_scopes # <<>>
      BY <3>1, EmptySeq
    <3>3. Last(return_scopes) = return_scopes[Len(return_scopes)]
      BY <1>2, <3>2, FrontIs
    <3> QED BY <3>1, <3>3
  <2>11. Last(open).op # "class"
    <3> DEFINE m == Len(code)
    <3>1. m \in 1..Len(code) /\ m + 1 = p
      BY <1>1, <1>9 DEF p
    <3>2. Encl(code, p) = Encl(code, m)
      <4>1. code[m].op # "end" /\ code[m].op \notin Nesting
        BY <2>1 DEF Nesting, Bodies
      <4>2. Encl(code, m + 1) = Encl(code, m)
        BY <1>1, <3>1, <4>1, EnclNext
      <4> QED BY <3>1, <4>2
    <3>3. Inmost(code, m) = Last(open).at
      BY <2>7, <3>2 DEF Inmost
    <3>4. code[Inmost(code, m)].op # "class"
      BY <1>1, <2>1, <2>7, <3>1, <3>2 DEF Fits
    <3> QED BY <1>9, <2>1, <2>5, <3>3, <3>4
  <2>12. AtStatement
    BY <2>5, <2>6, <2>11 DEF AtStatement, Inner
  <2>13. ~Last(open).warned
    BY <1>10, <2>1, <2>5
  <2>14. Dead
    BY <2>5, <2>10, <2>12, <2>13 DEF Dead
  <2> QED BY <2>1, <2>14
<1>11. open[i].at = rets[k][2] /\ (open[i].warned \/ (i = L /\ ~mid /\ Dead))
  BY <1>8, <1>10
<1> QED BY <1>7, <1>8, <1>9, <1>11 DEF L

\* The next node of a list finds all of them warned about.
LEMMA Solids ==
  ASSUME Base, NEW rets, Returning(code, Here, rets), Watched(code, open, mid, return_scopes, rets)
  PROVE  /\ Solid(code, Started, return_scopes, rets)
         /\ mid \/ Inner = "var" => Solid(code, open, return_scopes, rets)
<1>1. open \in Seq(OpenType) /\ Len(open) \in Nat
  BY LenProperties DEF Base, ResolverTypes
<1>2. Alike(open, Started) /\ (Dead => Started # <<>> /\ Last(Started).warned)
  BY <1>1, StartedIs
<1>3. /\ Started \in Seq(OpenType) /\ Len(Started) = Len(open)
      /\ \A i \in 1..Len(open) : Started[i].at = open[i].at /\ (open[i].warned => Started[i].warned)
  BY <1>2 DEF Alike
<1>4. Dead => Started[Len(open)].warned
  BY <1>2, <1>3, FrontIs
<1>5. ASSUME NEW k \in 1..Len(rets), return_scopes[k]
      PROVE  /\ rets[k][2] \in 1..Len(code) /\ rets[k][1] = Width(code, rets[k][2])
             /\ \E i \in 1..Len(open) : /\ open[i].at = rets[k][2]
                                        /\ open[i].warned \/ (i = Len(open) /\ ~mid /\ Dead)
  BY <1>5, WatchedOn
<1>6. Solid(code, Started, return_scopes, rets)
  BY <1>3, <1>4, <1>5 DEF Solid
<1>7. ASSUME mid \/ Inner = "var" PROVE Solid(code, open, return_scopes, rets)
  <2>1. mid \/ ~Dead
    BY <1>7 DEF Dead, AtStatement
  <2> QED BY <1>5, <2>1 DEF Solid
<1> QED BY <1>6, <1>7

\* Watched where the nodes that were warned about are still open and nothing has returned since.
LEMMA WatchedKept ==
  ASSUME NEW c \in Seq(NodeType), NEW x \in NodeType, NEW o, NEW rs, NEW rets, Solid(c, o, rs, rets),
         NEW o2, NEW m2, NEW rs2, NEW rets2, Len(rets2) = Len(rs2), DOMAIN rets2 = 1..Len(rets2),
         DOMAIN o2 = 1..Len(o2),
         \A k \in 1..Len(rets2) : rs2[k] => k \in 1..Len(rets) /\ rs[k] /\ rets2[k] = rets[k],
         \A i \in 1..Len(o) : o[i].warned /\ (\E k \in 1..Len(rets2) : rets2[k][2] = o[i].at) =>
           i \in 1..Len(o2) /\ o2[i].at = o[i].at /\ o2[i].warned
  PROVE  Watched(Append(c, x), o2, m2, rs2, rets2)
<1> DEFINE d == Append(c, x)
<1>1. \A j \in 1..Len(c) : Width(d, j) = Width(c, j)
  BY Appended DEF Width
<1> HIDE DEF d
<1>2. ASSUME NEW k \in 1..Len(rets2), rs2[k]
      PROVE  /\ rets2[k][1] = Width(d, rets2[k][2])
             /\ \E i \in 1..Len(o2) : o2[i].at = rets2[k][2] /\ o2[i].warned
  <2>1. k \in 1..Len(rets) /\ rs[k] /\ rets2[k] = rets[k]
    BY <1>2
  <2>2. rets[k][2] \in 1..Len(c) /\ rets[k][1] = Width(c, rets[k][2])
    BY <2>1 DEF Solid
  <2>3. PICK i \in 1..Len(o) : o[i].at = rets[k][2] /\ o[i].warned
    BY <2>1 DEF Solid
  <2>4. i \in 1..Len(o2) /\ o2[i].at = o[i].at /\ o2[i].warned
    BY <2>1, <2>3
  <2> QED BY <1>1, <2>1, <2>2, <2>3, <2>4
<1>3. Watched(d, o2, m2, rs2, rets2)
  BY <1>2 DEF Watched
<1> QED BY <1>3 DEF d

\* A return marks the innermost return scope, and what follows it is warned about.
LEMMA WatchedLeaf ==
  ASSUME Base, NEW x \in NodeType, Suits(code, x), LeafStep(x), WellFormed(Append(code, x)),
         ~had_error', NEW rets, Returning(code, Here, rets),
         Watched(code, open, mid, return_scopes, rets)
  PROVE  Watched(Append(code, x), open', mid', return_scopes', rets)
<1> DEFINE d == Append(code, x)
           n == Len(rets)
<1>1. /\ code \in Seq(NodeType) /\ Len(code) \in Nat /\ d \in Seq(NodeType) /\ Len(d) = Len(code) + 1
      /\ d[Len(d)] = x /\ \A i \in 1..Len(code) : d[i] = code[i]
  BY StepIs DEF Base
<1>2. open \in Seq(OpenType) /\ return_scopes \in Seq(BOOLEAN) /\ return_scopes # <<>>
  BY DEF Base, ResolverTypes
<1>3. /\ rets \in Seq((0..2) \X Nat) /\ n \in Nat /\ n # 0 /\ DOMAIN rets = 1..n
      /\ rets[n] = TopReturn(code, Here)
  BY ReturningIs
<1>4. n = Len(return_scopes) /\ DOMAIN return_scopes = 1..n
  BY <1>2, LenProperties DEF Watched
<1>5. Alike(open, open') /\ Solid(code, open', return_scopes, rets)
  <2>1. open' = Started \/ (open' = open /\ mid)
    BY DEF LeafStep
  <2>2. Alike(open, Started) /\ Alike(open, open)
    BY <1>2, StartedIs DEF Alike
  <2> QED BY <2>1, <2>2, Solids
<1>6. open' \in Seq(OpenType) /\ Len(open') = Len(open) /\ DOMAIN open' = 1..Len(open') /\ Len(open) \in Nat
  BY <1>2, <1>5, LenProperties DEF Alike
<1>7. CASE x.op # "return"
  <2>1. return_scopes' = return_scopes
    BY <1>7 DEF LeafStep
  <2> QED BY <1>1, <1>3, <1>4, <1>5, <1>6, <2>1, WatchedKept
<1>8. CASE x.op = "return"
  <2>1. /\ return_scopes' = [return_scopes EXCEPT ![n] = TRUE] /\ AtStatement /\ ~mid'
        /\ Last(function_scopes) # "NONE"
    BY <1>4, <1>8 DEF LeafStep
  <2>2. /\ Len(return_scopes') = n
        /\ \A k \in 1..n : return_scopes'[k] => return_scopes[k] \/ k = n
    BY <1>2, <1>4, <2>1, ExceptSeq
  <2>3. Encl(code, Here) # {} /\ open # <<>> /\ Inmost(code, Here) = Last(open).at
    <3>1. Len(function_scopes) = 1 + Tally(open, Bodies)
      BY CountsAre DEF Base
    <3>2. function_scopes \in Seq(FunctionTypes) /\ function_scopes # <<>> /\ function_scopes[1] = "NONE"
      BY DEF Base, ResolverTypes, FunctionTypes
    <3>3. Last(function_scopes) = function_scopes[Len(function_scopes)]
      BY <3>2, FrontIs
    <3>4. Len(function_scopes) # 1
      BY <2>1, <3>2, <3>3
    <3>5. {i \in DOMAIN open : open[i].op \in Bodies} # {}
      <4>1. Tally(open, Bodies) # 0
        BY <3>1, <3>4
      <4>2. Cardinality({}) = 0
        BY FS_EmptySet
      <4> QED BY <4>1, <4>2 DEF Tally
    <3>6. open # <<>>
      BY <3>5
    <3>7. Inner = Last(open).op /\ Inner \notin {"var", "class"}
      BY <2>1, <3>6 DEF AtStatement, Inner
    <3> QED BY <1>2, <3>6, <3>7, InnerIs DEF Base, Here
  <2>4. rets[n][1] = Width(d, rets[n][2]) /\ rets[n][2] = Last(open).at
    <3>1. rets[n] = <<Width(code, Last(open).at), Last(open).at>>
      BY <1>3, <2>3 DEF TopReturn
    <3>2. Last(open).at \in 1..Len(code)
      <4>1. Here \in 1..Len(code) + 1
        BY <1>1 DEF Here
      <4> QED BY <1>1, <2>3, <4>1, EnclIs
    <3>3. Width(d, Last(open).at) = Width(code, Last(open).at)
      BY <1>1, <3>2 DEF Width
    <3> QED BY <3>1, <3>3
  <2>5. /\ Len(open) \in 1..Len(open') /\ open'[Len(open)].at = Last(open).at /\ Len(open) = Len(open')
    <3>1. Last(open) = open[Len(open)] /\ Len(open) # 0
      BY <1>2, <2>3, FrontIs
    <3> QED BY <1>5, <1>6, <3>1 DEF Alike
  <2> HIDE DEF d
  <2>6. ASSUME NEW k \in 1..n, return_scopes'[k]
        PROVE  /\ rets[k][1] = Width(d, rets[k][2])
               /\ \E i \in 1..Len(open') : /\ open'[i].at = rets[k][2]
                                           /\ open'[i].warned \/ (i = Len(open') /\ d[Len(d)].op = "return" /\ ~mid')
    <3>1. CASE return_scopes[k]
      <4>1. /\ rets[k][2] \in 1..Len(code) /\ rets[k][1] = Width(code, rets[k][2])
            /\ \E i \in 1..Len(open') : open'[i].at = rets[k][2] /\ open'[i].warned
        BY <1>5, <3>1 DEF Solid
      <4>2. Width(d, rets[k][2]) = Width(code, rets[k][2])
        BY <1>1, <4>1 DEF Width
      <4> QED BY <4>1, <4>2
    <3>2. CASE k = n
      BY <1>1, <1>8, <2>1, <2>4, <2>5, <3>2
    <3> QED BY <2>2, <2>6, <3>1, <3>2
  <2>7. Watched(d, open', mid', return_scopes', rets)
    BY <1>3, <1>6, <2>2, <2>6 DEF Watched
  <2> QED BY <2>7 DEF d
<1> QED BY <1>7, <1>8

\* What FrontIs says of the nodes that stay open.
LEMMA OpenFront ==
  ASSUME Base, open # <<>>
  PROVE  /\ Len(open) \in Nat \ {0} /\ DOMAIN open = 1..Len(open) /\ Last(open) = open[Len(open)]
         /\ Len(Front(open)) = Len(open) - 1 /\ DOMAIN Front(open) = 1..Len(Front(open))
         /\ \A i \in 1..Len(open) : i # Len(open) => i \in 1..Len(Front(open)) /\ Front(open)[i] = open[i]
<1>1. /\ Len(open) \in Nat \ {0} /\ DOMAIN open = 1..Len(open)
      /\ Len(Front(open)) = Len(open) - 1 /\ DOMAIN Front(open) = 1..Len(open) - 1
      /\ \A i \in 1..Len(open) - 1 : Front(open)[i] = open[i]
      /\ Last(open) = open[Len(open)]
  BY FrontIs DEF Base, ResolverTypes
<1>2. \A i \in 1..Len(open) : i # Len(open) => i \in 1..Len(open) - 1
  <2>1. \A m \in Nat : \A i \in 1..m : i # m => i \in 1..m - 1
    OBVIOUS
  <2>2. Len(open) \in Nat
    BY <1>1
  <2> QED BY <2>1, <2>2
<1> QED BY <1>1, <1>2

\* _define touches no return scope.
LEMMA WatchedDefine ==
  ASSUME Base, VarDefined, NEW x \in NodeType, NEW rets, Returning(code, Here, rets),
         Watched(code, open, mid, return_scopes, rets)
  PROVE  Watched(Append(code, x), open', mid', return_scopes', rets)
<1>1. /\ Inner = "var" /\ open' = Front(open) /\ return_scopes' = return_scopes /\ code \in Seq(NodeType)
  BY DEF VarDefined, Base, WellFormed
<1>2. open # <<>> /\ Last(open).op = "var"
  BY <1>1 DEF Inner, None
<1>3. /\ Len(open) \in Nat \ {0} /\ DOMAIN open = 1..Len(open) /\ Last(open) = open[Len(open)]
      /\ DOMAIN Front(open) = 1..Len(Front(open))
      /\ \A i \in 1..Len(open) : i # Len(open) => i \in 1..Len(Front(open)) /\ Front(open)[i] = open[i]
  BY <1>2, OpenFront
<1>4. /\ Len(rets) \in Nat /\ DOMAIN rets = 1..Len(rets) /\ rets[1] = <<0, 0>>
      /\ \A k \in 2..Len(rets) : rets[k][2] \in Encl(code, Here)
  BY ReturningIs
<1>5. ASSUME NEW k \in 1..Len(rets), rets[k][2] = open[Len(open)].at
      PROVE  FALSE
  <2>1. open[Len(open)].at \in DOMAIN code /\ code[open[Len(open)].at].op = "var"
    <3>1. Len(open) \in DOMAIN open
      <4>1. \A m \in Nat \ {0} : m \in 1..m
        OBVIOUS
      <4> QED BY <1>3, <4>1
    <3>2. \A i \in DOMAIN open : open[i].at \in DOMAIN code /\ code[open[i].at].op = open[i].op
      BY DEF Base, Linked
    <3> QED BY <1>2, <1>3, <3>1, <3>2
  <2>2. 0 \notin DOMAIN code
    BY <1>1, LenProperties
  <2>3. k # 1
    <3>1. rets[1][2] = 0
      BY <1>4
    <3> QED BY <1>5, <2>1, <2>2, <3>1
  <2>4. k \in 2..Len(rets)
    BY <1>4, <2>3
  <2>5. open[Len(open)].at \in Encl(code, Here)
    BY <1>4, <1>5, <2>4
  <2>6. code[open[Len(open)].at].op \in Nesting
    BY <2>5 DEF Encl
  <2> QED BY <2>1, <2>6 DEF Nesting, Bodies
<1>6. Solid(code, open, return_scopes, rets)
  BY <1>1, Solids
<1>7. Len(rets) = Len(return_scopes)
  BY DEF Watched
<1>8. \A i \in 1..Len(open) : open[i].warned /\ (\E k \in 1..Len(rets) : rets[k][2] = open[i].at) =>
        i \in 1..Len(open') /\ open'[i].at = open[i].at /\ open'[i].warned
  BY <1>1, <1>3, <1>5
<1>9. DOMAIN open' = 1..Len(open')
  BY <1>1, <1>3
<1>10. Len(rets) = Len(return_scopes') /\ \A k \in 1..Len(rets) : return_scopes'[k] => return_scopes[k]
  BY <1>1, <1>7
<1> QED BY <1>1, <1>4, <1>6, <1>8, <1>9, <1>10, WatchedKept

\* The last of class_scopes tells whether the innermost class has a superclass.
LEMMA ClassTop ==
  ASSUME NEW c \in Seq(NodeType), NEW p \in 1..Len(c) + 1, NEW cs \in Seq(ClassKinds), NEW classes,
         Classed(c, p, cs, classes)
  PROVE  /\ Encl(c, p) # {} /\ c[Inmost(c, p)].op = "class" =>
              (Last(cs) = "SUBCLASS" <=> c[Inmost(c, p)].arg # {})
         /\ Last(cs) = "SUBCLASS" /\ cs[1] = "NONE" =>
              \E j \in Encl(c, p) : c[j].op = "class" /\ c[j].arg # {}
<1> DEFINE n == Len(classes)
<1>1. /\ classes \in Seq(Nat) /\ Len(cs) = 1 + n
      /\ \A k \in DOMAIN classes : (cs[k + 1] = "SUBCLASS" <=> c[classes[k]].arg # {})
      /\ \A k, l \in DOMAIN classes : k < l => classes[k] < classes[l]
      /\ {classes[k] : k \in DOMAIN classes} = {j \in Encl(c, p) : c[j].op = "class"}
  BY DEF Classed
<1>2. n \in Nat /\ DOMAIN classes = 1..n
  BY <1>1, LenProperties
<1>3. Last(cs) = cs[n + 1]
  <2>1. cs # <<>>
    BY <1>1, <1>2, EmptySeq
  <2>2. Last(cs) = cs[Len(cs)]
    BY <2>1, FrontIs
  <2>3. 1 + n = n + 1
    BY <1>2
  <2> QED BY <1>1, <2>2, <2>3
<1> HIDE DEF n
<1>4. n # 0 => (Last(cs) = "SUBCLASS" <=> c[classes[n]].arg # {})
  <2>1. n # 0 => n \in DOMAIN classes
    BY <1>2
  <2> QED BY <1>1, <1>3, <2>1
<1>5. ASSUME Encl(c, p) # {}, c[Inmost(c, p)].op = "class"
      PROVE  n # 0 /\ classes[n] = Inmost(c, p)
  <2>1. Inmost(c, p) \in Encl(c, p) /\ \A j \in Encl(c, p) : j <= Inmost(c, p) /\ j \in 1..p - 1
    BY <1>5, EnclIs
  <2>2. Inmost(c, p) \in {classes[k] : k \in DOMAIN classes}
    BY <1>1, <1>5, <2>1
  <2>3. PICK k \in 1..n : classes[k] = Inmost(c, p)
    BY <1>2, <2>2
  <2>4. n \in 1..n /\ k <= n
    BY <1>2
  <2>5. classes[n] \in {j \in Encl(c, p) : c[j].op = "class"}
    BY <1>1, <1>2, <2>4
  <2>6. classes[n] <= Inmost(c, p) /\ classes[n] \in 1..p - 1 /\ Inmost(c, p) \in 1..p - 1
    BY <2>1, <2>5
  <2>7. k < n => classes[k] < classes[n]
    BY <1>1, <1>2, <2>4
  <2>8. ~(k < n)
    BY <2>3, <2>6, <2>7
  <2>9. k = n
    BY <1>2, <2>4, <2>8
  <2> QED BY <2>3, <2>4, <2>9
<1>6. ASSUME Last(cs) = "SUBCLASS", cs[1] = "NONE"
      PROVE  \E j \in Encl(c, p) : c[j].op = "class" /\ c[j].arg # {}
  <2>1. n # 0
    <3>1. n = 0 => Last(cs) = cs[1]
      BY <1>3
    <3> QED BY <1>6, <3>1
  <2>2. classes[n] \in {j \in Encl(c, p) : c[j].op = "class"}
    BY <1>1, <1>2, <2>1
  <2> QED BY <1>4, <1>6, <2>1, <2>2
<1> QED BY <1>4, <1>5, <1>6

\* A construct pops the scopes and return scopes that it pushed.
LEMMA CloseWidths ==
  ASSUME Base, NEW k, NEW r, CloseStep(k, r), NEW classes, Classed(code, Here, class_scopes, classes)
  PROVE  k = Breadth(code[Last(open).at]) /\ r = Width(code, Last(open).at)
<1> DEFINE j == Last(open).at
<1>1. Encl(code, Here) # {} /\ Inmost(code, Here) = j /\ code[j].op = Inner
  BY CloseIs
<1>2. /\ k = IF Inner = "class" /\ Last(class_scopes) = "SUBCLASS" THEN 2 ELSE 1
      /\ r = IF Inner \in {"if", "while"} THEN k + 1 ELSE k
  BY DEF CloseStep
<1>3. Inner = "class" => (Last(class_scopes) = "SUBCLASS" <=> code[j].arg # {})
  <2>1. code \in Seq(NodeType) /\ Here \in 1..Len(code) + 1
    BY LenProperties DEF Base, WellFormed, Here
  <2>2. class_scopes \in Seq(ClassKinds)
    BY DEF Base, ResolverTypes, ClassKinds
  <2> QED BY <1>1, <2>1, <2>2, ClassTop
<1> HIDE DEF j
<1>4. CASE Inner = "class"
  <2>1. Inner \notin {"if", "while"}
    BY <1>4
  <2> QED BY <1>1, <1>2, <1>3, <1>4, <2>1 DEF Breadth, Width, j
<1>5. CASE Inner # "class"
  <2>1. k = 1
    BY <1>2, <1>5
  <2> QED BY <1>1, <1>2, <1>5, <2>1 DEF Breadth, Width, j
<1> QED BY <1>4, <1>5

\* The return scopes that stay after an end have been warned about as before.
LEMMA WatchedClose ==
  ASSUME Base, NEW k, NEW r, CloseStep(k, r), NEW classes, Classed(code, Here, class_scopes, classes),
         NEW rets, Returning(code, Here, rets), Watched(code, open, mid, return_scopes, rets)
  PROVE  LET more == SubSeq(rets, 1, Len(rets) - r)
         IN Returning(Append(code, EndNode), Here + 1, more)
            /\ Watched(Append(code, EndNode), open', mid', return_scopes', more)
<1> DEFINE n == Len(rets)
           more == SubSeq(rets, 1, n - r)
           rs2 == return_scopes'
           j == Last(open).at
<1>1. /\ open # <<>> /\ EndNode \in NodeType /\ WellFormed(code) /\ WellFormed(Append(code, EndNode))
  BY CloseIs
<1>2. EndNode.op = "end" /\ EndNode.at = j
  BY DEF EndNode
<1>3. r = Width(code, EndNode.at)
  BY <1>2, CloseWidths
<1>4. /\ r \in 1..n - 1 /\ n \in Nat
      /\ Returning(Append(code, EndNode), Here + 1, more)
      /\ \A i \in 1..n - r : rets[i][2] # j
  BY <1>1, <1>2, <1>3, ReturningClose DEF Here
<1>5. open' = Front(open) /\ rs2 = SubSeq(return_scopes, 1, Len(return_scopes) - r)
  BY DEF CloseStep
<1>6. return_scopes \in Seq(BOOLEAN) /\ n = Len(return_scopes) /\ code \in Seq(NodeType)
  BY DEF Base, ResolverTypes, WellFormed, Watched
<1>7. Len(rs2) = n - r /\ \A i \in 1..n - r : rs2[i] = return_scopes[i]
  <2>1. r \in 0..Len(return_scopes)
    BY <1>4, <1>6
  <2>2. LET t == SubSeq(return_scopes, 1, Len(return_scopes) - r)
        IN Len(t) = Len(return_scopes) - r /\ \A i \in 1..Len(return_scopes) - r : t[i] = return_scopes[i]
    BY <1>6, <2>1, Shortened
  <2> QED BY <1>5, <1>6, <2>2
<1>8. Len(more) = n - r /\ DOMAIN more = 1..n - r /\ \A i \in 1..n - r : more[i] = rets[i]
  <2>1. r \in 0..Len(rets)
    BY <1>4
  <2>2. rets \in Seq((0..2) \X Nat)
    BY ReturningIs
  <2> QED BY <2>1, <2>2, Shortened
<1>9. /\ DOMAIN open' = 1..Len(open') /\ Last(open) = open[Len(open)] /\ Len(open) \in Nat
      /\ \A i \in 1..Len(open) : i # Len(open) => i \in 1..Len(open') /\ open'[i] = open[i]
  BY <1>1, <1>5, OpenFront
<1>10. ASSUME NEW i \in 1..n - r PROVE i \in 1..n /\ rets[i][2] # j
  BY <1>4
<1> HIDE DEF more, rs2, n, j
<1>11. ASSUME NEW i \in 1..n - r, rs2[i]
       PROVE  /\ more[i][1] = Width(Append(code, EndNode), more[i][2])
              /\ \E h \in 1..Len(open') : open'[h].at = more[i][2] /\ open'[h].warned
  <2>1. i \in 1..n /\ rets[i][2] # j /\ return_scopes[i] /\ more[i] = rets[i]
    BY <1>7, <1>8, <1>10, <1>11
  <2>2. /\ rets[i][2] \in 1..Len(code) /\ rets[i][1] = Width(code, rets[i][2])
        /\ \E h \in 1..Len(open) : /\ open[h].at = rets[i][2]
                                   /\ open[h].warned \/ (h = Len(open) /\ ~mid /\ Dead)
    BY <2>1, WatchedOn DEF n
  <2>3. PICK h \in 1..Len(open) : /\ open[h].at = rets[i][2]
                                  /\ open[h].warned \/ (h = Len(open) /\ ~mid /\ Dead)
    BY <2>2
  <2>4. h # Len(open)
    BY <1>9, <2>1, <2>3 DEF j
  <2>5. h \in 1..Len(open') /\ open'[h].at = rets[i][2] /\ open'[h].warned
    BY <1>9, <2>3, <2>4
  <2>6. Width(Append(code, EndNode), rets[i][2]) = Width(code, rets[i][2])
    BY <1>1, <1>6, <2>2, Appended DEF Width
  <2> QED BY <2>1, <2>2, <2>5, <2>6
<1>12. Watched(Append(code, EndNode), open', mid', rs2, more)
  BY <1>7, <1>8, <1>9, <1>11 DEF Watched
<1> QED BY <1>4, <1>12 DEF more, rs2, n

\* New return scopes have no return in them.
LEMMA WatchedOpen ==
  ASSUME Base, NEW x \in NodeType, NEW t, EnterStep(x, t), WellFormed(Append(code, x)),
         NEW rets, Returning(code, Here, rets), Watched(code, open, mid, return_scopes, rets)
  PROVE  \E more : /\ Returning(Append(code, x), Here + 1, more)
                   /\ Watched(Append(code, x), open', mid', return_scopes', more)
<1> DEFINE n == Len(rets)
           g == Grown(x) + (IF x.op \in {"if", "while"} THEN 1 ELSE 0)
           new == [i \in 1..g |-> FALSE]
           rs2 == return_scopes'
<1>1. /\ x.op \in Nesting \cup {"var"} /\ rs2 = return_scopes \o new
      /\ open' = Opened(x.op, x.name) /\ x.name \in Name \cup Member \cup {None, "this"}
  BY DEF EnterStep, Opening, NodeType
<1>2. return_scopes \in Seq(BOOLEAN) /\ n = Len(return_scopes) /\ code \in Seq(NodeType) /\ n \in Nat
  BY ReturningIs DEF Base, ResolverTypes, WellFormed, Watched
<1>3. PICK e \in OpenType : open' = Append(Started, e)
  <2> DEFINE e == [op |-> x.op, name |-> x.name, at |-> Here, warned |-> FALSE]
  <2>1. e \in OpenType /\ Opened(x.op, x.name) = Append(Started, e)
    BY <1>1, OpenedIs
  <2> HIDE DEF e
  <2> QED BY <1>1, <2>1
<1>4. g = IF x.op \in Nesting THEN WidthOf(x) ELSE 0
  <2>1. x.op \notin Nesting => x.op \notin {"if", "while", "class"}
    BY DEF Nesting
  <2>2. x.op \in {"if", "while"} => x.op # "class"
    OBVIOUS
  <2> QED BY <2>1, <2>2 DEF Grown, WidthOf
<1>5. g \in Nat
  BY <1>4 DEF WidthOf
<1> HIDE DEF g
<1>6. Len(rs2) = n + g /\ \A i \in 1..n + g : rs2[i] => i \in 1..n /\ return_scopes[i]
  <2>1. new \in Seq(BOOLEAN) /\ Len(new) = g /\ \A i \in 1..g : new[i] = FALSE
    BY <1>5
  <2> HIDE DEF new
  <2>2. /\ Len(return_scopes \o new) = n + g
        /\ \A i \in 1..n + g : (return_scopes \o new)[i] = IF i <= n THEN return_scopes[i] ELSE new[i - n]
    BY <1>2, <2>1, ConcatProperties
  <2>3. \A i \in 1..n + g : (i <= n => i \in 1..n) /\ (~(i <= n) => i - n \in 1..g)
    BY <1>2, <1>5
  <2> QED BY <1>1, <2>1, <2>2, <2>3
<1>7. Solid(code, Started, return_scopes, rets)
  BY Solids
<1>8. /\ Started \in Seq(OpenType) /\ DOMAIN open' = 1..Len(open')
      /\ \A i \in 1..Len(Started) : i \in 1..Len(open') /\ open'[i] = Started[i]
  <2>1. open \in Seq(OpenType)
    BY DEF Base, ResolverTypes
  <2>2. Started \in Seq(OpenType)
    BY <2>1, StartedIs DEF Alike
  <2>3. /\ DOMAIN open' = 1..Len(Started) + 1 /\ Len(open') = Len(Started) + 1 /\ Len(Started) \in Nat
        /\ \A i \in 1..Len(Started) : open'[i] = Started[i]
    BY <1>3, <2>2, Appended
  <2> HIDE DEF n
  <2>4. \A i \in 1..Len(Started) : i \in 1..Len(open')
    BY <2>3
  <2> QED BY <2>2, <2>3, <2>4
<1>9. \E more : /\ Returning(Append(code, x), Here + 1, more) /\ Len(more) = n + g
                /\ \A k \in 1..n : more[k] = rets[k]
  <2>1. CASE x.op \in Nesting
    <3>1. LET more == rets \o ReturnsOf(x, Here) IN
          /\ Returning(Append(code, x), Here + 1, more)
          /\ Len(more) = Len(rets) + WidthOf(x) /\ \A k \in 1..Len(rets) : more[k] = rets[k]
      BY <2>1, ReturningOpen DEF Base, Here
    <3> QED BY <1>4, <2>1, <3>1
  <2>2. CASE x.op \notin Nesting
    <3>1. x.op \notin Nesting \cup {"end"}
      BY <1>1, <2>2
    <3>2. Returning(Append(code, x), Here + 1, rets)
      BY <3>1, ReturningPlain DEF Base, Here
    <3>3. n = n + g
      BY <1>2, <1>4, <2>2
    <3> QED BY <3>2, <3>3
  <2> QED BY <2>1, <2>2
<1>10. PICK more : /\ Returning(Append(code, x), Here + 1, more) /\ Len(more) = n + g
                   /\ \A k \in 1..n : more[k] = rets[k]
  BY <1>9
<1>11. DOMAIN more = 1..Len(more)
  BY <1>10, ReturningIs
<1> HIDE DEF rs2, n
<1>12. \A k \in 1..Len(more) : rs2[k] => k \in 1..n /\ return_scopes[k] /\ more[k] = rets[k]
  BY <1>6, <1>10
<1>13. Watched(Append(code, x), open', mid', rs2, more)
  <2>1. Len(more) = Len(rs2)
    BY <1>6, <1>10
  <2>2. \A i \in 1..Len(Started) : Started[i].warned =>
          i \in 1..Len(open') /\ open'[i].at = Started[i].at /\ open'[i].warned
    BY <1>8
  <2>3. \A k \in 1..Len(more) : rs2[k] => k \in 1..Len(rets) /\ return_scopes[k] /\ more[k] = rets[k]
    BY <1>12 DEF n
  <2> QED BY <1>2, <1>7, <1>8, <1>11, <2>1, <2>2, <2>3, WatchedKept, SMTT(30)
<1> QED BY <1>10, <1>13 DEF rs2

\* What was warned about stays so when a node follows.
LEMMA WarnedStays ==
  ASSUME NEW c, WellFormed(c), NEW x \in NodeType, WellFormed(Append(c, x)), NEW w, Warned(c, w)
  PROVE  Warned(Append(c, x), w)
<1> DEFINE d == Append(c, x)
           p == Len(c) + 1
<1>1. /\ c \in Seq(NodeType) /\ Len(c) \in Nat /\ p \in 1..Len(c) + 1 /\ p \in Nat
      /\ DOMAIN c = 1..Len(c) /\ DOMAIN d = 1..p /\ Len(d) = p
      /\ \A i \in 1..Len(c) : d[i] = c[i]
      /\ Encl(d, p + 1) \subseteq Encl(c, p) \cup {p}
  <2>1. /\ c \in Seq(NodeType) /\ Len(c) \in Nat /\ p \in 1..Len(c) + 1
        /\ DOMAIN c = 1..Len(c) /\ DOMAIN d = 1..p /\ Len(d) = p
        /\ \A i \in 1..Len(c) : d[i] = c[i]
        /\ x.op \notin Nesting \cup {"end"} => Encl(d, p + 1) = Encl(c, p)
        /\ x.op \in Nesting => Encl(d, p + 1) = Encl(c, p) \cup {p}
        /\ x.op = "end" => Encl(c, p) = Encl(c, x.at) \cup {x.at} /\ Encl(d, p + 1) = Encl(c, x.at)
    BY StepIs
  <2> HIDE DEF d, p
  <2> QED BY <2>1
<1>2. /\ \A n : \A q \in 1..p : Lexical(d, n, q) = Lexical(c, n, q)
      /\ \A q \in 1..Len(c) : UsesOf(d, q) = UsesOf(c, q)
  BY <1>1, TextAppend
<1>3. ASSUME w.about = "unreachable"
      PROVE  w.at \in 2..Len(d) /\ d[w.at - 1].op = "return"
  <2>1. w.at \in 2..Len(c) /\ c[w.at - 1].op = "return"
    BY <1>3 DEF Warned
  <2>2. w.at - 1 \in 1..Len(c) /\ w.at \in 2..Len(d)
    BY <1>1, <2>1
  <2> QED BY <1>1, <2>1, <2>2
<1>4. ASSUME w.about = "unused"
      PROVE  /\ w.at \in 1..Len(d) /\ w.at \notin Encl(d, Len(d) + 1)
             /\ \A q \in DOMAIN d : w.name \in UsesOf(d, q) => Lexical(d, w.name, q) # <<"body", w.at>>
  <2>1. /\ w.at \in 1..Len(c) /\ w.at \notin Encl(c, p)
        /\ \A q \in DOMAIN c : w.name \in UsesOf(c, q) => Lexical(c, w.name, q) # <<"body", w.at>>
    BY <1>4 DEF Warned
  <2>2. w.at # p /\ w.at \in 1..Len(d) /\ w.at \in Nat /\ w.at # 0
    BY <1>1, <2>1
  <2>3. w.at \notin Encl(d, Len(d) + 1)
    BY <1>1, <2>1, <2>2
  <2>4. Lexical(c, w.name, p) # <<"body", w.at>>
    BY <1>1, <2>1, <2>2, LexicalBinds
  <2>5. ASSUME NEW q \in DOMAIN d, w.name \in UsesOf(d, q)
        PROVE  Lexical(d, w.name, q) # <<"body", w.at>>
    <3>1. q \in 1..p
      BY <1>1
    <3>2. CASE q = p
      BY <1>2, <2>4, <3>1, <3>2
    <3>3. CASE q # p
      <4>1. q \in 1..Len(c)
        BY <1>1, <3>1, <3>3
      <4> QED BY <1>1, <1>2, <2>1, <2>5, <3>1, <4>1
    <3> QED BY <3>2, <3>3
  <2> QED BY <2>2, <2>3, <2>5
<1>5. Warned(d, w)
  BY <1>3, <1>4 DEF Warned
<1> QED BY <1>5 DEF d

\* What _resolve_statements warns about follows a return.
LEMMA DeadWarned ==
  ASSUME Base, NEW x \in NodeType, WellFormed(Append(code, x)),
         NEW rets, Returning(code, Here, rets), Watched(code, open, mid, return_scopes, rets),
         NEW w \in DeadHere
  PROVE  Warned(Append(code, x), w)
<1> DEFINE d == Append(code, x)
           p == Len(code) + 1
           n == Len(rets)
<1>1. Dead /\ w = [about |-> "unreachable", at |-> p, name |-> None]
  BY DEF DeadHere, Here
<1>2. /\ WellFormed(code) /\ code \in Seq(NodeType) /\ Len(code) \in Nat /\ p \in 1..Len(code) + 1
      /\ DOMAIN code = 1..Len(code) /\ Len(d) = p /\ \A i \in 1..Len(code) : d[i] = code[i]
  BY StepIs DEF Base
<1>3. open \in Seq(OpenType) /\ DOMAIN open = 1..Len(open) /\ Len(open) \in Nat /\ Linked(code, open)
      /\ return_scopes \in Seq(BOOLEAN) /\ return_scopes # <<>>
  BY LenProperties DEF Base, ResolverTypes
<1>4. AtStatement /\ Last(return_scopes) /\ open # <<>> /\ ~Last(open).warned
  BY <1>1 DEF Dead
<1>5. n \in Nat /\ n # 0 /\ n = Len(return_scopes) /\ rets[n] = TopReturn(code, p) /\ DOMAIN rets = 1..n
  BY ReturningIs DEF Watched, Here
<1>6. Last(return_scopes) = return_scopes[n] /\ Last(open) = open[Len(open)] /\ Len(open) \in 1..Len(open)
  <2>1. Last(return_scopes) = return_scopes[Len(return_scopes)]
    BY <1>3, FrontIs
  <2>2. Last(open) = open[Len(open)] /\ Len(open) \in Nat \ {0}
    BY <1>3, <1>4, FrontIs
  <2>3. \A m \in Nat \ {0} : m \in 1..m
    OBVIOUS
  <2> QED BY <1>5, <2>1, <2>2, <2>3
<1>7. Inner = Last(open).op /\ Last(open).op \notin {"var", "class"}
  BY <1>4 DEF AtStatement, Inner
<1>8. Encl(code, p) # {} /\ Inmost(code, p) = Last(open).at
  BY <1>2, <1>3, <1>4, <1>7, InnerIs
<1>9. rets[n][2] = Last(open).at
  BY <1>5, <1>8 DEF TopReturn
<1> HIDE DEF n, d, p
<1>10. PICK i \in 1..Len(open) : /\ open[i].at = rets[n][2]
                                 /\ open[i].warned \/ (i = Len(open) /\ code[Len(code)].op = "return" /\ ~mid)
  <2>1. n \in DOMAIN rets /\ return_scopes[n]
    <3>1. \A m \in Nat : m # 0 => m \in 1..m
      OBVIOUS
    <3> QED BY <1>4, <1>5, <1>6, <3>1
  <2> QED BY <1>3, <2>1 DEF Watched
<1>11. i = Len(open)
  <2>1. i < Len(open) => open[i].at < open[Len(open)].at
    <3> SUFFICES ASSUME i < Len(open) PROVE open[i].at < open[Len(open)].at
      OBVIOUS
    <3>1. i \in 1..Len(open) - 1 /\ Len(open) \in DOMAIN open
      BY <1>3, <1>6
    <3> QED BY <1>3, <3>1 DEF Linked
  <2>2. open[i].at = open[Len(open)].at
    BY <1>6, <1>9, <1>10
  <2>3. open[i].at \in Nat
    <3>1. open[i] \in OpenType
      BY <1>3, ElementOfSeq
    <3> QED BY <3>1 DEF OpenType
  <2>4. ~(i < Len(open))
    BY <2>1, <2>2, <2>3
  <2>5. \A m \in Nat : \A h \in 1..m : ~(h < m) => h = m
    OBVIOUS
  <2> QED BY <1>3, <2>4, <2>5
<1>12. code[Len(code)].op = "return"
  BY <1>4, <1>6, <1>10, <1>11
<1>13. Len(code) \in 1..Len(code) /\ p \in 2..p /\ p - 1 = Len(code)
  <2>1. Encl(code, p) \in SUBSET (1..p - 1)
    BY <1>2, EnclIs DEF p
  <2>2. Len(code) # 0
    BY <1>2, <1>8, <2>1 DEF p
  <2> QED BY <1>2, <2>2 DEF p
<1>14. Warned(d, w)
  BY <1>1, <1>2, <1>12, <1>13 DEF Warned
<1> QED BY <1>14 DEF d

\* What _end_scope warns about is not looked up from anywhere.
LEMMA UnusedWarned ==
  ASSUME Base, NEW k, NEW r, CloseStep(k, r), NEW ids, Shaped(code, Here, ids), Named(code, Here, scopes, ids),
         NEW w \in Unused(Last(scopes), Last(open).at)
  PROVE  Warned(Append(code, EndNode), w)
<1> DEFINE d == Append(code, EndNode)
           p == Len(code) + 1
           L == Len(ids)
           j == Last(open).at
<1>1. /\ EndNode \in NodeType /\ WellFormed(code) /\ WellFormed(d) /\ code' = d
      /\ Inmost(code, p) = j /\ Encl(code, p) # {}
  BY CloseIs DEF Here
<1>2. EndNode.op = "end" /\ EndNode.at = j
  BY DEF EndNode
<1>3. /\ code \in Seq(NodeType) /\ Len(code) \in Nat /\ p \in 1..Len(code) + 1 /\ p \in Nat
      /\ DOMAIN code = 1..Len(code) /\ DOMAIN d = 1..p /\ Len(d) = p
      /\ d[p] = EndNode
      /\ j \in 1..Len(code) /\ j \notin Encl(code, j) /\ Encl(d, p + 1) = Encl(code, j)
  BY <1>1, <1>2, StepIs
<1>4. /\ \A n : \A q \in 1..p : Lexical(d, n, q) = Lexical(code, n, q)
      /\ \A q \in 1..Len(code) : UsesOf(d, q) = UsesOf(code, q)
  BY <1>1, <1>3, TextAppend
<1>5. L \in Nat /\ 1 \in 1..L /\ L \in 1..L /\ DOMAIN ids = 1..L /\ ids[L] = ScopeAt(code, j)
  <2>1. /\ Breadth(code[EndNode.at]) \in 1..Len(ids) /\ Len(ids) \in Nat
        /\ ids[Len(ids)] = ScopeAt(code, EndNode.at)
    BY <1>1, <1>2, ShapeClose DEF Here
  <2>2. DOMAIN ids = 1..L
    BY LenProperties DEF Shaped
  <2> QED BY <1>2, <2>1, <2>2
<1>6. L = Len(scopes) /\ Last(scopes) = scopes[L]
  <2>1. Len(scopes) = L /\ scopes \in Seq(ScopeTypes)
    BY DEF Named, Base, ResolverTypes
  <2>2. scopes # <<>>
    BY <1>5, <2>1, EmptySeq
  <2> QED BY <2>1, <2>2, FrontIs
<1>7. w.about = "unused" /\ w.at = j /\ w.name \in DOMAIN scopes[L] /\ ~scopes[L][w.name].accessed
  BY <1>6 DEF Unused
<1>8. \A q \in 1..p - 1 : w.name \in UsesOf(code, q) => Lexical(code, w.name, q) # ids[L]
  BY <1>5, <1>7 DEF Named, Here
<1>9. ASSUME NEW q \in 1..p, w.name \in UsesOf(d, q)
      PROVE  Lexical(d, w.name, q) # <<"body", j>>
  <2>1. CASE q = p
    <3>1. UsesOf(d, p) = {}
      <4>1. d[p].op \notin {"variable", "assign", "this"} /\ d[p].op # "super" /\ d[p].op # "class"
        BY <1>2, <1>3
      <4> QED BY <4>1 DEF UsesOf
    <3> QED BY <1>9, <2>1, <3>1
  <2>2. CASE q # p
    <3>1. q \in 1..p - 1 /\ q \in 1..Len(code) /\ q \in 1..Len(code) + 1
      BY <1>3, <2>2
    <3>2. w.name \in UsesOf(code, q) /\ Lexical(d, w.name, q) = Lexical(code, w.name, q)
      BY <1>4, <1>9, <3>1
    <3>3. Lexical(code, w.name, q) # ids[L]
      BY <1>8, <3>1, <3>2
    <3>4. CASE code[j].op # "class"
      <4>1. ids[L] = <<"body", j>>
        BY <1>5, <3>4 DEF ScopeAt
      <4> QED BY <3>2, <3>3, <4>1
    <3>5. CASE code[j].op = "class"
      <4> SUFFICES ASSUME Lexical(code, w.name, q) = <<"body", j>> PROVE FALSE
        BY <3>2
      <4>1. j \in Nat /\ j # 0
        BY <1>3
      <4> DEFINE n == w.name
                 kind == "body"
      <4> HIDE DEF n, kind, j
      <4>a. Lexical(code, n, q) = <<kind, j>>
        BY DEF n, kind
      <4>b. kind = (IF n \in Special THEN n ELSE "body") /\ Binds(code, j, n, q)
        BY <1>1, <3>1, <4>1, <4>a, LexicalBinds
      <4>2. Binds(code, j, w.name, q) /\ "body" = (IF w.name \in Special THEN w.name ELSE "body")
        BY <4>b DEF n, kind
      <4>3. w.name # "this" /\ w.name # "super"
        BY <4>2 DEF Special
      <4> QED BY <3>5, <4>2, <4>3 DEF Binds
    <3> QED BY <3>4, <3>5
  <2> QED BY <2>1, <2>2
<1>10. j \in 1..Len(d) /\ j \notin Encl(d, Len(d) + 1)
  BY <1>3
<1> HIDE DEF d
<1>11. Warned(d, w)
  BY <1>3, <1>7, <1>9, <1>10 DEF Warned
<1> QED BY <1>11 DEF d

\* What was accepted of a node stays so when a node follows.
LEMMA SoundStays ==
  ASSUME NEW c, WellFormed(c), NEW x \in NodeType, WellFormed(Append(c, x)), NEW q \in 1..Len(c),
         NEW ls, NEW more, Sound(c, ls, q), q \in DOMAIN more <=> q \in DOMAIN ls,
         q \in DOMAIN ls => more[q] = ls[q]
  PROVE  Sound(Append(c, x), more, q)
<1> DEFINE d == Append(c, x)
<1>1. /\ c \in Seq(NodeType) /\ Len(c) \in Nat /\ q \in 1..Len(c) + 1
      /\ \A i \in 1..Len(c) : d[i] = c[i]
  BY StepIs
<1>2. /\ \A n : Lexical(d, n, q) = Lexical(c, n, q)
      /\ UsesOf(d, q) = UsesOf(c, q) /\ Encl(d, q) = Encl(c, q)
  BY <1>1, TextAppend, EnclAppend
<1>3. \A j \in Encl(c, q) : j \in 1..Len(c)
  BY <1>1, EnclIs
<1>4. \A n \in UsesOf(d, q) : ResolvedAt(d, more, q, n)
  <2>1. \A n \in UsesOf(c, q) : ResolvedAt(c, ls, q, n)
    BY DEF Sound
  <2> QED BY <1>2, <2>1, ResolvedBefore
<1> HIDE DEF d
<1>5. d[q].op = "return" => \E j \in Encl(d, q) : d[j].op \in Bodies
  <2>1. c[q].op = "return" => \E j \in Encl(c, q) : c[j].op \in Bodies
    BY DEF Sound
  <2> QED BY <1>1, <1>2, <1>3, <2>1
<1>6. d[q].op = "super" => Lexical(d, "super", q) # Outside
  BY <1>1, <1>2 DEF Sound
<1>7. Sound(d, more, q)
  BY <1>4, <1>5, <1>6 DEF Sound
<1> QED BY <1>7 DEF d

\* What the resolver has accepted of the nodes, the one that it has just visited included.
LEMMA SoundNext ==
  ASSUME Base, NEW x \in NodeType, Suits(code, x), WellFormed(Append(code, x)),
         \A q \in DOMAIN code : Sound(code, locals, q),
         NEW ids, Shaped(code, Here, ids), Named(code, Here, scopes, ids), NEW t, Marking(x, t),
         x.op = "return" => \E j \in Encl(code, Here) : code[j].op \in Bodies,
         x.op = "super" => \E j \in Encl(code, Here) : code[j].op = "class" /\ code[j].arg # {}
  PROVE  \A q \in DOMAIN Append(code, x) : Sound(Append(code, x), locals', q)
<1> DEFINE d == Append(code, x)
           p == Len(code) + 1
<1>1. /\ WellFormed(code) /\ code \in Seq(NodeType) /\ Len(code) \in Nat /\ p \in 1..Len(code) + 1
      /\ DOMAIN code = 1..Len(code) /\ DOMAIN d = 1..p /\ d[p] = x
      /\ \A i \in 1..Len(code) : d[i] = code[i]
  BY StepIs DEF Base
<1>2. /\ \A n : Lexical(d, n, p) = Lexical(code, n, p)
      /\ Encl(d, p) = Encl(code, p) /\ UsesOf(d, p) = Used(x)
  <2>1. UsesOf(d, p) = Used(x)
    BY <1>1, DeclaredNext
  <2>2. Encl(d, p) = Encl(code, p)
    BY <1>1, EnclAppend
  <2> QED BY <1>1, <2>1, <2>2, TextAppend
<1>3. \A j \in Encl(code, p) : j \in 1..Len(code)
  BY <1>1, EnclIs
<1>4. \A q \in 1..Len(code) : (q \in DOMAIN locals' <=> q \in DOMAIN locals)
                              /\ (q \in DOMAIN locals => locals'[q] = locals[q])
  <2>1. locals' = locals \/ \E m : locals' = Updated(locals, Here, m)
    BY DEF Marking
  <2>2. \A q \in 1..Len(code) : q # Here
    BY <1>1 DEF Here
  <2> QED BY <2>1, <2>2 DEF Updated
<1>5. \A n \in Used(x) : n \in Name \cup Special
  BY DEF Used, Suits, Special
<1>6. \A n \in UsesOf(d, p) : ResolvedAt(d, locals', p, n)
  BY <1>2, <1>5, ResolvedHere DEF Here
<1>7. d[p].op = "super" => Lexical(d, "super", p) # Outside
  <2> SUFFICES ASSUME x.op = "super" PROVE Lexical(code, "super", p) # Outside
    BY <1>1, <1>2
  <2>1. PICK j \in Encl(code, p) : code[j].op = "class" /\ code[j].arg # {}
    BY DEF Here
  <2>2. Binds(code, j, "super", p)
    BY <2>1 DEF Binds
  <2>3. {i \in Encl(code, p) : Binds(code, i, "super", p)} # {}
    BY <2>2
  <2>4. Lexical(code, "super", p) = <<"super", Max({i \in Encl(code, p) : Binds(code, i, "super", p)})>>
    BY <2>3 DEF Lexical, Special
  <2> HIDE DEF p
  <2>5. \A m : <<"super", m>> # Outside
    BY DEF Outside
  <2> QED BY <2>4, <2>5
<1>8. d[p].op = "return" => \E j \in Encl(d, p) : d[j].op \in Bodies
  BY <1>1, <1>2, <1>3 DEF Here
<1>9. Sound(d, locals', p)
  BY <1>6, <1>7, <1>8 DEF Sound
<1>10. \A q \in 1..Len(code) : Sound(d, locals', q)
  BY <1>1, <1>4, SoundStays
<1>11. \A q \in 1..p : q = p \/ q \in 1..Len(code)
  BY <1>1
<1> QED BY <1>1, <1>9, <1>10, <1>11

\* What a node that holds no other adds to what is accepted.
LEMMA AcceptedLeaf ==
  ASSUME Base, Accepted, NEW x \in NodeType, Suits(code, x), LeafStep(x), ~had_error'
  PROVE  Accepted'
<1> DEFINE d == Append(code, x)
<1>1. /\ code' = d /\ class_scopes' = class_scopes /\ x.op \in Leaves
      /\ \A w \in warnings' : w \in warnings \/ w \in DeadHere
  BY DEF LeafStep, enclosing
<1>2. WellFormed(code) /\ code \in Seq(NodeType) /\ WellFormed(d) /\ Here' = Here + 1 /\ Here = Len(code) + 1
  <2>1. WellFormed(code) /\ WellFormed(d)
    BY WellFormedNext DEF Base
  <2>2. code \in Seq(NodeType) /\ Len(d) = Len(code) + 1
    BY <2>1, StepIs
  <2> QED BY <1>1, <2>1, <2>2 DEF Here
<1>3. x.op \notin Nesting \cup {"end", "class"}
  BY <1>1 DEF Leaves, Nesting, Bodies
<1>4. PICK ids : Shaped(code, Here, ids) /\ Named(code, Here, scopes, ids)
  BY DEF Accepted
<1>5. PICK classes : Classed(code, Here, class_scopes, classes)
  BY DEF Accepted
<1>6. PICK rets : Returning(code, Here, rets) /\ Watched(code, open, mid, return_scopes, rets)
  BY DEF Accepted
<1>7. Marking(x, scopes')
  BY LeafMarks
<1> HIDE DEF d
<1>8. \A q \in DOMAIN d : Sound(d, locals', q)
  <2>1. x.op = "return" => \E j \in Encl(code, Here) : code[j].op \in Bodies
    <3> SUFFICES ASSUME x.op = "return" PROVE \E j \in Encl(code, Here) : code[j].op \in Bodies
      OBVIOUS
    <3>1. Last(function_scopes) # "NONE"
      BY DEF LeafStep
    <3>2. Len(function_scopes) = 1 + Tally(open, Bodies)
      BY CountsAre DEF Base
    <3>3. function_scopes \in Seq(FunctionTypes) /\ function_scopes # <<>> /\ function_scopes[1] = "NONE"
      BY DEF Base, ResolverTypes, FunctionTypes
    <3>4. Last(function_scopes) = function_scopes[Len(function_scopes)]
      BY <3>3, FrontIs
    <3>5. Tally(open, Bodies) # 0
      BY <3>1, <3>2, <3>3, <3>4
    <3>6. PICK i \in DOMAIN open : open[i].op \in Bodies
      BY <3>5, FS_EmptySet DEF Tally
    <3>7. open \in Seq(OpenType) /\ Linked(code, open)
      BY DEF Base, ResolverTypes
    <3>8. code[open[i].at].op = open[i].op /\ Encl(code, Here) = OpenHolds(open, Len(open))
      BY <3>7 DEF Linked, Here
    <3>9. open[i].at \in OpenHolds(open, Len(open))
      <4>1. i \in 1..Len(open) /\ open[i].op # "var"
        BY <3>6, <3>7, LenProperties DEF Bodies
      <4> QED BY <4>1 DEF OpenHolds
    <3> QED BY <3>6, <3>8, <3>9
  <2>2. x.op = "super" => \E j \in Encl(code, Here) : code[j].op = "class" /\ code[j].arg # {}
    <3> SUFFICES ASSUME x.op = "super"
                 PROVE  \E j \in Encl(code, Here) : code[j].op = "class" /\ code[j].arg # {}
      OBVIOUS
    <3>1. Last(class_scopes) = "SUBCLASS"
      BY DEF LeafStep
    <3>2. class_scopes \in Seq(ClassKinds) /\ class_scopes[1] = "NONE"
      BY DEF Base, ResolverTypes, ClassKinds
    <3>3. Here \in 1..Len(code) + 1
      BY <1>2, LenProperties
    <3> QED BY <1>2, <1>5, <3>1, <3>2, <3>3, ClassTop
  <2>3. \A q \in DOMAIN code : Sound(code, locals, q)
    BY DEF Accepted
  <2> QED BY <1>2, <1>4, <1>7, <2>1, <2>2, <2>3, SoundNext DEF d
<1>9. Shaped(d, Here + 1, ids)
  BY <1>2, <1>3, <1>4, ShapePlain DEF d, Here
<1>10. Named(d, Here + 1, scopes', ids)
  BY <1>2, <1>4, <1>7, NamedMark DEF d
<1>11. \E more : Classed(d, Here + 1, class_scopes, more)
  <2>1. class_scopes \in Seq(ClassKinds)
    BY DEF Base, ResolverTypes, ClassKinds
  <2> QED BY <1>2, <1>3, <1>5, <2>1, ClassedNext DEF d
<1>12. Returning(d, Here + 1, rets)
  BY <1>2, <1>3, <1>6, ReturningPlain DEF d
<1>13. Watched(d, open', mid', return_scopes', rets)
  BY <1>2, <1>6, WatchedLeaf DEF d
<1>14. \A w \in warnings' : Warned(d, w)
  <2>1. \A w \in warnings : Warned(d, w)
    BY <1>2, WarnedStays DEF Accepted, d
  <2>2. \A w \in DeadHere : Warned(d, w)
    BY <1>2, <1>6, DeadWarned DEF d
  <2> QED BY <1>1, <2>1, <2>2
<1> QED BY <1>1, <1>2, <1>8, <1>9, <1>10, <1>11, <1>12, <1>13, <1>14 DEF Accepted

\* _define keeps what is accepted.
LEMMA AcceptedDefine ==
  ASSUME Base, Accepted, VarDefined
  PROVE  Accepted'
<1> DEFINE x == [op |-> "define", name |-> Last(open).name, arg |-> {}, at |-> Last(open).at]
           d == Append(code, x)
<1>1. x \in NodeType /\ Suits(code, x) /\ code' = d
  BY BaseDefine
<1>2. /\ scopes' = Defined(scopes, Last(open).name) /\ UNCHANGED <<enclosing, return_scopes, locals, warnings>>
      /\ x.op = "define"
  BY DEF VarDefined
<1>3. WellFormed(code) /\ code \in Seq(NodeType) /\ WellFormed(d) /\ Here' = Here + 1 /\ Here = Len(code) + 1
  <2>1. WellFormed(code) /\ WellFormed(d)
    BY <1>1, WellFormedNext DEF Base
  <2>2. code \in Seq(NodeType) /\ Len(d) = Len(code) + 1
    BY <1>1, <2>1, StepIs
  <2> QED BY <1>1, <2>1, <2>2 DEF Here
<1>4. Marking(x, scopes')
  BY <1>2, EndMarks
<1> HIDE DEF x, d
<1>5. x.op \notin Nesting \cup {"end", "class"}
  BY <1>2 DEF Nesting, Bodies
<1>6. PICK ids : Shaped(code, Here, ids) /\ Named(code, Here, scopes, ids)
  BY DEF Accepted
<1>7. PICK classes : Classed(code, Here, class_scopes, classes)
  BY DEF Accepted
<1>8. PICK rets : Returning(code, Here, rets) /\ Watched(code, open, mid, return_scopes, rets)
  BY DEF Accepted
<1>9. \A q \in DOMAIN d : Sound(d, locals', q)
  <2>1. \A q \in DOMAIN code : Sound(code, locals, q)
    BY DEF Accepted
  <2>2. x.op # "return" /\ x.op # "super"
    BY <1>2
  <2> QED BY <1>1, <1>3, <1>4, <1>6, <2>1, <2>2, SoundNext DEF d
<1>10. Shaped(d, Here + 1, ids) /\ Named(d, Here + 1, scopes', ids)
  <2>1. Shaped(d, Here + 1, ids)
    BY <1>1, <1>3, <1>5, <1>6, ShapePlain DEF d, Here
  <2> QED BY <1>1, <1>3, <1>4, <1>6, <2>1, NamedMark DEF d
<1>11. class_scopes' = class_scopes /\ \E more : Classed(d, Here + 1, class_scopes, more)
  <2>1. class_scopes \in Seq(ClassKinds) /\ class_scopes' = class_scopes
    BY <1>2 DEF Base, ResolverTypes, ClassKinds, enclosing
  <2> QED BY <1>1, <1>3, <1>5, <1>7, <2>1, ClassedNext DEF d
<1>12. Returning(d, Here + 1, rets) /\ Watched(d, open', mid', return_scopes', rets)
  <2>1. Returning(d, Here + 1, rets)
    BY <1>1, <1>3, <1>5, <1>8, ReturningPlain DEF d
  <2> QED BY <1>1, <1>8, <2>1, WatchedDefine DEF d
<1>13. \A w \in warnings' : Warned(d, w)
  BY <1>1, <1>2, <1>3, WarnedStays DEF Accepted, d
<1> QED BY <1>1, <1>3, <1>9, <1>10, <1>11, <1>12, <1>13 DEF Accepted

\* What a node that opens scopes adds to what is accepted.
LEMMA AcceptedOpen ==
  ASSUME Base, Accepted, NEW x \in NodeType, Suits(code, x), NEW t \in FunctionTypes, EnterStep(x, t),
         ~had_error'
  PROVE  Accepted'
<1> DEFINE d == Append(code, x)
<1>1. /\ code' = d /\ x.op \in Nesting \cup {"var"} /\ Opening(x) /\ Stacked(x, t)
      /\ \A w \in warnings' : w \in warnings \/ w \in DeadHere
  BY DEF EnterStep, Opening
<1>2. WellFormed(code) /\ code \in Seq(NodeType) /\ WellFormed(d) /\ Here' = Here + 1 /\ Here = Len(code) + 1
  <2>1. WellFormed(code) /\ WellFormed(d)
    BY WellFormedNext DEF Base
  <2>2. code \in Seq(NodeType) /\ Len(d) = Len(code) + 1
    BY <2>1, StepIs
  <2> QED BY <1>1, <2>1, <2>2 DEF Here
<1>3. x.op # "end" /\ (x.op \notin Nesting => x.op = "var" /\ x.op # "class")
  BY <1>1 DEF Nesting, Bodies
<1>4. PICK ids : Shaped(code, Here, ids) /\ Named(code, Here, scopes, ids)
  BY DEF Accepted
<1>5. PICK classes : Classed(code, Here, class_scopes, classes)
  BY DEF Accepted
<1>6. PICK rets : Returning(code, Here, rets) /\ Watched(code, open, mid, return_scopes, rets)
  BY DEF Accepted
<1>7. PICK ss \in Seq(ScopeTypes) : scopes' = ss \o NewScopes(x) /\ Marking(x, ss)
  BY <1>1 DEF Opening
<1> HIDE DEF d
<1>8. \A q \in DOMAIN d : Sound(d, locals', q)
  <2>1. x.op # "return" /\ x.op # "super"
    BY <1>1 DEF Nesting, Bodies
  <2>2. \A q \in DOMAIN code : Sound(code, locals, q)
    BY DEF Accepted
  <2> QED BY <1>2, <1>4, <1>7, <2>1, <2>2, SoundNext DEF d
<1>9. Named(d, Here + 1, ss, ids)
  BY <1>2, <1>4, <1>7, NamedMark DEF d
<1>10. \E more : Shaped(d, Here + 1, more) /\ Named(d, Here + 1, scopes', more)
  <2>1. CASE x.op \in Nesting
    <3>1. Shaped(d, Here + 1, ids \o ScopesOf(x, Here))
      BY <1>2, <1>4, <2>1, ShapeOpen DEF d, Here
    <3>2. ids \in Seq(Kinds \X Nat)
      BY <1>4 DEF Shaped, Kinds
    <3>3. x.op \in Bodies => x.arg \subseteq Name
      BY DEF Suits
    <3>4. Named(d, Here + 1, ss \o NewScopes(x), ids \o ScopesOf(x, Here))
      BY <1>2, <1>9, <2>1, <3>2, <3>3, NamedPush DEF d, Here
    <3> QED BY <1>7, <3>1, <3>4
  <2>2. CASE x.op \notin Nesting
    <3>1. Shaped(d, Here + 1, ids)
      BY <1>2, <1>3, <1>4, <2>2, ShapePlain DEF d, Here
    <3>2. NewScopes(x) = <<>>
      <4>1. x.op = "var" /\ x.op \notin Bodies /\ x.op # "class"
        BY <1>3, <2>2 DEF Bodies
      <4> QED BY <4>1 DEF NewScopes
    <3>3. scopes' = ss
      BY <1>7, <3>2, ConcatEmptySeq
    <3> QED BY <1>9, <3>1, <3>3
  <2> QED BY <2>1, <2>2
<1>11. \E more : Classed(d, Here + 1, class_scopes', more)
  <2>1. class_scopes \in Seq(ClassKinds)
    BY DEF Base, ResolverTypes, ClassKinds
  <2>2. x.op = "class" => class_scopes' = Append(class_scopes, IF x.arg = {} THEN "CLASS" ELSE "SUBCLASS")
    BY <1>1 DEF Stacked
  <2>3. x.op # "class" => class_scopes' = class_scopes
    BY <1>1 DEF Stacked
  <2>4. x.op = "class" =>
          \E more : Classed(d, Here + 1, Append(class_scopes, IF x.arg = {} THEN "CLASS" ELSE "SUBCLASS"), more)
    BY <1>2, <1>5, <2>1, ClassedNext DEF d
  <2>5. x.op # "class" => \E more : Classed(d, Here + 1, class_scopes, more)
    BY <1>2, <1>3, <1>5, <2>1, ClassedNext DEF d
  <2> QED BY <2>2, <2>3, <2>4, <2>5
<1>12. \E more : Returning(d, Here + 1, more) /\ Watched(d, open', mid', return_scopes', more)
  BY <1>2, <1>6, WatchedOpen DEF d
<1>13. \A w \in warnings' : Warned(d, w)
  <2>1. \A w \in warnings : Warned(d, w)
    BY <1>2, WarnedStays DEF Accepted, d
  <2>2. \A w \in DeadHere : Warned(d, w)
    BY <1>2, <1>6, DeadWarned DEF d
  <2> QED BY <1>1, <2>1, <2>2
<1> QED BY <1>1, <1>2, <1>8, <1>10, <1>11, <1>12, <1>13 DEF Accepted

\* The end of a construct warns of the names that its scope has left unused.
CloseWarns ==
  \A w \in warnings' : \/ w \in warnings \/ w \in Unused(Last(scopes), Last(open).at)
                       \/ w.about = "getter"

\* The ends add no other warnings.
LEMMA ClosesWarn ==
  EndBlock \/ EndFunction \/ EndClass => CloseWarns
<1>1. ASSUME NEW k, NEW r, NEW more, Close(k, r, more), \A w \in more : w.about = "getter"
      PROVE  CloseWarns
  BY <1>1 DEF Close, CloseWarns
<1>2. EndBlock => CloseWarns
  <2>1. EndBlock => \E r : Close(1, r, {})
    BY DEF EndBlock
  <2> QED BY <1>1, <2>1
<1>3. EndFunction => CloseWarns
  <2> DEFINE more == IF Last(function_scopes) = "GETTER" /\ ~Last(return_scopes)
                     THEN {[about |-> "getter", at |-> Last(open).at, name |-> Last(open).name]} ELSE {}
  <2>1. EndFunction => Close(1, 1, more)
    BY DEF EndFunction
  <2>2. \A w \in more : w.about = "getter"
    OBVIOUS
  <2> HIDE DEF more
  <2> QED BY <1>1, <2>1, <2>2
<1>4. EndClass => CloseWarns
  <2>1. EndClass => \E both : Close(both, both, {})
    BY DEF EndClass
  <2> QED BY <1>1, <2>1
<1> QED BY <1>2, <1>3, <1>4

\* The end of a construct keeps what is accepted.
LEMMA AcceptedClose ==
  ASSUME Base, Accepted, NEW k, NEW r, CloseStep(k, r), CloseWarns
  PROVE  Accepted'
<1> DEFINE x == EndNode
           d == Append(code, EndNode)
           j == Last(open).at
<1>1. /\ open # <<>> /\ Last(open).op = Inner /\ x \in NodeType /\ Suits(code, x)
      /\ code[j].op = Inner /\ WellFormed(code) /\ WellFormed(d) /\ code' = d
  BY CloseIs
<1>2. /\ scopes' = SubSeq(scopes, 1, Len(scopes) - k) /\ UNCHANGED locals
      /\ class_scopes' = IF Inner = "class" THEN Front(class_scopes) ELSE class_scopes
      /\ x.op = "end" /\ x.at = j
  BY DEF CloseStep, EndNode
<1>3. code \in Seq(NodeType) /\ Here' = Here + 1 /\ Here = Len(code) + 1 /\ Len(code) \in Nat
  <2>1. code \in Seq(NodeType) /\ Len(d) = Len(code) + 1 /\ Len(code) \in Nat
    BY <1>1, StepIs
  <2> QED BY <1>1, <2>1 DEF Here
<1>4. PICK ids : Shaped(code, Here, ids) /\ Named(code, Here, scopes, ids)
  BY DEF Accepted
<1>5. PICK classes : Classed(code, Here, class_scopes, classes)
  BY DEF Accepted
<1>6. PICK rets : Returning(code, Here, rets) /\ Watched(code, open, mid, return_scopes, rets)
  BY DEF Accepted
<1>7. Marking(x, scopes)
  BY <1>2, EndMarks
<1>8. k = Breadth(code[j])
  BY <1>5, CloseWidths
<1> HIDE DEF d, x, j
<1>9. \A q \in DOMAIN d : Sound(d, locals', q)
  <2>1. x.op # "return" /\ x.op # "super"
    BY <1>2
  <2>2. \A q \in DOMAIN code : Sound(code, locals, q)
    BY DEF Accepted
  <2>3. WellFormed(Append(code, x)) /\ d = Append(code, x)
    BY <1>1 DEF d, x
  <2> QED BY <1>1, <1>4, <1>7, <2>1, <2>2, <2>3, SoundNext
<1>10. \E more : Shaped(d, Here + 1, more) /\ Named(d, Here + 1, scopes', more)
  <2>0. WellFormed(Append(code, x)) /\ d = Append(code, x)
    BY <1>1 DEF d, x
  <2>1. k \in 1..Len(ids) /\ Len(ids) \in Nat /\ Shaped(d, Here + 1, SubSeq(ids, 1, Len(ids) - k))
    BY <1>1, <1>2, <1>3, <1>4, <1>8, <2>0, ShapeClose
  <2>2. Named(d, Here + 1, scopes, ids)
    BY <1>1, <1>4, <1>7, <2>0, NamedMark
  <2>3. Named(d, Here + 1, SubSeq(scopes, 1, Len(scopes) - k), SubSeq(ids, 1, Len(ids) - k))
    <3>1. scopes \in Seq(ScopeTypes) /\ ids \in Seq(Kinds \X Nat)
      BY <1>4 DEF Base, ResolverTypes, Shaped, Kinds
    <3>2. Here + 1 \in Nat /\ k \in 0..Len(ids)
      BY <1>3, <2>1
    <3> QED BY <2>2, <3>1, <3>2, NamedPop
  <2> QED BY <1>2, <2>1, <2>3
<1>11. \E more : Classed(d, Here + 1, class_scopes', more)
  <2>1. class_scopes \in Seq(ClassKinds)
    BY DEF Base, ResolverTypes, ClassKinds
  <2>2. WellFormed(Append(code, x)) /\ d = Append(code, x)
    BY <1>1 DEF d, x
  <2>3. Inner # "class" => \E more : Classed(d, Here + 1, class_scopes, more)
    BY <1>1, <1>2, <1>3, <1>5, <2>1, <2>2, ClassedNext
  <2>4. Inner = "class" => \E more : Classed(d, Here + 1, Front(class_scopes), more)
    BY <1>1, <1>2, <1>3, <1>5, <2>1, <2>2, ClassedNext
  <2> QED BY <1>2, <2>3, <2>4
<1>12. \E more : Returning(d, Here + 1, more) /\ Watched(d, open', mid', return_scopes', more)
  BY <1>5, <1>6, WatchedClose DEF d
<1>13. \A w \in warnings' : Warned(d, w)
  <2>1. \A w \in warnings : Warned(d, w)
    BY <1>1, WarnedStays DEF Accepted, d, x
  <2>2. \A w \in Unused(Last(scopes), Last(open).at) : Warned(d, w)
    BY <1>4, UnusedWarned DEF d
  <2>3. \A w : w.about = "getter" => Warned(d, w)
    BY DEF Warned
  <2> QED BY <2>1, <2>2, <2>3 DEF CloseWarns
<1> QED BY <1>1, <1>3, <1>9, <1>10, <1>11, <1>12, <1>13 DEF Accepted

-----------------------------------------------------------------------------
(* The invariant *)

\* Nothing has been visited yet.
LEMMA ResolverStarts ==
  ResolverInit => ResolverInv
<1> SUFFICES ASSUME ResolverInit PROVE ResolverInv
  OBVIOUS
<1>1. /\ code = <<>> /\ open = <<>> /\ mid = FALSE
      /\ scopes = <<>> /\ loop_scopes = <<"NONE">> /\ function_scopes = <<"NONE">>
      /\ class_scopes = <<"NONE">> /\ return_scopes = <<FALSE>>
      /\ locals = <<>> /\ warnings = {} /\ had_error = FALSE
  BY DEF ResolverInit
<1>2. /\ Len(code) = 0 /\ DOMAIN code = {} /\ Len(open) = 0 /\ DOMAIN open = {} /\ DOMAIN locals = {}
      /\ Len(scopes) = 0 /\ Here = 1
  BY <1>1 DEF Here
<1>3. Encl(code, 1) = {}
  BY DEF Encl
<1>4. ResolverTypes
  <2>1. code \in Seq(NodeType) /\ open \in Seq(OpenType) /\ scopes \in Seq(ScopeTypes)
    BY <1>1, EmptySeq
  <2>2. return_scopes \in Seq(BOOLEAN) /\ return_scopes # <<>>
    BY <1>1
  <2>3. loop_scopes \in Seq({"NONE", "WHILE"}) /\ loop_scopes # <<>>
    BY <1>1
  <2>4. /\ class_scopes \in Seq({"NONE", "CLASS", "SUBCLASS"}) /\ class_scopes # <<>>
        /\ class_scopes[1] = "NONE"
    BY <1>1
  <2>5. /\ function_scopes \in Seq({"NONE", "FUNCTION", "METHOD", "GETTER", "INITIALIZER"})
        /\ function_scopes # <<>> /\ function_scopes[1] = "NONE"
    BY <1>1
  <2> QED BY <1>1, <1>2, <2>1, <2>2, <2>3, <2>4, <2>5 DEF ResolverTypes
<1>5. Counts
  <2>1. \A ops : OpenNodes(ops) = 0
    <3> SUFFICES ASSUME NEW ops PROVE OpenNodes(ops) = 0
      OBVIOUS
    <3>1. {i \in DOMAIN open : open[i].op \in ops} = {}
      BY <1>2
    <3> QED BY <3>1, FS_EmptySet DEF OpenNodes
  <2>2. OpenSubclasses = 0
    <3>1. {i \in DOMAIN class_scopes : class_scopes[i] = "SUBCLASS"} = {}
      BY <1>1
    <3> QED BY <3>1, FS_EmptySet DEF OpenSubclasses
  <2>3. Len(return_scopes) = 1 /\ Len(loop_scopes) = 1 /\ Len(function_scopes) = 1 /\ Len(class_scopes) = 1
    BY <1>1
  <2> QED BY <1>2, <2>1, <2>2, <2>3 DEF Counts
<1>6. WellFormed(code)
  <2>1. code \in Seq(NodeType)
    BY <1>1, EmptySeq
  <2> QED BY <1>2, <2>1 DEF WellFormed
<1>7. Linked(code, open)
  <2>1. OpenHolds(open, Len(open)) = {}
    BY <1>2 DEF OpenHolds
  <2> QED BY <1>2, <1>3, <2>1 DEF Linked
<1>8. Accepted
  <2>1. Shaped(code, Here, <<>>) /\ Named(code, Here, scopes, <<>>)
    <3>1. <<>> \in Seq({"body", "this", "super"} \X Nat) /\ DOMAIN <<>> = {} /\ Len(<<>>) = 0
      BY EmptySeq
    <3>2. Scope(code, Here) = Outside
      BY <1>2, <1>3 DEF Scope
    <3> QED BY <1>1, <1>2, <1>3, <3>1, <3>2 DEF Shaped, Named
  <2>2. Classed(code, Here, class_scopes, <<>>)
    <3>1. <<>> \in Seq(Nat) /\ DOMAIN <<>> = {} /\ Len(<<>>) = 0 /\ Len(class_scopes) = 1
      BY <1>1, EmptySeq
    <3> QED BY <1>2, <1>3, <3>1 DEF Classed
  <2>3. Returning(code, Here, << <<0, 0>> >>) /\ Watched(code, open, mid, return_scopes, << <<0, 0>> >>)
    <3>1. <<0, 0>> \in (0..2) \X Nat
      OBVIOUS
    <3> DEFINE top == <<0, 0>>
               rets == <<top>>
    <3> HIDE DEF top
    <3>2. rets \in Seq((0..2) \X Nat) /\ rets # <<>> /\ Len(rets) = 1 /\ rets[1] = top /\ DOMAIN rets = {1}
      BY <3>1 DEF top
    <3>3. TopReturn(code, Here) = top
      BY <1>2, <1>3 DEF TopReturn, top
    <3> HIDE DEF rets
    <3>4. Returning(code, Here, rets)
      <4>1. \A k \in 2..Len(rets) : FALSE
        BY <3>2
      <4>2. \A k, l \in DOMAIN rets : k < l => FALSE
        BY <3>2
      <4>3. rets[1] = <<0, 0>>
        BY <3>2 DEF top
      <4> QED BY <3>2, <3>3, <4>1, <4>2, <4>3 DEF Returning
    <3>5. Len(return_scopes) = 1 /\ return_scopes[1] = FALSE
      BY <1>1
    <3>6. Watched(code, open, mid, return_scopes, rets)
      BY <3>2, <3>5 DEF Watched
    <3> QED BY <3>4, <3>6 DEF rets, top
  <2> QED BY <1>1, <1>2, <2>1, <2>2, <2>3 DEF Accepted
<1> QED BY <1>4, <1>5, <1>6, <1>7, <1>8 DEF ResolverInv

\* Nothing is visited after an error.
LEMMA VisitsStop ==
  VisitNext => ~had_error
<1>1. Block \/ If \/ While => ~had_error
  BY DEF Block, If, While, Guarded, Visit
<1>2. Break \/ Return \/ VarDeclaration \/ VarDefined => ~had_error
  BY DEF Break, Return, ReturnOf, VarDeclaration, VarDefined, Visit
<1>3. Function \/ Method \/ Getter \/ ClassDeclaration => ~had_error
  BY DEF Function, Method, Getter, ClassDeclaration, Visit
<1>4. Variable \/ This \/ Super \/ AnonymousFunction => ~had_error
  BY DEF Variable, This, Super, AnonymousFunction, Visit
<1>5. Suffix \/ Assign => ~had_error
  BY DEF Suffix, Assign, Visit
<1>6. EndBlock \/ EndFunction \/ EndClass => ~had_error
  BY DEF EndBlock, EndFunction, EndClass, Close, Visit
<1> QED BY <1>1, <1>2, <1>3, <1>4, <1>5, <1>6 DEF VisitNext

\* Each visit keeps the text and the stacks in order, and what is accepted true.
LEMMA ResolverVisits ==
  ASSUME ResolverInv, VisitNext
  PROVE  ResolverInv'
<1>1. Base /\ Accepted
  BY VisitsStop DEF ResolverInv, Base
<1>2. Base' /\ (~had_error' => Accepted') => ResolverInv'
  BY DEF ResolverInv, Base
<1>3. CASE Break \/ Return \/ Variable \/ This \/ Super \/ Suffix \/ Assign
  <2>1. PICK x \in NodeType : Suits(code, x) /\ LeafStep(x)
    BY <1>1, <1>3, LeafSteps
  <2>2. Base'
    BY <1>1, <2>1, BaseLeafStep
  <2>3. ~had_error' => Accepted'
    BY <1>1, <2>1, AcceptedLeaf
  <2> QED BY <1>2, <2>2, <2>3
<1>4. CASE VarDefined
  <2>1. Base'
    BY <1>1, <1>4, BaseDefine
  <2>2. Accepted'
    BY <1>1, <1>4, AcceptedDefine
  <2> QED BY <1>2, <2>1, <2>2
<1>5. CASE \/ Block \/ If \/ While \/ VarDeclaration \/ Function \/ Method \/ Getter
           \/ ClassDeclaration \/ AnonymousFunction
  <2>1. PICK x \in NodeType, t \in FunctionTypes : Suits(code, x) /\ EnterStep(x, t)
    BY <1>1, <1>5, OpenSteps
  <2>2. Base'
    BY <1>1, <2>1, BaseOpenStep DEF EnterStep
  <2>3. ~had_error' => Accepted'
    BY <1>1, <2>1, AcceptedOpen
  <2> QED BY <1>2, <2>2, <2>3
<1>6. CASE EndBlock \/ EndFunction \/ EndClass
  <2>1. PICK k, r : CloseStep(k, r)
    BY <1>6, ClosesAre
  <2>2. CloseWarns
    BY <1>6, ClosesWarn
  <2>3. Base'
    BY <1>1, <2>1, BaseClose
  <2>4. Accepted'
    BY <1>1, <2>1, <2>2, AcceptedClose
  <2> QED BY <1>2, <2>3, <2>4
<1> QED BY <1>3, <1>4, <1>5, <1>6 DEF VisitNext

\* Nothing else looks at the variables.
LEMMA ResolverRests ==
  ASSUME ResolverInv, UNCHANGED resolverVars
  PROVE  ResolverInv'
<1>1. UNCHANGED <<code, open, mid, scopes, loop_scopes, function_scopes, class_scopes, return_scopes,
                  locals, warnings, had_error>>
  BY DEF resolverVars, structure, enclosing
<1>2. ResolverTypes' /\ Counts'
  <2>1. ResolverTypes'
    BY <1>1 DEF ResolverInv, ResolverTypes, Inner
  <2> QED BY <1>1, <2>1 DEF ResolverInv, Counts, OpenNodes, OpenSubclasses
<1>3. (~had_error => Accepted)'
  BY <1>1 DEF ResolverInv, Accepted, Here
<1> QED BY <1>1, <1>2, <1>3 DEF ResolverInv

\* The resolver keeps its stacks as high as the nodes it is inside of, in every
\* program, and in what it accepts every distance leads from the scope of the node
\* to the one that declares its name, and every warning is true of the text.
THEOREM ResolverIsSound ==
  ResolverInit /\ [][ResolverNext]_resolverVars => []ResolverInv
<1>1. ResolverInv /\ [ResolverNext]_resolverVars => ResolverInv'
  BY ResolverVisits, ResolverRests DEF ResolverNext
<1> QED BY ResolverStarts, <1>1, PTL

=============================================================================
