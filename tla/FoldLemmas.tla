----------------------------- MODULE FoldLemmas -----------------------------
(***************************************************************************)
(* Induction over numbers and sequences, and what a fold computes, for     *)
(* proofs about the parsers.  An induction hypothesis is a set, and the    *)
(* operation of a fold is a function F: both can be instantiated.          *)
(***************************************************************************)
EXTENDS Integers, Sequences, SequencesExt, FiniteSets, NaturalsInduction,
        WellFoundedInduction, SequenceTheorems, TLAPS

\* What folding s with F gives, one element after the other.
Folded(F, base, s) ==
  LET h[k \in 0..Len(s)] == IF k = 0 THEN base ELSE F[<<h[k - 1], s[k]>>]
  IN  h[Len(s)]

-----------------------------------------------------------------------------
(***************************************************************************)
(* Induction.                                                              *)
(***************************************************************************)
LEMMA UptoInduction ==
  ASSUME NEW n \in Nat, NEW P, 0 \in P, \A k \in 0..(n - 1) : k \in P => k + 1 \in P
  PROVE  \A k \in 0..n : k \in P
<1> DEFINE T == {k \in 0..n : k \notin P}
<1> SUFFICES ASSUME T # {} PROVE FALSE
  OBVIOUS
<1>1. PICK m \in T : \A y \in T : ~(<<y, m>> \in OpToRel(<, Nat))
  <2>1. T \subseteq Nat
    OBVIOUS
  <2> HIDE DEF T
  <2> QED BY <2>1, NatLessThanWellFounded, WFMin
<1>2. m \in Nat /\ m # 0 /\ m \in 0..n /\ m \notin P
  OBVIOUS
<1>3. m - 1 \in 0..(n - 1) /\ (m - 1) + 1 = m /\ m - 1 \in Nat /\ m - 1 < m /\ m - 1 \in 0..n
  BY <1>2
<1>4. m - 1 \notin T
  <2> HIDE DEF T
  <2> QED BY <1>1, <1>2, <1>3 DEF OpToRel
<1> QED
  BY <1>2, <1>3, <1>4

\* A set that has the empty sequence, and with each sequence those with one
\* element more, has all.
LEMMA AppendInduction ==
  ASSUME NEW S, NEW P, <<>> \in P, \A s \in Seq(S), e \in S : s \in P => Append(s, e) \in P
  PROVE  \A s \in Seq(S) : s \in P
<1> SUFFICES ASSUME NEW s \in Seq(S) PROVE s \in P
  OBVIOUS
<1> DEFINE Q == {k \in 0..Len(s) : SubSeq(s, 1, k) \in P}
<1>1. Len(s) \in Nat
  OBVIOUS
<1>2. 0 \in Q
  <2>1. SubSeq(s, 1, 0) = <<>>
    BY SubSeqEmpty
  <2>2. 0 \in 0..Len(s)
    BY <1>1
  <2> QED BY <2>1, <2>2
<1>3. ASSUME NEW k \in 0..(Len(s) - 1), k \in Q PROVE k + 1 \in Q
  <2>1. /\ SubSeq(s, 1, k) \in Seq(S) /\ s[k + 1] \in S
        /\ SubSeq(s, 1, k + 1) = Append(SubSeq(s, 1, k), s[k + 1])
    BY <1>1
  <2>2. SubSeq(s, 1, k) \in P
    BY <1>3
  <2>3. SubSeq(s, 1, k + 1) \in P
    BY <2>1, <2>2
  <2> QED BY <1>1, <2>3
<1>4. Len(s) \in Q
  <2> HIDE DEF Q
  <2>1. \A k \in 0..Len(s) : k \in Q
    BY <1>1, <1>2, <1>3, UptoInduction
  <2> QED BY <1>1, <2>1
<1>5. SubSeq(s, 1, Len(s)) = s
  OBVIOUS
<1> QED
  BY <1>4, <1>5

-----------------------------------------------------------------------------
(***************************************************************************)
(* Max, which tells FoldLeft the next element to take.                     *)
(***************************************************************************)
LEMMA MaxIsLargest ==
  ASSUME NEW n \in Nat, NEW t \in SUBSET (1..n), t # {}
  PROVE  Max(t) \in t /\ \A y \in t : y <= Max(t)
<1> DEFINE P == {k \in 0..n : \A u \in SUBSET (1..k) :
                   u # {} => \E x \in u : \A y \in u : x >= y}
<1>1. 0 \in P
  <2>1. \A u \in SUBSET (1..0) : u = {}
    OBVIOUS
  <2>2. 0 \in 0..n
    OBVIOUS
  <2> QED BY <2>1, <2>2
<1>2. ASSUME NEW k \in 0..(n - 1), k \in P PROVE k + 1 \in P
  <2> SUFFICES ASSUME NEW u \in SUBSET (1..(k + 1)), u # {}
               PROVE  \E x \in u : \A y \in u : x >= y
    OBVIOUS
  <2>1. CASE k + 1 \in u
    BY <2>1
  <2>2. CASE k + 1 \notin u
    <3>1. u \in SUBSET (1..k)
      BY <2>2
    <3> QED BY <1>2, <3>1
  <2> QED BY <2>1, <2>2
<1>3. n \in P
  <2> HIDE DEF P
  <2>1. \A k \in 0..n : k \in P
    BY <1>1, <1>2, UptoInduction
  <2> QED BY <2>1
<1>4. \E x \in t : \A y \in t : x >= y
  BY <1>3
<1>5. Max(t) \in t /\ \A y \in t : Max(t) >= y
  BY <1>4 DEF Max
<1> QED
  BY <1>5

LEMMA MaxUnique ==
  ASSUME NEW n \in Nat, NEW t \in SUBSET (1..n), NEW m \in t, \A y \in t : y <= m
  PROVE  Max(t) = m
<1>1. Max(t) \in t /\ \A y \in t : y <= Max(t)
  BY MaxIsLargest
<1>2. \A y \in t : y \in Nat
  OBVIOUS
<1>3. Max(t) \in Nat /\ m \in Nat
  BY <1>1, <1>2
<1>4. m <= Max(t) /\ Max(t) <= m
  BY <1>1
<1> QED
  BY <1>3, <1>4

\* Min, for the same reason.
LEMMA MinIsSmallest ==
  ASSUME NEW S \in SUBSET Nat, S # {}
  PROVE  Min(S) \in S /\ \A y \in S : Min(S) <= y
<1>1. PICK m \in S : \A y \in S : ~(<<y, m>> \in OpToRel(<, Nat))
  BY NatLessThanWellFounded, WFMin
<1>2. \A y \in S : y \in Nat /\ m \in Nat /\ ~(y < m)
  BY <1>1 DEF OpToRel
<1>3. \A y \in S : m <= y
  BY <1>2
<1> QED
  BY <1>1, <1>3 DEF Min

-----------------------------------------------------------------------------
(***************************************************************************)
(* Folded.                                                                 *)
(***************************************************************************)
\* The values of a fold, after each element.
Values(h, F, base, s) ==
  h = [k \in 0..Len(s) |-> IF k = 0 THEN base ELSE F[<<h[k - 1], s[k]>>]]

LEMMA ValuesExist ==
  ASSUME NEW s, Len(s) \in Nat, NEW F, NEW base
  PROVE  \E h : Values(h, F, base, s)
<1> DEFINE Upto(h, n) == h = [k \in 0..n |-> IF k = 0 THEN base ELSE F[<<h[k - 1], s[k]>>]]
           P == {n \in 0..Len(s) : \E h : Upto(h, n)}
<1>1. 0 \in P
  <2> DEFINE h == [k \in 0..0 |-> base]
  <2>1. Upto(h, 0)
    OBVIOUS
  <2> HIDE DEF Upto
  <2> QED BY <2>1
<1>2. ASSUME NEW n \in 0..(Len(s) - 1), n \in P PROVE n + 1 \in P
  <2>1. PICK g : Upto(g, n)
    BY <1>2
  <2> DEFINE h == [k \in 0..(n + 1) |-> IF k = 0 THEN base ELSE F[<<g[k - 1], s[k]>>]]
  <2>2. \A k \in 0..n : h[k] = g[k]
    <3> SUFFICES ASSUME NEW k \in 0..n PROVE h[k] = g[k]
      OBVIOUS
    <3>1. h[k] = IF k = 0 THEN base ELSE F[<<g[k - 1], s[k]>>]
      OBVIOUS
    <3>2. g[k] = IF k = 0 THEN base ELSE F[<<g[k - 1], s[k]>>]
      BY <2>1
    <3> QED BY <3>1, <3>2
  <2>3. \A k \in 0..(n + 1) : k # 0 => h[k - 1] = g[k - 1]
    <3>1. \A k \in 0..(n + 1) : k # 0 => k - 1 \in 0..n
      OBVIOUS
    <3> HIDE DEF h
    <3> QED BY <2>2, <3>1
  <2>4. Upto(h, n + 1)
    BY <2>3
  <2> HIDE DEF Upto
  <2> QED BY <2>4
<1>3. Len(s) \in P
  <2> HIDE DEF P
  <2>1. \A k \in 0..Len(s) : k \in P
    BY <1>1, <1>2, UptoInduction
  <2> QED BY <2>1
<1> QED
  BY <1>3 DEF Values

\* Folded is the last of them.
LEMMA FoldedIsLast ==
  ASSUME NEW s, Len(s) \in Nat, NEW F, NEW base
  PROVE  \E h : Values(h, F, base, s) /\ Folded(F, base, s) = h[Len(s)]
<1> DEFINE h == CHOOSE h : Values(h, F, base, s)
<1>1. Values(h, F, base, s)
  BY ValuesExist
<1>2. Folded(F, base, s) = h[Len(s)]
  BY DEF Folded, Values
<1> QED
  BY <1>1, <1>2

LEMMA FoldedEmpty ==
  ASSUME NEW F, NEW base
  PROVE  Folded(F, base, <<>>) = base
<1>1. PICK h : Values(h, F, base, <<>>) /\ Folded(F, base, <<>>) = h[Len(<<>>)]
  BY FoldedIsLast
<1> QED
  BY <1>1 DEF Values

LEMMA FoldedAppend ==
  ASSUME NEW S, NEW s \in Seq(S), NEW e \in S, NEW F, NEW base
  PROVE  Folded(F, base, Append(s, e)) = F[<<Folded(F, base, s), e>>]
<1> DEFINE u == Append(s, e)
           n == Len(s)
<1>1. n \in Nat /\ Len(u) = n + 1 /\ u[n + 1] = e /\ \A k \in 1..n : u[k] = s[k]
  OBVIOUS
<1> HIDE DEF u
<1>2. PICK g : Values(g, F, base, s) /\ Folded(F, base, s) = g[n]
  BY <1>1, FoldedIsLast
<1>3. Len(u) \in Nat
  BY <1>1
<1>4. PICK h : Values(h, F, base, u) /\ Folded(F, base, u) = h[n + 1]
  BY <1>1, <1>3, FoldedIsLast
<1>5. g[0] = base /\ \A k \in 1..n : g[k] = F[<<g[k - 1], s[k]>>]
  BY <1>1, <1>2 DEF Values
<1>6. h[0] = base /\ \A k \in 1..(n + 1) : h[k] = F[<<h[k - 1], u[k]>>]
  BY <1>1, <1>4 DEF Values
<1>7. g[n] = h[n]
  <2> DEFINE P == {k \in 0..n : g[k] = h[k]}
  <2>1. 0 \in P
    BY <1>1, <1>5, <1>6
  <2>2. ASSUME NEW k \in 0..(n - 1), k \in P PROVE k + 1 \in P
    <3>1. k + 1 \in 1..n /\ k + 1 \in 1..(n + 1) /\ (k + 1) - 1 = k
      BY <1>1
    <3>2. g[k + 1] = F[<<g[k], s[k + 1]>>] /\ h[k + 1] = F[<<h[k], s[k + 1]>>]
      BY <1>1, <1>5, <1>6, <3>1
    <3> QED BY <1>1, <2>2, <3>1, <3>2
  <2> HIDE DEF P
  <2>3. \A k \in 0..n : k \in P
    BY <1>1, <2>1, <2>2, UptoInduction
  <2> QED BY <1>1, <2>3 DEF P
<1>8. h[n + 1] = F[<<h[n], e>>]
  BY <1>1, <1>6
<1> QED
  BY <1>2, <1>4, <1>7, <1>8 DEF u

\* A fold stays in a set that its operation keeps.
LEMMA FoldedType ==
  ASSUME NEW D, NEW C, NEW F \in [D \X C -> D], NEW base \in D, NEW s \in Seq(C)
  PROVE  Folded(F, base, s) \in D
<1> DEFINE P == {t \in Seq(C) : Folded(F, base, t) \in D}
<1>1. <<>> \in P
  BY FoldedEmpty
<1>2. \A t \in Seq(C), e \in C : t \in P => Append(t, e) \in P
  <2> SUFFICES ASSUME NEW t \in Seq(C), NEW e \in C, Folded(F, base, t) \in D
               PROVE  Append(t, e) \in Seq(C) /\ Folded(F, base, Append(t, e)) \in D
    OBVIOUS
  <2>1. Append(t, e) \in Seq(C)
    OBVIOUS
  <2>2. Folded(F, base, Append(t, e)) = F[<<Folded(F, base, t), e>>]
    BY FoldedAppend
  <2>3. <<Folded(F, base, t), e>> \in D \X C
    OBVIOUS
  <2> QED BY <2>1, <2>2, <2>3
<1> HIDE DEF P
<1>3. s \in P
  BY <1>1, <1>2, AppendInduction
<1> QED
  BY <1>3 DEF P

-----------------------------------------------------------------------------
(***************************************************************************)
(* FoldLeft takes the largest index out of the domain, over all subsets of *)
(* it: an instance of FoldLeft has the value of a table chosen to satisfy  *)
(* an equation on the subsets, which says what Table says with an operator *)
(* in the place of F.                                                      *)
(***************************************************************************)
\* A fold of s, whose elements are in C, with F: where its values are in D, g
\* takes the elements one after the other.
Table(g, D, C, F, base, s) ==
  /\ F \in [D \X C -> D] /\ base \in D /\ s \in Seq(C)
  /\ g[{}] = base
  /\ \A t \in SUBSET DOMAIN s : t # {} /\ g[t \ {Max(t)}] \in D
       => g[t] = F[<<g[t \ {Max(t)}], s[Max(t)]>>]

\* The element that is taken is one of s.
LEMMA MaxElement ==
  ASSUME NEW C, NEW s \in Seq(C), NEW t \in SUBSET DOMAIN s, t # {}
  PROVE  s[Max(t)] \in C
<1>1. Len(s) \in Nat /\ DOMAIN s = 1..Len(s)
  OBVIOUS
<1>2. Max(t) \in t
  BY <1>1, MaxIsLargest
<1> QED
  BY <1>1, <1>2

\* There is one.
LEMMA FoldExists ==
  ASSUME NEW D, NEW C, NEW F \in [D \X C -> D], NEW base \in D, NEW s \in Seq(C)
  PROVE  \E g \in [SUBSET DOMAIN s -> D] : Table(g, D, C, F, base, s)
<1> DEFINE Eq(g, n) == /\ g \in [SUBSET (1..n) -> D] /\ g[{}] = base
                       /\ \A t \in SUBSET (1..n) :
                            t # {} => g[t] = F[<<g[t \ {Max(t)}], s[Max(t)]>>]
           P == {n \in 0..Len(s) : \E g : Eq(g, n)}
<1>1. Len(s) \in Nat /\ DOMAIN s = 1..Len(s)
  OBVIOUS
<1>2. 0 \in P
  <2> DEFINE g == [t \in SUBSET (1..0) |-> base]
  <2>1. 1..0 = {} /\ SUBSET (1..0) = {{}}
    OBVIOUS
  <2>2. Eq(g, 0)
    BY <2>1
  <2> HIDE DEF Eq
  <2> QED BY <1>1, <2>2
<1>3. ASSUME NEW n \in 0..(Len(s) - 1), n \in P PROVE n + 1 \in P
  <2>1. PICK g0 : Eq(g0, n)
    BY <1>3
  <2> DEFINE m == n + 1
             g == [t \in SUBSET (1..m) |->
                     IF m \in t THEN F[<<g0[t \ {m}], s[m]>>] ELSE g0[t]]
  <2>2. m \in 1..Len(s) /\ m \in Nat /\ n \in Nat /\ s[m] \in C
    BY <1>1
  <2>3. \A t \in SUBSET (1..m) :
          /\ m \in t => t \ {m} \in SUBSET (1..n) /\ Max(t) = m
          /\ m \notin t => t \in SUBSET (1..n)
    <3> SUFFICES ASSUME NEW t \in SUBSET (1..m)
                 PROVE  /\ m \in t => t \ {m} \in SUBSET (1..n) /\ Max(t) = m
                        /\ m \notin t => t \in SUBSET (1..n)
      OBVIOUS
    <3>1. ASSUME m \in t PROVE Max(t) = m
      <4>1. \A y \in t : y <= m
        BY <2>2
      <4> HIDE DEF m
      <4> QED BY <2>2, <3>1, <4>1, MaxUnique
    <3> QED BY <2>2, <3>1
  <2>4. \A t \in SUBSET (1..n) : t \in SUBSET (1..m) /\ m \notin t /\ g[t] = g0[t]
    BY <2>2
  <2>5. g \in [SUBSET (1..m) -> D]
    <3> SUFFICES ASSUME NEW t \in SUBSET (1..m)
                 PROVE  (IF m \in t THEN F[<<g0[t \ {m}], s[m]>>] ELSE g0[t]) \in D
      OBVIOUS
    <3> HIDE DEF m
    <3> QED BY <2>1, <2>2, <2>3
  <2>6. \A t \in SUBSET (1..m) : t # {} => g[t] = F[<<g[t \ {Max(t)}], s[Max(t)]>>]
    <3> SUFFICES ASSUME NEW t \in SUBSET (1..m), t # {}
                 PROVE  g[t] = F[<<g[t \ {Max(t)}], s[Max(t)]>>]
      OBVIOUS
    <3>1. CASE m \in t
      <4>1. g[t] = F[<<g0[t \ {m}], s[m]>>]
        BY <3>1
      <4>2. Max(t) = m /\ g[t \ {m}] = g0[t \ {m}]
        BY <2>3, <2>4, <3>1
      <4> HIDE DEF g, m
      <4> QED BY <4>1, <4>2
    <3>2. CASE m \notin t
      <4>1. t \in SUBSET (1..n) /\ g[t] = g0[t]
        BY <2>3, <2>4, <3>2
      <4>2. g0[t] = F[<<g0[t \ {Max(t)}], s[Max(t)]>>]
        BY <2>1, <4>1
      <4>3. t \ {Max(t)} \in SUBSET (1..n)
        BY <4>1
      <4>4. g[t \ {Max(t)}] = g0[t \ {Max(t)}]
        BY <2>4, <4>3
      <4> HIDE DEF g, m
      <4> QED BY <4>1, <4>2, <4>4
    <3> QED BY <3>1, <3>2
  <2>7. g[{}] = base
    <3>1. {} \in SUBSET (1..n)
      OBVIOUS
    <3>2. g[{}] = g0[{}]
      BY <2>4, <3>1
    <3> HIDE DEF g
    <3> QED BY <2>1, <3>2
  <2>8. Eq(g, m)
    <3> HIDE DEF g, m
    <3> QED BY <2>5, <2>6, <2>7
  <2>9. m \in 0..Len(s)
    BY <2>2
  <2> HIDE DEF Eq, g
  <2> QED BY <2>8, <2>9
<1>4. Len(s) \in P
  <2> HIDE DEF P
  <2>1. \A k \in 0..Len(s) : k \in P
    BY <1>1, <1>2, <1>3, UptoInduction
  <2> QED BY <1>1, <2>1
<1>5. PICK g : Eq(g, Len(s))
  BY <1>4
<1>6. Table(g, D, C, F, base, s)
  BY <1>1, <1>5 DEF Table
<1> QED
  BY <1>1, <1>5, <1>6

\* It gives the fold.
LEMMA FoldValue ==
  ASSUME NEW D, NEW C, NEW F, NEW base, NEW s, NEW g,
         Table(g, D, C, F, base, s)
  PROVE  g[DOMAIN s] = Folded(F, base, s)
<1> USE DEF Table
<1>1. Len(s) \in Nat /\ DOMAIN s = 1..Len(s) /\ \A k \in 1..Len(s) : s[k] \in C
  OBVIOUS
<1>2. PICK h : Values(h, F, base, s) /\ Folded(F, base, s) = h[Len(s)]
  BY <1>1, FoldedIsLast
<1>6. /\ g[{}] = base
      /\ \A t \in SUBSET DOMAIN s : t # {} /\ g[t \ {Max(t)}] \in D
           => g[t] = F[<<g[t \ {Max(t)}], s[Max(t)]>>]
  BY DEF Table
<1> DEFINE P == {k \in 0..Len(s) : g[1..k] \in D /\ g[1..k] = h[k]}
<1>3. 0 \in P
  <2>1. 1..0 = {} /\ h[0] = base
    BY <1>1, <1>2 DEF Values
  <2> QED BY <1>1, <1>6, <2>1
<1>4. ASSUME NEW k \in 0..(Len(s) - 1), k \in P PROVE k + 1 \in P
  <2> DEFINE t == 1..(k + 1)
  <2>0. k \in Nat /\ k + 1 \in 1..Len(s)
    BY <1>1
  <2>1. t \in SUBSET DOMAIN s /\ t # {} /\ k + 1 \in t /\ t \ {k + 1} = 1..k /\ k + 1 \in Nat
    <3>1. k + 1 \in t /\ k + 1 \in Nat
      BY <2>0
    <3>2. t \ {k + 1} = 1..k
      BY <2>0
    <3>3. t \in SUBSET DOMAIN s
      BY <1>1, <2>0
    <3> QED BY <3>1, <3>2, <3>3
  <2>2. Max(t) = k + 1
    <3>1. \A y \in t : y <= k + 1
      BY <1>1
    <3> HIDE DEF t
    <3> QED BY <1>1, <2>1, <3>1, MaxUnique
  <2>3. g[t \ {Max(t)}] = g[1..k] /\ g[1..k] \in D
    BY <1>4, <2>1, <2>2
  <2>4. g[t] = F[<<g[1..k], s[k + 1]>>]
    <3> HIDE DEF t
    <3> QED BY <1>6, <2>1, <2>2, <2>3
  <2>5. s[k + 1] \in C /\ h[k + 1] = F[<<h[k], s[k + 1]>>]
    <3>1. k + 1 \in 1..Len(s) /\ k + 1 \in 0..Len(s) /\ (k + 1) - 1 = k /\ k + 1 # 0
      BY <1>1
    <3>2. h[k + 1] = IF k + 1 = 0 THEN base ELSE F[<<h[(k + 1) - 1], s[k + 1]>>]
      BY <1>2, <3>1 DEF Values
    <3> QED BY <1>1, <3>1, <3>2
  <2>6. g[t] = h[k + 1] /\ g[t] \in D
    BY <1>4, <2>4, <2>5, <2>3
  <2> QED BY <1>1, <2>6
<1>5. Len(s) \in P
  <2> HIDE DEF P
  <2>1. \A k \in 0..Len(s) : k \in P
    BY <1>1, <1>3, <1>4, UptoInduction
  <2> QED BY <1>1, <2>1
<1> QED
  BY <1>1, <1>2, <1>5
=============================================================================
