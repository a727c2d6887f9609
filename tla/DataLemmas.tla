----------------------------- MODULE DataLemmas -----------------------------
(***************************************************************************)
(* Lemmas about the data of several modules: what FlattenSeq and           *)
(* MapThenSumSet return.  Both are choices of a recursive function, so     *)
(* each part begins with its existence.  Induction goes through a least    *)
(* counterexample.                                                         *)
(***************************************************************************)
EXTENDS SequencesExt, FiniteSetsExt, SequenceTheorems, FiniteSetTheorems,
        NaturalsInduction, WellFoundedInduction, TLAPS

\* A set of numbers that is not empty has a least element.
LEMMA LeastNumber ==
  ASSUME NEW W, W \subseteq Nat, W # {}
  PROVE  \E n \in W : \A m \in W : n <= m
<1>1. PICK n \in W : \A m \in W : <<m, n>> \notin OpToRel(<, Nat)
  BY NatLessThanWellFounded, WFMin
<1>2. \A m \in W : ~(m < n)
  BY <1>1 DEF OpToRel
<1>3. QED
  BY <1>2

\* A set of numbers with a bound has a greatest element.
LEMMA GreatestNumber ==
  ASSUME NEW n \in Nat, NEW S \in SUBSET (0..n), S # {}
  PROVE  Max(S) \in S /\ \A x \in S : x <= Max(S)
<1> DEFINE W == {m \in Nat : \E x \in S : m = n - x}
<1>1. W \subseteq Nat /\ W # {}
  <2>1. PICK x \in S : TRUE
    OBVIOUS
  <2>2. n - x \in W
    BY <2>1
  <2>3. QED
    BY <2>2
<1>2. PICK m \in W : \A k \in W : m <= k
  <2> HIDE DEF W
  <2>1. QED
    BY <1>1, LeastNumber
<1>3. PICK x \in S : m = n - x
  BY <1>2
<1>4. ASSUME NEW y \in S PROVE x >= y
  <2>1. n - y \in W
    OBVIOUS
  <2>2. m <= n - y
    BY <1>2, <2>1
  <2>3. QED
    BY <1>3, <2>2
<1>5. Max(S) \in S /\ \A y \in S : Max(S) >= y
  BY <1>4 DEF Max
<1>6. \A y \in S : y \in Int
  OBVIOUS
<1>7. QED
  BY <1>5, <1>6

\* A sequence that is given place by place, one place longer.
LEMMA OnePlaceMore ==
  ASSUME NEW S, NEW n \in Nat, NEW f, \A i \in 1..(n + 1) : f[i] \in S
  PROVE  /\ [i \in 1..n |-> f[i]] \in Seq(S)
         /\ [i \in 1..(n + 1) |-> f[i]] = Append([i \in 1..n |-> f[i]], f[n + 1])
<1> DEFINE s == [i \in 1..n |-> f[i]]
           t == [i \in 1..(n + 1) |-> f[i]]
<1>1. s \in Seq(S) /\ t \in Seq(S) /\ f[n + 1] \in S
  <2>1. \A i \in 1..n : f[i] \in S
    OBVIOUS
  <2>2. n + 1 \in Nat /\ n + 1 \in 1..(n + 1)
    OBVIOUS
  <2>3. QED
    BY <2>1, <2>2
<1>2. Len(s) = n /\ Len(t) = n + 1
  OBVIOUS
<1>3. \A i \in 1..n : s[i] = f[i]
  OBVIOUS
<1>4. \A i \in 1..(n + 1) : t[i] = f[i]
  OBVIOUS
<1> HIDE DEF s, t
<1>5. PICK u : u = Append(s, f[n + 1])
  OBVIOUS
<1>6. u \in Seq(S) /\ Len(u) = n + 1 /\ \A i \in 1..(n + 1) : u[i] = t[i]
  BY <1>1, <1>2, <1>3, <1>4, <1>5
<1>7. u = t
  BY <1>1, <1>2, <1>6, SeqEqual
<1>8. QED
  BY <1>1, <1>5, <1>7 DEF s, t

-----------------------------------------------------------------------------
(* FlattenSeq.                                                              *)

\* The recursion of FlattenSeq at one place.
GluedAt(g, s, i) == IF i = 1 THEN s[i] ELSE g[i - 1] \o s[i]

Glued(g, s) == g = [i \in 1..Len(s) |-> IF i = 1 THEN s[i] ELSE g[i - 1] \o s[i]]

GlueOf(s) == CHOOSE g : Glued(g, s)

\* FlattenSeq is the end of that recursion.
LEMMA FlattenIs ==
  \A s : FlattenSeq(s) = IF Len(s) = 0 THEN s ELSE GlueOf(s)[Len(s)]
  BY DEF FlattenSeq, GlueOf, Glued

GluedUpTo(n, g, s) == \A i \in 1..Len(s) : i <= n => g[i] = GluedAt(g, s, i)

\* There is a function with that recursion.
LEMMA GlueExists ==
  ASSUME NEW S, NEW s \in Seq(Seq(S))
  PROVE  \E g \in [1..Len(s) -> Seq(S)] : Glued(g, s)
<1> DEFINE Good(n) == \E g \in [1..Len(s) -> Seq(S)] : GluedUpTo(n, g, s)
<1>1. Len(s) \in Nat /\ \A i \in 1..Len(s) : s[i] \in Seq(S)
  OBVIOUS
<1>2. ASSUME NEW k \in Nat, ~Good(k) PROVE FALSE
  <2>1. PICK n \in Nat : ~Good(n) /\ \A m \in Nat : m < n => Good(m)
    <3> DEFINE W == {m \in Nat : ~Good(m)}
    <3> HIDE DEF Good
    <3>1. W \subseteq Nat /\ W # {}
      BY <1>2
    <3>2. PICK n \in W : \A m \in W : n <= m
      <4> HIDE DEF W
      <4>1. QED
        BY <3>1, LeastNumber
    <3>3. ASSUME NEW m \in Nat, m < n PROVE Good(m)
      BY <3>2, <3>3
    <3>4. QED
      BY <3>2, <3>3
  <2>2. n # 0
    <3>1. s \in [1..Len(s) -> Seq(S)]
      OBVIOUS
    <3>2. GluedUpTo(0, s, s)
      BY <1>1 DEF GluedUpTo
    <3>3. QED
      BY <2>1, <3>1, <3>2
  <2>3. PICK g \in [1..Len(s) -> Seq(S)] : GluedUpTo(n - 1, g, s)
    <3> HIDE DEF Good
    <3>1. Good(n - 1)
      BY <2>1, <2>2
    <3> USE DEF Good
    <3>2. QED
      BY <3>1
  <2> DEFINE h == [i \in 1..Len(s) |->
                     IF i <= n - 1 \/ i = 1 THEN (IF i = 1 THEN s[i] ELSE g[i])
                     ELSE g[i - 1] \o s[i]]
  <2>4. h \in [1..Len(s) -> Seq(S)]
    <3>1. ASSUME NEW i \in 1..Len(s), i # 1 PROVE g[i - 1] \o s[i] \in Seq(S)
      <4>1. i - 1 \in 1..Len(s)
        BY <1>1, <3>1
      <4>2. g[i - 1] \in Seq(S) /\ s[i] \in Seq(S)
        BY <1>1, <2>3, <4>1
      <4>3. QED
        BY <4>2
    <3>2. QED
      BY <1>1, <2>3, <3>1
  <2>5. ASSUME NEW i \in 1..Len(s), i <= n PROVE h[i] = GluedAt(h, s, i)
    <3>1. CASE i = 1
      BY <3>1 DEF GluedAt
    <3>2. CASE i # 1
      <4>1. i - 1 \in 1..Len(s) /\ i - 1 <= n - 1
        BY <1>1, <2>1, <2>5, <3>2
      <4>2. h[i - 1] = g[i - 1]
        BY <2>3, <4>1 DEF GluedUpTo, GluedAt
      <4>3. h[i] = g[i - 1] \o s[i]
        BY <2>3, <3>2 DEF GluedUpTo, GluedAt
      <4> HIDE DEF h
      <4>4. QED
        BY <3>2, <4>2, <4>3 DEF GluedAt
    <3>3. QED
      BY <3>1, <3>2
  <2> HIDE DEF h
  <2>6. GluedUpTo(n, h, s)
    BY <2>5 DEF GluedUpTo
  <2>7. QED
    BY <2>1, <2>4, <2>6
<1>3. PICK g \in [1..Len(s) -> Seq(S)] : GluedUpTo(Len(s), g, s)
  BY <1>1, <1>2
<1>4. g = [i \in 1..Len(s) |-> IF i = 1 THEN s[i] ELSE g[i - 1] \o s[i]]
  <2>1. ASSUME NEW i \in 1..Len(s)
        PROVE  g[i] = IF i = 1 THEN s[i] ELSE g[i - 1] \o s[i]
    <3>1. i <= Len(s)
      BY <1>1
    <3>2. g[i] = GluedAt(g, s, i)
      BY <1>3, <3>1 DEF GluedUpTo
    <3>3. QED
      BY <3>2 DEF GluedAt
  <2>2. g = [i \in 1..Len(s) |-> g[i]]
    OBVIOUS
  <2>3. QED
    BY <2>1, <2>2
<1>5. QED
  BY <1>4 DEF Glued

\* What the function is at each place.
LEMMA GlueType ==
  ASSUME NEW S, NEW s \in Seq(Seq(S))
  PROVE  /\ GlueOf(s) \in [1..Len(s) -> Seq(S)]
         /\ \A i \in 1..Len(s) : GlueOf(s)[i] = GluedAt(GlueOf(s), s, i)
<1>1. Glued(GlueOf(s), s)
  BY GlueExists DEF GlueOf
<1>2. PICK g \in [1..Len(s) -> Seq(S)] : Glued(g, s)
  BY GlueExists
<1>3. PICK h : h = GlueOf(s)
  OBVIOUS
<1>4. h = [i \in 1..Len(s) |-> IF i = 1 THEN s[i] ELSE h[i - 1] \o s[i]]
  BY <1>1, <1>3 DEF Glued
<1>5. \A i \in 1..Len(s) : h[i] = GluedAt(h, s, i) /\ g[i] = GluedAt(g, s, i)
  BY <1>2, <1>4 DEF Glued, GluedAt
<1>6. ASSUME NEW i \in 1..Len(s), h[i] # g[i] PROVE FALSE
  <2> DEFINE W == {j \in 1..Len(s) : h[j] # g[j]}
  <2>1. W \subseteq Nat /\ W # {}
    <3>1. Len(s) \in Nat
      OBVIOUS
    <3>2. W \subseteq 1..Len(s)
      OBVIOUS
    <3>3. i \in W
      BY <1>6
    <3> HIDE DEF W
    <3>4. QED
      BY <3>1, <3>2, <3>3
  <2>2. PICK j \in W : \A k \in W : j <= k
    <3> HIDE DEF W
    <3>1. QED
      BY <2>1, LeastNumber
  <2>3. j \in 1..Len(s) /\ h[j] # g[j] /\ Len(s) \in Nat
    BY <2>2
  <2>4. j # 1
    BY <1>5, <2>3 DEF GluedAt
  <2>5. j - 1 \in 1..Len(s) /\ ~(j <= j - 1)
    BY <2>3, <2>4
  <2>6. h[j - 1] = g[j - 1]
    BY <2>2, <2>5
  <2>7. QED
    BY <1>5, <2>3, <2>4, <2>6, ZenonT(60) DEF GluedAt
<1>7. h = [i \in 1..Len(s) |-> h[i]]
  BY <1>4
<1>8. h \in [1..Len(s) -> Seq(S)]
  BY <1>2, <1>6, <1>7
<1>9. QED
  BY <1>3, <1>5, <1>8

\* Nothing is made of no pieces.
LEMMA FlattenNone == FlattenSeq(<<>>) = <<>>
  BY FlattenIs

\* What is glued is made of what was in the pieces.
LEMMA FlattenType ==
  ASSUME NEW S, NEW s \in Seq(Seq(S))
  PROVE  FlattenSeq(s) \in Seq(S)
<1>1. CASE Len(s) = 0
  <2>1. s = <<>>
    BY <1>1, EmptySeq
  <2>2. <<>> \in Seq(S)
    OBVIOUS
  <2>3. QED
    BY <2>1, <2>2, FlattenNone
<1>2. CASE Len(s) # 0
  <2>1. Len(s) \in 1..Len(s)
    <3>1. Len(s) \in Nat
      OBVIOUS
    <3>2. QED
      BY <1>2, <3>1
  <2>2. QED
    BY <1>2, <2>1, GlueType, FlattenIs
<1>3. QED
  BY <1>1, <1>2

\* One piece more comes at the end.
LEMMA FlattenAppend ==
  ASSUME NEW S, NEW s \in Seq(Seq(S)), NEW piece \in Seq(S)
  PROVE  FlattenSeq(Append(s, piece)) = FlattenSeq(s) \o piece
<1> DEFINE t == Append(s, piece)
<1>1. /\ t \in Seq(Seq(S)) /\ Len(s) \in Nat /\ Len(t) = Len(s) + 1
      /\ t[Len(t)] = piece /\ \A i \in 1..Len(s) : t[i] = s[i]
  OBVIOUS
<1> HIDE DEF t
<1>2. PICK g, h : g = GlueOf(s) /\ h = GlueOf(t)
  OBVIOUS
<1>3. /\ \A i \in 1..Len(s) : g[i] = GluedAt(g, s, i)
      /\ \A i \in 1..Len(t) : h[i] = GluedAt(h, t, i)
  BY <1>1, <1>2, GlueType
<1>4. ASSUME NEW i \in 1..Len(s), h[i] # g[i] PROVE FALSE
  <2> DEFINE W == {j \in 1..Len(s) : h[j] # g[j]}
  <2>1. W \subseteq Nat /\ W # {}
    <3>1. W \subseteq 1..Len(s)
      OBVIOUS
    <3>2. i \in W
      BY <1>4
    <3> HIDE DEF W
    <3>3. QED
      BY <1>1, <3>1, <3>2
  <2>2. PICK j \in W : \A k \in W : j <= k
    <3> HIDE DEF W
    <3>1. QED
      BY <2>1, LeastNumber
  <2>3. j \in 1..Len(s) /\ j \in 1..Len(t) /\ h[j] # g[j] /\ t[j] = s[j]
    BY <1>1, <2>2
  <2>4. j # 1
    BY <1>3, <2>3 DEF GluedAt
  <2>5. j - 1 \in 1..Len(s) /\ ~(j <= j - 1)
    BY <1>1, <2>3, <2>4
  <2>6. h[j - 1] = g[j - 1]
    BY <2>2, <2>5
  <2>7. QED
    BY <1>3, <2>3, <2>4, <2>6 DEF GluedAt
<1>5. FlattenSeq(t) = h[Len(t)] /\ Len(t) \in 1..Len(t)
  BY <1>1, <1>2, FlattenIs
<1>6. CASE Len(s) = 0
  <2>1. s = <<>>
    BY <1>6, EmptySeq
  <2>2. FlattenSeq(s) = <<>> /\ <<>> \o piece = piece
    BY <2>1, FlattenNone
  <2>3. h[Len(t)] = piece
    BY <1>1, <1>3, <1>5, <1>6 DEF GluedAt
  <2>4. QED
    BY <1>5, <2>2, <2>3 DEF t
<1>7. CASE Len(s) # 0
  <2>1. Len(s) \in 1..Len(s) /\ Len(t) # 1 /\ Len(t) - 1 = Len(s)
    BY <1>1, <1>7
  <2>2. FlattenSeq(s) = g[Len(s)]
    BY <1>2, <1>7, FlattenIs
  <2>3. h[Len(t)] = h[Len(s)] \o piece
    BY <1>1, <1>3, <1>5, <2>1 DEF GluedAt
  <2>4. h[Len(s)] = g[Len(s)]
    BY <1>4, <2>1
  <2>5. QED
    BY <1>5, <2>2, <2>3, <2>4 DEF t
<1>8. QED
  BY <1>6, <1>7

FirstThenRest(s) == FlattenSeq(s) = Head(s) \o FlattenSeq(Tail(s))

\* The first piece comes first, if it does without the last one.
LEMMA FirstOfMore ==
  ASSUME NEW S, NEW r \in Seq(Seq(S)), r # <<>>, NEW piece \in Seq(S),
         FirstThenRest(r)
  PROVE  FirstThenRest(Append(r, piece))
<1>1. /\ FlattenSeq(Append(r, piece)) = FlattenSeq(r) \o piece
      /\ Head(Append(r, piece)) = Head(r)
      /\ Tail(Append(r, piece)) = Append(Tail(r), piece)
  BY FlattenAppend, HeadTailAppend
<1>2. Head(r) \in Seq(S) /\ Tail(r) \in Seq(Seq(S))
  BY HeadTailProperties
<1>3. PICK h \in Seq(S) : h = Head(r)
  BY <1>2
<1>4. PICK u \in Seq(S) : u = FlattenSeq(Tail(r))
  BY <1>2, FlattenType
<1>5. FlattenSeq(Append(Tail(r), piece)) = u \o piece
  BY <1>2, <1>4, FlattenAppend
<1>6. (h \o u) \o piece = h \o (u \o piece)
  BY ConcatAssociative, SMTT(30)
<1>7. QED
  BY <1>1, <1>3, <1>4, <1>5, <1>6 DEF FirstThenRest

\* The first piece comes first.
LEMMA FlattenFirst ==
  ASSUME NEW S, NEW s \in Seq(Seq(S)), s # <<>>
  PROVE  FirstThenRest(s)
<1> DEFINE W == {n \in Nat : \E t \in Seq(Seq(S)) : Len(t) = n + 1 /\ ~FirstThenRest(t)}
<1>1. ASSUME NEW n \in W, \A m \in W : n <= m PROVE FALSE
  <2>1. PICK t \in Seq(Seq(S)) : Len(t) = n + 1 /\ ~FirstThenRest(t)
    OBVIOUS
  <2>2. n \in Nat /\ ~(n - 1 \in W)
    <3>1. n \in Nat
      OBVIOUS
    <3> HIDE DEF W
    <3>2. ~(n <= n - 1)
      BY <3>1
    <3>3. QED
      BY <1>1, <3>1, <3>2
  <2>3. PICK r \in Seq(Seq(S)), piece \in Seq(S) : t = Append(r, piece) /\ Len(r) = n
    <3>1. t # <<>> /\ Len(t) \in Nat
      BY <2>1, <2>2
    <3>2. PICK r : r = [i \in 1..(Len(t) - 1) |-> t[i]]
      OBVIOUS
    <3>3. PICK piece \in Seq(S) : piece = t[Len(t)]
      BY <2>1, <2>2
    <3>4. r \in Seq(Seq(S)) /\ Len(r) = n
      BY <2>1, <2>2, <3>2
    <3>5. t = Append(r, piece)
      BY <2>1, <2>2, <3>2, <3>3, <3>4
    <3>6. QED
      BY <3>3, <3>4, <3>5
  <2> HIDE DEF W
  <2>4. /\ FlattenSeq(t) = FlattenSeq(r) \o piece
        /\ Head(t) = IF r = <<>> THEN piece ELSE Head(r)
        /\ Tail(t) = IF r = <<>> THEN <<>> ELSE Append(Tail(r), piece)
    BY <2>3, FlattenAppend, HeadTailAppend
  <2>5. CASE r = <<>>
    <3>1. FlattenSeq(t) = <<>> \o piece /\ Head(t) = piece /\ FlattenSeq(Tail(t)) = <<>>
      BY <2>4, <2>5, FlattenNone
    <3>2. <<>> \o piece = piece /\ piece \o <<>> = piece
      BY <2>3
    <3>3. QED
      BY <2>1, <3>1, <3>2 DEF FirstThenRest
  <2>6. CASE r # <<>>
    <3>1. n # 0 /\ n - 1 \in Nat
      BY <2>2, <2>3, <2>6, EmptySeq
    <3>2. FirstThenRest(r)
      <4>1. ~FirstThenRest(r) => n - 1 \in W
        <5>1. Len(r) = (n - 1) + 1
          BY <2>2, <2>3
        <5>2. QED
          BY <3>1, <5>1 DEF W
      <4>2. QED
        BY <2>2, <4>1
    <3>3. FirstThenRest(Append(r, piece))
      BY <2>3, <2>6, <3>2, FirstOfMore
    <3>4. QED
      BY <2>1, <2>3, <3>3
  <2>7. QED
    BY <2>5, <2>6
<1>2. ASSUME ~FirstThenRest(s) PROVE FALSE
  <2>1. Len(s) \in Nat /\ Len(s) # 0
    BY EmptySeq
  <2>2. Len(s) - 1 \in Nat /\ Len(s) = (Len(s) - 1) + 1
    BY <2>1
  <2>3. Len(s) - 1 \in W
    BY <1>2, <2>2
  <2>4. W \subseteq Nat /\ W # {}
    <3>1. W \subseteq Nat
      OBVIOUS
    <3> HIDE DEF W
    <3>2. QED
      BY <2>3, <3>1
  <2> HIDE DEF W
  <2>5. \E n \in W : \A m \in W : n <= m
    BY <2>4, LeastNumber
  <2>6. QED
    BY <1>1, <2>5
<1>3. QED
  BY <1>2

-----------------------------------------------------------------------------
(* Sums over finite sets.                                                   *)

\* Induction over a finite set: among the subsets that are counterexamples to
\* something there is one that is none as soon as an element is taken out.
LEMMA LeastSubset ==
  ASSUME NEW S, IsFiniteSet(S), NEW W, W \subseteq SUBSET S, W # {}
  PROVE  \E T \in W : IsFiniteSet(T) /\ \A x \in T : T \ {x} \notin W
<1> DEFINE N == {Cardinality(T) : T \in W}
<1>1. \A T \in W : IsFiniteSet(T) /\ Cardinality(T) \in Nat
  BY FS_Subset, FS_CardinalityType
<1>2. PICK n \in N : \A m \in N : n <= m
  <2>1. N \subseteq Nat /\ N # {}
    BY <1>1
  <2> HIDE DEF N
  <2> QED BY <2>1, LeastNumber
<1>3. PICK T \in W : n = Cardinality(T)
  BY <1>2
<1>4. ASSUME NEW x \in T, T \ {x} \in W PROVE FALSE
  <2>1. Cardinality(T \ {x}) = Cardinality(T) - 1
    BY <1>1, FS_RemoveElement
  <2>2. Cardinality(T) <= Cardinality(T \ {x})
    BY <1>2, <1>3, <1>4
  <2> QED BY <1>1, <2>1, <2>2
<1> QED
  BY <1>1, <1>3, <1>4

Pick(s) == CHOOSE x \in s : TRUE

\* What MapThenSumSet adds up to, of the function f.
Sum(f, S) == MapThenSumSet(LAMBDA c : f[c], S)

\* The recursion it is defined by.
Adds(g, f, S) ==
  g = [s \in SUBSET S |-> IF s = {} THEN 0 ELSE f[Pick(s)] + g[s \ {Pick(s)}]]

SumIter(f, S) == CHOOSE g : Adds(g, f, S)

\* What MapThenSumSet adds up to is the value of that function at the whole set.
LEMMA SumIsIter == ASSUME NEW f, NEW S PROVE Sum(f, S) = SumIter(f, S)[S]
  BY DEF Sum, MapThenSumSet, MapThenFoldSet, SumIter, Adds, Pick

\* The same of a function that is right on the sets with up to n elements.
AddsUpTo(n, g, f, S) ==
  \A s \in SUBSET S : Cardinality(s) <= n =>
    g[s] = IF s = {} THEN 0 ELSE f[Pick(s)] + g[s \ {Pick(s)}]

\* What is left of a finite set when the element of the recursion is taken out.
LEMMA PickOut ==
  ASSUME NEW S, IsFiniteSet(S), NEW T \in SUBSET S
  PROVE  /\ IsFiniteSet(T) /\ Cardinality(T) \in Nat /\ (Cardinality(T) = 0 <=> T = {})
         /\ T # {} => /\ Pick(T) \in T /\ T \ {Pick(T)} \in SUBSET S
                     /\ Cardinality(T \ {Pick(T)}) = Cardinality(T) - 1
<1>1. IsFiniteSet(T) /\ Cardinality(T) \in Nat /\ (Cardinality(T) = 0 <=> T = {})
  BY FS_Subset, FS_CardinalityType, FS_EmptySet
<1>2. T # {} => Pick(T) \in T
  BY DEF Pick
<1> QED
  BY <1>1, <1>2, FS_RemoveElement

\* There is a function with that recursion, over a finite set of numbers.
LEMMA SumIterExists ==
  ASSUME NEW S, IsFiniteSet(S), NEW f, \A x \in S : f[x] \in Int
  PROVE  \E g \in [SUBSET S -> Int] : Adds(g, f, S)
<1> DEFINE Good(n) == \E g \in [SUBSET S -> Int] : AddsUpTo(n, g, f, S)
<1>1. ASSUME NEW i \in Nat, ~Good(i) PROVE FALSE
  <2>1. PICK n \in Nat : ~Good(n) /\ \A m \in Nat : m < n => Good(m)
    <3> DEFINE W == {m \in Nat : ~Good(m)}
    <3> HIDE DEF Good
    <3>1. W \subseteq Nat /\ W # {}
      BY <1>1
    <3>2. PICK n \in W : \A m \in W : n <= m
      <4> HIDE DEF W
      <4> QED BY <3>1, LeastNumber
    <3>3. n \in Nat /\ ~Good(n)
      BY <3>2
    <3>4. ASSUME NEW m \in Nat, m < n PROVE Good(m)
      BY <3>2, <3>3, <3>4
    <3> QED BY <3>3, <3>4
  <2>2. n # 0
    <3> DEFINE z == [s \in SUBSET S |-> 0]
    <3>1. ASSUME NEW s \in SUBSET S PROVE z[s] = 0 /\ (Cardinality(s) <= 0 => s = {})
      <4>1. Cardinality(s) \in Nat /\ (Cardinality(s) = 0 => s = {})
        BY PickOut
      <4> QED BY <4>1
    <3>2. z \in [SUBSET S -> Int]
      OBVIOUS
    <3> HIDE DEF z
    <3>3. AddsUpTo(0, z, f, S)
      BY <3>1 DEF AddsUpTo
    <3> QED BY <2>1, <3>2, <3>3
  <2>3. PICK g \in [SUBSET S -> Int] : AddsUpTo(n - 1, g, f, S)
    <3> HIDE DEF Good
    <3>1. Good(n - 1)
      BY <2>1, <2>2
    <3> USE DEF Good
    <3> QED BY <3>1
  <2> DEFINE h == [s \in SUBSET S |-> IF Cardinality(s) <= n - 1 THEN g[s]
                                      ELSE f[Pick(s)] + g[s \ {Pick(s)}]]
  <2>4. h \in [SUBSET S -> Int]
    <3> SUFFICES ASSUME NEW s \in SUBSET S, ~(Cardinality(s) <= n - 1)
                 PROVE  f[Pick(s)] + g[s \ {Pick(s)}] \in Int
      OBVIOUS
    <3> QED BY PickOut, <2>1, <2>2
  <2>5. ASSUME NEW s \in SUBSET S, Cardinality(s) <= n
        PROVE  h[s] = IF s = {} THEN 0 ELSE f[Pick(s)] + h[s \ {Pick(s)}]
    <3>1. CASE s = {}
      BY <3>1, PickOut, <2>1, <2>2, <2>3, FS_EmptySet DEF AddsUpTo
    <3>2. CASE s # {}
      <4>1. s \ {Pick(s)} \in SUBSET S /\ Cardinality(s \ {Pick(s)}) <= n - 1
        BY <3>2, PickOut, <2>1, <2>5
      <4>2. h[s \ {Pick(s)}] = g[s \ {Pick(s)}]
        BY <4>1
      <4>3. h[s] = f[Pick(s)] + g[s \ {Pick(s)}]
        BY <2>3, <3>2 DEF AddsUpTo
      <4> QED BY <3>2, <4>2, <4>3
    <3> QED BY <3>1, <3>2
  <2> HIDE DEF h
  <2>6. AddsUpTo(n, h, f, S)
    BY <2>5 DEF AddsUpTo
  <2> QED BY <2>1, <2>4, <2>6
<1>2. PICK g \in [SUBSET S -> Int] : AddsUpTo(Cardinality(S), g, f, S)
  <2>1. Cardinality(S) \in Nat
    BY FS_CardinalityType
  <2> QED BY <1>1, <2>1
<1>3. \A s \in SUBSET S : Cardinality(s) <= Cardinality(S)
  BY FS_Subset
<1>4. g = [s \in SUBSET S |-> IF s = {} THEN 0 ELSE f[Pick(s)] + g[s \ {Pick(s)}]]
  BY <1>2, <1>3 DEF AddsUpTo
<1> QED
  BY <1>4 DEF Adds

\* The recursion, on the subsets of a set.
AddsOn(g, f, S) ==
  \A T \in SUBSET S : g[T] = IF T = {} THEN 0 ELSE f[Pick(T)] + g[T \ {Pick(T)}]

\* Two functions with that recursion, over functions that are equal on a finite set,
\* are equal on its subsets.
LEMMA SameIter ==
  ASSUME NEW S, IsFiniteSet(S), NEW f, NEW e, NEW g, NEW h, \A x \in S : f[x] = e[x],
         AddsOn(g, f, S), AddsOn(h, e, S)
  PROVE  \A T \in SUBSET S : g[T] = h[T]
<1> DEFINE W == {T \in SUBSET S : g[T] # h[T]}
<1> SUFFICES ASSUME W # {} PROVE FALSE
  OBVIOUS
<1>1. PICK T \in W : \A x \in T : T \ {x} \notin W
  <2>1. W \subseteq SUBSET S
    OBVIOUS
  <2> HIDE DEF W
  <2> QED BY <2>1, LeastSubset
<1>2. T \in SUBSET S /\ g[T] # h[T]
  OBVIOUS
<1>3. CASE T = {}
  BY <1>2, <1>3 DEF AddsOn
<1>4. CASE T # {}
  <2> DEFINE p == Pick(T)
  <2>1. p \in T /\ p \in S /\ T \ {p} \in SUBSET S
    BY <1>2, <1>4, PickOut
  <2>2. T \ {p} \notin W
    BY <1>1, <2>1
  <2>3. g[T] = f[p] + g[T \ {p}] /\ h[T] = e[p] + h[T \ {p}]
    BY <1>2, <1>4 DEF AddsOn
  <2>4. g[T \ {p}] = h[T \ {p}]
    BY <2>1, <2>2
  <2>5. f[p] = e[p]
    BY <2>1
  <2> QED BY <1>2, <2>3, <2>4, <2>5
<1> QED
  BY <1>3, <1>4

\* The definition of SumIter is sound.
LEMMA SumIterType ==
  ASSUME NEW S, IsFiniteSet(S), NEW f, \A x \in S : f[x] \in Int
  PROVE  SumIter(f, S)[S] \in Int /\ AddsOn(SumIter(f, S), f, S)
<1> DEFINE h == SumIter(f, S)
<1>1. PICK g \in [SUBSET S -> Int] : Adds(g, f, S)
  BY SumIterExists
<1>2. Adds(h, f, S)
  BY <1>1 DEF SumIter
<1>3. AddsOn(h, f, S)
  BY <1>2 DEF Adds, AddsOn
<1>4. AddsOn(g, f, S)
  BY <1>1 DEF Adds, AddsOn
<1> HIDE DEF h
<1>5. g[S] = h[S]
  BY <1>3, <1>4, SameIter
<1> QED
  BY <1>3, <1>5 DEF h

\* A sum over a finite set is a number, and depends on what it sums up only.
LEMMA SumCongruent ==
  ASSUME NEW S, IsFiniteSet(S), NEW f, NEW e, \A x \in S : f[x] \in Int /\ e[x] = f[x]
  PROVE  Sum(f, S) \in Int /\ Sum(f, S) = Sum(e, S)
<1> DEFINE g == SumIter(f, S)
           h == SumIter(e, S)
<1>1. g[S] \in Int /\ AddsOn(g, f, S)
  BY SumIterType
<1>2. AddsOn(h, e, S)
  BY SumIterType
<1> HIDE DEF g, h
<1>3. g[S] = h[S]
  BY <1>1, <1>2, SameIter
<1> QED
  BY <1>1, <1>3, SumIsIter DEF g, h

\* The recursion over a set agrees with that over a subset.
LEMMA SumRecursion ==
  ASSUME NEW S, IsFiniteSet(S), NEW f, \A x \in S : f[x] \in Int
  PROVE  Sum(f, S) = IF S = {} THEN 0 ELSE f[Pick(S)] + Sum(f, S \ {Pick(S)})
<1>1. CASE S = {}
  BY <1>1, SumIsIter, SumIterType DEF AddsOn
<1>2. CASE S # {}
  <2> DEFINE p == Pick(S)
             R == S \ {p}
             g == SumIter(f, S)
             h == SumIter(f, R)
  <2>1. p \in S /\ R \in SUBSET S /\ IsFiniteSet(R)
    BY <1>2, PickOut, FS_Subset
  <2>2. AddsOn(g, f, S)
    BY SumIterType
  <2>3. AddsOn(h, f, R)
    BY <2>1, SumIterType
  <2>4. g[S] = f[p] + g[R]
    BY <1>2, <2>2 DEF AddsOn
  <2> HIDE DEF g, h, R
  <2>5. AddsOn(g, f, R)
    BY <2>1, <2>2 DEF AddsOn
  <2>6. g[R] = h[R]
    BY <2>1, <2>3, <2>5, SameIter
  <2>7. Sum(f, S) = g[S] /\ Sum(f, R) = h[R]
    BY SumIsIter DEF g, h
  <2> QED BY <1>2, <2>4, <2>6, <2>7 DEF R
<1> QED
  BY <1>1, <1>2

\* Any element may be taken out of a sum.
LEMMA SumOut ==
  ASSUME NEW S, IsFiniteSet(S), NEW f, \A x \in S : f[x] \in Int, NEW y \in S
  PROVE  Sum(f, S) = f[y] + Sum(f, S \ {y})
<1> DEFINE W == {T \in SUBSET S : \E x \in T : Sum(f, T) # f[x] + Sum(f, T \ {x})}
<1>1. ASSUME W # {} PROVE FALSE
  <2>1. PICK T \in W : \A x \in T : T \ {x} \notin W
    <3>1. W \subseteq SUBSET S
      OBVIOUS
    <3> HIDE DEF W
    <3> QED BY <1>1, <3>1, LeastSubset
  <2>2. PICK x \in T : Sum(f, T) # f[x] + Sum(f, T \ {x})
    BY <2>1
  <2> DEFINE p == Pick(T)
  <2>3. /\ T \in SUBSET S /\ IsFiniteSet(T) /\ p \in T
        /\ \A t \in T : f[t] \in Int
    BY <2>2, PickOut
  <2>4. Sum(f, T) = f[p] + Sum(f, T \ {p})
    BY <2>2, <2>3, SumRecursion
  <2>5. p # x
    BY <2>2, <2>4
  <2>6. T \ {p} \in SUBSET S /\ x \in T \ {p} /\ T \ {x} \in SUBSET S /\ p \in T \ {x}
    BY <2>2, <2>3, <2>5
  <2>7. Sum(f, T \ {p}) = f[x] + Sum(f, (T \ {p}) \ {x})
    BY <2>1, <2>3, <2>6
  <2>8. Sum(f, T \ {x}) = f[p] + Sum(f, (T \ {x}) \ {p})
    BY <2>1, <2>2, <2>6
  <2>9. (T \ {p}) \ {x} = (T \ {x}) \ {p} /\ IsFiniteSet((T \ {p}) \ {x})
    BY <2>3, FS_Subset
  <2>10. Sum(f, (T \ {p}) \ {x}) \in Int
    BY <2>3, <2>9, SumCongruent
  <2> DEFINE rest == Sum(f, (T \ {p}) \ {x})
  <2>11. /\ Sum(f, T) = f[p] + (f[x] + rest) /\ Sum(f, T \ {x}) = f[p] + rest
         /\ rest \in Int /\ f[p] \in Int /\ f[x] \in Int
    BY <2>3, <2>4, <2>7, <2>8, <2>9, <2>10
  <2> HIDE DEF rest, p
  <2> QED BY <2>2, <2>11
<1>2. S \in SUBSET S
  OBVIOUS
<1> QED
  BY <1>1, <1>2

\* The term of one element, if it is there.
Part(f, S, y) == IF y \in S THEN f[y] ELSE 0

\* How a sum changes when one term of it does: the element may change its value, join
\* the set or leave it.
LEMMA SumChange ==
  ASSUME NEW S, IsFiniteSet(S), NEW T, IsFiniteSet(T), NEW f, NEW e, NEW y,
         \A x \in S : f[x] \in Int, \A x \in T : e[x] \in Int,
         S \ {y} = T \ {y}, \A x \in S \ {y} : e[x] = f[x]
  PROVE  Sum(e, T) - Part(e, T, y) = Sum(f, S) - Part(f, S, y)
<1> DEFINE R == S \ {y}
<1>1. IsFiniteSet(R) /\ R \in SUBSET S /\ R \in SUBSET T
  BY FS_Subset
<1>2. Sum(f, R) = Sum(e, R) /\ Sum(f, R) \in Int
  BY <1>1, SumCongruent
<1>3. Sum(f, S) = Part(f, S, y) + Sum(f, R)
  <2>1. CASE y \in S
    BY <2>1, SumOut DEF Part
  <2>2. CASE y \notin S
    <3>1. R = S
      BY <2>2
    <3> HIDE DEF R
    <3> QED BY <2>2, <3>1, <1>2 DEF Part
  <2> QED BY <2>1, <2>2
<1>4. Sum(e, T) = Part(e, T, y) + Sum(e, R)
  <2>1. CASE y \in T
    BY <2>1, SumOut DEF Part
  <2>2. CASE y \notin T
    <3>1. R = T
      BY <2>2
    <3> HIDE DEF R
    <3> QED BY <2>2, <3>1, <1>2 DEF Part
  <2> QED BY <2>1, <2>2
<1>5. Part(f, S, y) \in Int /\ Part(e, T, y) \in Int
  BY DEF Part
<1> QED
  BY <1>2, <1>3, <1>4, <1>5

\* A sum whose terms are all nothing, but for one of them.
LEMMA SumOfOne ==
  ASSUME NEW S, IsFiniteSet(S), NEW f, NEW y, \A x \in S : f[x] \in Int,
         \A x \in S \ {y} : f[x] = 0
  PROVE  Sum(f, S) = IF y \in S THEN f[y] ELSE 0
<1>1. ASSUME NEW R, IsFiniteSet(R), \A x \in R : f[x] = 0 PROVE Sum(f, R) = 0
  <2> DEFINE W == {T \in SUBSET R : Sum(f, T) # 0}
  <2> SUFFICES ASSUME W # {} PROVE FALSE
    OBVIOUS
  <2>1. PICK T \in W : IsFiniteSet(T) /\ \A x \in T : T \ {x} \notin W
    <3>1. W \subseteq SUBSET R
      OBVIOUS
    <3> HIDE DEF W
    <3> QED BY <1>1, <3>1, LeastSubset
  <2>2. Sum(f, T) = IF T = {} THEN 0 ELSE f[Pick(T)] + Sum(f, T \ {Pick(T)})
    <3>1. \A x \in T : f[x] \in Int
      BY <1>1
    <3> QED BY <2>1, <3>1, SumRecursion
  <2>3. T # {} => Pick(T) \in T
    BY DEF Pick
  <2> QED BY <1>1, <2>1, <2>2, <2>3
<1>2. IsFiniteSet(S \ {y})
  BY FS_Subset
<1>3. Sum(f, S \ {y}) = 0
  BY <1>1, <1>2
<1>4. CASE y \in S
  BY <1>3, <1>4, SumOut
<1>5. CASE y \notin S
  BY <1>1, <1>5
<1> QED
  BY <1>4, <1>5

\* A sum whose terms are all smaller is smaller.
LEMMA SumMonotone ==
  ASSUME NEW S, IsFiniteSet(S), NEW f, NEW e,
         \A x \in S : f[x] \in Int /\ e[x] \in Int /\ f[x] <= e[x]
  PROVE  Sum(f, S) <= Sum(e, S)
<1> DEFINE W == {T \in SUBSET S : ~(Sum(f, T) <= Sum(e, T))}
<1>1. ASSUME W # {} PROVE FALSE
  <2>1. PICK T \in W : IsFiniteSet(T) /\ \A x \in T : T \ {x} \notin W
    <3>1. W \subseteq SUBSET S
      OBVIOUS
    <3> HIDE DEF W
    <3> QED BY <1>1, <3>1, LeastSubset
  <2>2. T \in SUBSET S /\ ~(Sum(f, T) <= Sum(e, T))
    BY <2>1
  <2>3. \A x \in T : f[x] \in Int /\ e[x] \in Int /\ f[x] <= e[x]
    BY <2>2
  <2>4. T # {}
    <3>1. T = {} => Sum(f, T) = 0 /\ Sum(e, T) = 0
      BY <2>1, <2>3, SumRecursion
    <3> QED BY <2>2, <3>1
  <2>5. PICK y \in T : Sum(f, T) = f[y] + Sum(f, T \ {y}) /\ Sum(e, T) = e[y] + Sum(e, T \ {y})
    BY <2>1, <2>3, <2>4, SumOut
  <2>6. PICK R : R = T \ {y}
    OBVIOUS
  <2>7. IsFiniteSet(R) /\ \A x \in R : f[x] \in Int /\ e[x] \in Int
    BY <2>1, <2>3, <2>6, FS_Subset
  <2>8. Sum(f, R) \in Int /\ Sum(e, R) \in Int
    BY <2>7, SumCongruent
  <2>9. R \in SUBSET S /\ R \notin W
    BY <2>1, <2>2, <2>6
  <2>10. Sum(f, R) <= Sum(e, R)
    BY <2>9
  <2> QED BY <2>2, <2>3, <2>5, <2>6, <2>8, <2>10
<1>2. S \in SUBSET S
  OBVIOUS
<1> QED
  BY <1>1, <1>2

=============================================================================
