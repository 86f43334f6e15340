---------------------------- MODULE SequenceLemmas ----------------------------
(***************************************************************************)
(* Lemmas the proofs of several modules need: that a set of numbers has a  *)
(* least member, induction with the property as a set, and what the        *)
(* operators on sequences of sequences of the community modules return.    *)
(***************************************************************************)
EXTENDS Integers, Sequences, SequencesExt, FiniteSetsExt, FiniteSetTheorems, SequenceTheorems, TLAPS

-----------------------------------------------------------------------------
(* Sets of numbers.                                                         *)

\* A set of numbers has a least one.
LEMMA Least ==
  ASSUME NEW S, S \subseteq Nat, S # {}
  PROVE  \E m \in S : \A x \in S : m <= x
<1> DEFINE T == {0 .. m : m \in S}
<1>1. T \subseteq FiniteSubsetsOf(Nat)
  <2>1. \A m \in Nat : IsFiniteSet(0 .. m)
    BY FS_Interval
  <2> QED BY <2>1 DEF FiniteSubsetsOf
<1>2. PICK t \in T : \A y \in T : ~(<<y, t>> \in StrictSubsetOrdering(Nat))
  <2> HIDE DEF T
  <2>1. T # {}
    BY DEF T
  <2>2. IsWellFoundedOn(StrictSubsetOrdering(Nat), FiniteSubsetsOf(Nat))
    BY FS_StrictSubsetOrderingWellFounded
  <2> QED BY <1>1, <2>1, <2>2, WFMin
<1>3. PICK m \in S : t = 0 .. m
  OBVIOUS
<1>4. ASSUME NEW x \in S, x < m PROVE FALSE
  <2>1. 0 .. x \in T /\ 0 .. x \subseteq Nat /\ t \subseteq Nat
    BY <1>3
  <2>2. 0 .. x \subseteq t /\ m \in t /\ m \notin 0 .. x
    BY <1>3, <1>4
  <2>3. <<0 .. x, t>> \in StrictSubsetOrdering(Nat)
    BY <2>1, <2>2 DEF StrictSubsetOrdering
  <2> QED BY <1>2, <2>1, <2>3
<1> QED BY <1>4

\* One that is bounded has a greatest.
LEMMA Greatest ==
  ASSUME NEW S, S \subseteq Nat, S # {}, NEW b \in Nat, \A x \in S : x <= b
  PROVE  \E m \in S : \A x \in S : m >= x
<1> DEFINE T == {n \in Nat : b - n \in S}
<1>1. PICK x \in S : x \in Nat /\ x <= b
  OBVIOUS
<1>2. b - (b - x) = x /\ b - x \in Nat
  BY <1>1
<1>3. T # {} /\ T \subseteq Nat
  BY <1>1, <1>2
<1>4. PICK n \in T : \A y \in T : n <= y
  <2> HIDE DEF T
  <2> QED BY <1>3, Least
<1>5. ASSUME NEW y \in S PROVE b - n >= y
  <2>1. y \in Nat /\ y <= b /\ b - (b - y) = y /\ b - y \in Nat /\ b - (b - y) \in S
    OBVIOUS
  <2>2. b - y \in T /\ n \in Nat
    BY <2>1
  <2> HIDE DEF T
  <2>3. n <= b - y
    BY <1>4, <2>2
  <2> QED BY <2>1, <2>2, <2>3
<1> QED BY <1>4, <1>5

\* What is true of 0 and goes from a number to the next is true of all up to N.
LEMMA Induct ==
  ASSUME NEW N \in Nat, NEW S, 0 \in S, \A n \in 0 .. N - 1 : n \in S => n + 1 \in S
  PROVE  \A n \in 0 .. N : n \in S
<1> DEFINE T == (0 .. N) \ S
<1>1. SUFFICES ASSUME T # {} PROVE FALSE
  OBVIOUS
<1>2. T \subseteq Nat
  OBVIOUS
<1>3. PICK m \in T : \A x \in T : m <= x
  <2> HIDE DEF T
  <2> QED BY <1>1, <1>2, Least
<1>4. m \in 1 .. N /\ m \notin S /\ m - 1 \in 0 .. N - 1 /\ (m - 1) + 1 = m
  OBVIOUS
<1>5. m - 1 \notin T
  <2> HIDE DEF T
  <2> QED BY <1>3, <1>4
<1> QED BY <1>4, <1>5

LEMMA MinIsLeast ==
  ASSUME NEW S, S \subseteq Nat, S # {}
  PROVE  Min(S) \in S /\ \A x \in S : Min(S) <= x
BY Least DEF Min

LEMMA MaxIsGreatest ==
  ASSUME NEW S, S \subseteq Nat, S # {}, NEW b \in Nat, \A x \in S : x <= b
  PROVE  Max(S) \in S /\ \A x \in S : Max(S) >= x
BY Greatest DEF Max

-----------------------------------------------------------------------------
(* Sequences.                                                               *)

\* f flattens the first parts, up to each of n.
Flattens(f, ss, n) == \A k \in 1 .. n : f[k] = IF k = 1 THEN ss[k] ELSE f[k - 1] \o ss[k]

LEMMA FlattenEmpty == FlattenSeq(<<>>) = <<>>
BY DEF FlattenSeq

\* Flattening is defined by its last part.
LEMMA FlattenRule ==
  ASSUME NEW S, NEW ss \in Seq(Seq(S)), NEW n \in Nat \ {0}, n = Len(ss)
  PROVE  \E f : FlattenSeq(ss) = f[n] /\ Flattens(f, ss, n)
<1> DEFINE T == {b \in Nat : \E f : Flattens(f, ss, b)}
<1>1. 0 \in T
  BY DEF Flattens
<1>2. ASSUME NEW b \in 0 .. n - 1, b \in T PROVE b + 1 \in T
  <2>1. PICK f : Flattens(f, ss, b)
    BY <1>2
  <2> DEFINE g == [k \in 1 .. b + 1 |-> IF k <= b THEN f[k] ELSE IF k = 1 THEN ss[k] ELSE f[k - 1] \o ss[k]]
  <2>2. Flattens(g, ss, b + 1)
    BY <2>1 DEF Flattens
  <2> HIDE DEF g
  <2> QED BY <2>2
<1>3. n \in T
  <2> HIDE DEF T
  <2>1. n \in Nat /\ n \in 0 .. n
    OBVIOUS
  <2> QED BY <2>1, <1>1, <1>2, Induct
<1>4. PICK f : Flattens(f, ss, n)
  BY <1>3
<1> DEFINE g == [k \in 1 .. n |-> f[k]]
<1>5. g = [k \in 1 .. n |-> IF k = 1 THEN ss[k] ELSE g[k - 1] \o ss[k]]
  BY <1>4 DEF Flattens
<1> HIDE DEF g
<1> DEFINE flatten[k \in 1 .. Len(ss)] == IF k = 1 THEN ss[k] ELSE flatten[k - 1] \o ss[k]
<1>6. flatten = [k \in 1 .. n |-> IF k = 1 THEN ss[k] ELSE flatten[k - 1] \o ss[k]]
  BY <1>5
<1>7. FlattenSeq(ss) = flatten[n]
  BY DEF FlattenSeq
<1> HIDE DEF flatten
<1> QED BY <1>6, <1>7 DEF Flattens

\* What is flattened of the first parts does not depend on what follows them.
SameUpTo(ss, tt, n) == \A k \in 1 .. n : ss[k] = tt[k]

LEMMA FlattenSame ==
  ASSUME NEW n \in Nat, NEW ss, NEW tt, SameUpTo(ss, tt, n),
         NEW f, Flattens(f, ss, n), NEW g, Flattens(g, tt, n)
  PROVE  SameUpTo(f, g, n)
<1> DEFINE T == {k \in Nat : k = 0 \/ f[k] = g[k]}
<1>1. 0 \in T
  OBVIOUS
<1>2. ASSUME NEW k \in 0 .. n - 1, k \in T PROVE k + 1 \in T
  <2>1. k + 1 \in 1 .. n /\ (k + 1) - 1 = k
    OBVIOUS
  <2>2. f[k + 1] = g[k + 1]
    BY <1>2, <2>1 DEF Flattens, SameUpTo
  <2> QED BY <2>1, <2>2
<1>3. \A k \in 0 .. n : k \in T
  <2> HIDE DEF T
  <2> QED BY <1>1, <1>2, Induct
<1> QED BY <1>3 DEF SameUpTo

LEMMA FlattenAppend ==
  ASSUME NEW S, NEW ss \in Seq(Seq(S)), NEW s \in Seq(S)
  PROVE  FlattenSeq(Append(ss, s)) = FlattenSeq(ss) \o s
<1>1. PICK tt : tt = Append(ss, s)
  OBVIOUS
<1>2. PICK n \in Nat : n = Len(ss)
  BY LenProperties
<1>3. /\ tt \in Seq(Seq(S)) /\ Len(tt) = n + 1 /\ tt[n + 1] = s
      /\ \A k \in 1 .. n : tt[k] = ss[k]
  BY <1>1, <1>2
<1>4. PICK g : FlattenSeq(tt) = g[n + 1] /\ Flattens(g, tt, n + 1)
  <2>1. n + 1 \in Nat \ {0}
    OBVIOUS
  <2> QED BY <2>1, <1>3, FlattenRule
<1>5. CASE n = 0
  <2>1. ss = <<>> /\ FlattenSeq(ss) = <<>>
    BY <1>2, <1>5, EmptySeq, FlattenEmpty
  <2>2. FlattenSeq(tt) = s
    BY <1>3, <1>4, <1>5 DEF Flattens
  <2> QED BY <1>1, <2>1, <2>2, ConcatEmptySeq
<1>6. CASE n # 0
  <2>1. PICK f : FlattenSeq(ss) = f[n] /\ Flattens(f, ss, n)
    <3>1. n \in Nat \ {0}
      BY <1>6
    <3> QED BY <1>2, <3>1, FlattenRule
  <2>2. \A k \in 1 .. n : k \in 1 .. n + 1
    OBVIOUS
  <2>3. Flattens(g, tt, n)
    BY <1>4, <2>2 DEF Flattens
  <2>4. SameUpTo(f, g, n)
    <3>1. SameUpTo(ss, tt, n)
      BY <1>3 DEF SameUpTo
    <3> QED BY <3>1, <2>1, <2>3, FlattenSame
  <2>5. n \in 1 .. n /\ n + 1 \in 1 .. n + 1 /\ n + 1 # 1 /\ (n + 1) - 1 = n
    BY <1>6
  <2>6. g[n + 1] = g[n] \o s
    BY <1>3, <1>4, <2>5 DEF Flattens
  <2> QED BY <1>1, <1>4, <2>1, <2>4, <2>5, <2>6 DEF SameUpTo
<1> QED BY <1>5, <1>6

LEMMA FlattenType ==
  ASSUME NEW S, NEW ss \in Seq(Seq(S))
  PROVE  FlattenSeq(ss) \in Seq(S)
<1>1. PICK n \in Nat : n = Len(ss)
  BY LenProperties
<1>2. CASE n = 0
  BY <1>1, <1>2, EmptySeq, FlattenEmpty
<1>3. CASE n # 0
  <2>1. n \in Nat \ {0} /\ n \in 0 .. n
    BY <1>3
  <2>2. PICK f : FlattenSeq(ss) = f[n] /\ Flattens(f, ss, n)
    BY <1>1, <2>1, FlattenRule
  <2>3. \A k \in 1 .. n : ss[k] \in Seq(S)
    BY <1>1, ElementOfSeq
  <2> DEFINE T == {k \in Nat : k = 0 \/ f[k] \in Seq(S)}
  <2>4. 0 \in T
    OBVIOUS
  <2>5. ASSUME NEW k \in 0 .. n - 1, k \in T PROVE k + 1 \in T
    <3>1. k + 1 \in 1 .. n /\ (k + 1) - 1 = k /\ k + 1 \in Nat
      OBVIOUS
    <3>2. f[k + 1] = IF k + 1 = 1 THEN ss[k + 1] ELSE f[k] \o ss[k + 1]
      BY <2>2, <3>1 DEF Flattens
    <3>3. ss[k + 1] \in Seq(S)
      BY <2>3, <3>1
    <3>4. CASE k = 0
      BY <3>1, <3>2, <3>3, <3>4
    <3>5. CASE k # 0
      <4>1. f[k] \in Seq(S)
        BY <2>5, <3>5
      <4>2. k + 1 # 1
        BY <3>5
      <4>3. f[k + 1] = f[k] \o ss[k + 1]
        BY <3>2, <4>2
      <4>4. f[k + 1] \in Seq(S)
        BY <3>3, <4>1, <4>3, ConcatProperties
      <4> QED BY <3>1, <4>4
    <3> QED BY <3>4, <3>5
  <2>6. n \in T
    <3> HIDE DEF T
    <3> QED BY <2>1, <2>4, <2>5, Induct
  <2> QED BY <1>3, <2>2, <2>6
<1> QED BY <1>2, <1>3

LEMMA FlattenConcat ==
  ASSUME NEW S, NEW ss \in Seq(Seq(S)), NEW tt \in Seq(Seq(S))
  PROVE  FlattenSeq(ss \o tt) = FlattenSeq(ss) \o FlattenSeq(tt)
<1> DEFINE T == {n \in Nat : \A uu \in Seq(Seq(S)) : Len(uu) = n =>
                   FlattenSeq(ss \o uu) = FlattenSeq(ss) \o FlattenSeq(uu)}
<1>1. 0 \in T
  <2>1. ASSUME NEW uu \in Seq(Seq(S)), Len(uu) = 0
        PROVE  FlattenSeq(ss \o uu) = FlattenSeq(ss) \o FlattenSeq(uu)
    <3>1. uu = <<>> /\ ss \o uu = ss
      BY <2>1, EmptySeq, ConcatEmptySeq
    <3> QED BY <3>1, FlattenEmpty, FlattenType, ConcatEmptySeq
  <2> QED BY <2>1
<1>2. PICK N \in Nat : N = Len(tt)
  BY LenProperties
<1>3. ASSUME NEW n \in 0 .. N - 1, n \in T PROVE n + 1 \in T
  <2>1. ASSUME NEW uu \in Seq(Seq(S)), Len(uu) = n + 1
        PROVE  FlattenSeq(ss \o uu) = FlattenSeq(ss) \o FlattenSeq(uu)
    <3>1. uu # <<>>
      BY <2>1
    <3>2. PICK vv \in Seq(Seq(S)), s \in Seq(S) : uu = Append(vv, s)
      BY <3>1, SequenceEmptyOrAppend
    <3>3. Len(vv) = n
      BY <2>1, <3>2
    <3>4. FlattenSeq(ss \o vv) = FlattenSeq(ss) \o FlattenSeq(vv)
      BY <1>3, <3>3
    <3>5. ss \o uu = Append(ss \o vv, s) /\ ss \o vv \in Seq(Seq(S))
      BY <3>2
    <3>6. FlattenSeq(uu) = FlattenSeq(vv) \o s
      BY <3>2, FlattenAppend
    <3>7. FlattenSeq(ss \o uu) = FlattenSeq(ss \o vv) \o s
      BY <3>5, FlattenAppend
    <3>8. PICK a \in Seq(S), b \in Seq(S) : a = FlattenSeq(ss) /\ b = FlattenSeq(vv)
      BY FlattenType
    <3>9. (a \o b) \o s = a \o (b \o s)
      BY SMTT(60), ConcatAssociative
    <3> QED BY <3>4, <3>6, <3>7, <3>8, <3>9
  <2> QED BY <2>1
<1>4. N \in T
  <2>1. N \in 0 .. N
    OBVIOUS
  <2> HIDE DEF T
  <2> QED BY <2>1, <1>1, <1>3, Induct
<1> QED BY <1>2, <1>4

LEMMA FlattenOne ==
  ASSUME NEW S, NEW s \in Seq(S)
  PROVE  FlattenSeq(<<s>>) = s
<1>1. <<s>> = Append(<<>>, s) /\ <<>> \in Seq(Seq(S))
  OBVIOUS
<1>2. FlattenSeq(<<s>>) = FlattenSeq(<<>>) \o s
  BY <1>1, FlattenAppend
<1> QED BY <1>2, FlattenEmpty, ConcatEmptySeq

\* a is made of b and c, in this order; a is r backwards.
IsConcat(a, b, c, m, n) ==
  /\ Len(a) = m + n
  /\ \A i \in 1 .. m : a[i] = b[i]
  /\ \A i \in m + 1 .. m + n : a[i] = c[i - m]
Mirrors(a, r, n) == Len(a) = n /\ \A i \in 1 .. n : a[i] = r[(n - i) + 1]

LEMMA ReverseFacts ==
  ASSUME NEW S, NEW ss \in Seq(S)
  PROVE  Reverse(ss) \in Seq(S) /\ Mirrors(Reverse(ss), ss, Len(ss))
<1>1. PICK n \in Nat : n = Len(ss)
  BY LenProperties
<1>2. \A i \in 1 .. n : (n - i) + 1 \in 1 .. n
  OBVIOUS
<1>3. \A i \in 1 .. n : ss[(n - i) + 1] \in S
  BY <1>1, <1>2, ElementOfSeq
<1>4. [i \in 1 .. n |-> ss[(n - i) + 1]] \in Seq(S)
  BY <1>3
<1>5. Reverse(ss) = [i \in 1 .. n |-> ss[(n - i) + 1]]
  BY <1>1 DEF Reverse
<1>6. Mirrors([i \in 1 .. n |-> ss[(n - i) + 1]], ss, n)
  BY DEF Mirrors
<1> QED BY <1>1, <1>4, <1>5, <1>6

LEMMA ConcatFacts ==
  ASSUME NEW S, NEW ss \in Seq(S), NEW tt \in Seq(S), NEW uu, uu = ss \o tt
  PROVE  uu \in Seq(S) /\ IsConcat(uu, ss, tt, Len(ss), Len(tt))
BY ConcatProperties DEF IsConcat

LEMMA MirrorJoined ==
  ASSUME NEW m \in Nat, NEW n \in Nat, NEW ss, NEW tt, NEW uu, IsConcat(uu, ss, tt, m, n),
         NEW a, Mirrors(a, uu, m + n), NEW b, Mirrors(b, tt, n), NEW c, Mirrors(c, ss, m),
         NEW d, IsConcat(d, b, c, n, m)
  PROVE  Len(a) = Len(d) /\ Len(a) = m + n /\ \A i \in 1 .. m + n : a[i] = d[i]
<1>1. Len(a) = m + n /\ Len(d) = m + n
  BY DEF Mirrors, IsConcat
<1>2. ASSUME NEW i \in 1 .. m + n PROVE a[i] = d[i]
  <2>1. PICK k \in 1 .. m + n : k = ((m + n) - i) + 1 /\ a[i] = uu[k]
    <3>1. ((m + n) - i) + 1 \in 1 .. m + n
      OBVIOUS
    <3> QED BY <3>1 DEF Mirrors
  <2>2. CASE i <= n
    <3>1. i \in 1 .. n /\ k \in m + 1 .. m + n /\ k - m = (n - i) + 1
      BY <2>1, <2>2
    <3>2. uu[k] = tt[k - m] /\ d[i] = b[i] /\ b[i] = tt[(n - i) + 1]
      BY <3>1 DEF IsConcat, Mirrors
    <3> QED BY <3>1, <3>2, <2>1
  <2>3. CASE i > n
    <3>1. i \in n + 1 .. n + m /\ i - n \in 1 .. m /\ k \in 1 .. m /\ k = (m - (i - n)) + 1
      BY <2>1, <2>3
    <3>2. uu[k] = ss[k] /\ d[i] = c[i - n] /\ c[i - n] = ss[(m - (i - n)) + 1]
      BY <3>1 DEF IsConcat, Mirrors
    <3> QED BY <3>1, <3>2, <2>1
  <2> QED BY <2>2, <2>3
<1> QED BY <1>1, <1>2

LEMMA ReverseConcat ==
  ASSUME NEW S, NEW ss \in Seq(S), NEW tt \in Seq(S)
  PROVE  Reverse(ss \o tt) = Reverse(tt) \o Reverse(ss)
<1>1. PICK m \in Nat, n \in Nat : m = Len(ss) /\ n = Len(tt)
  BY LenProperties
<1>2. PICK uu \in Seq(S) : uu = ss \o tt
  BY ConcatProperties
<1>3. IsConcat(uu, ss, tt, m, n) /\ Len(uu) = m + n
  BY <1>1, <1>2, ConcatFacts DEF IsConcat
<1>4. PICK a \in Seq(S), b \in Seq(S), c \in Seq(S) :
        a = Reverse(uu) /\ b = Reverse(tt) /\ c = Reverse(ss)
  BY ReverseFacts
<1>5. Mirrors(a, uu, m + n)
  BY <1>3, <1>4, ReverseFacts
<1>6. Mirrors(b, tt, n) /\ Mirrors(c, ss, m)
  BY <1>1, <1>4, ReverseFacts
<1>7. PICK d \in Seq(S) : d = b \o c
  BY ConcatProperties
<1>8. Len(b) = n /\ Len(c) = m
  BY <1>6 DEF Mirrors
<1>9. IsConcat(d, b, c, n, m)
  BY <1>7, <1>8, ConcatFacts
<1>10. Len(a) = Len(d) /\ Len(a) = m + n /\ \A i \in 1 .. m + n : a[i] = d[i]
  BY <1>3, <1>5, <1>6, <1>9, MirrorJoined
<1>11. a = d
  BY <1>10, SeqEqual
<1> QED BY <1>2, <1>4, <1>7, <1>11

LEMMA CutJoined ==
  ASSUME NEW S, NEW a \in Seq(S), NEW b \in Nat, NEW c \in Nat, NEW d \in Nat, NEW e \in Nat,
         1 <= b, b <= d, d = c + 1, c <= e, e <= Len(a)
  PROVE  SubSeq(a, b, c) \o SubSeq(a, d, e) = SubSeq(a, b, e)
OBVIOUS
===============================================================================
