--------------------------- MODULE TableSort_proofs ---------------------------
(***************************************************************************)
(* That table.sort keeps the elements whatever its order function answers, *)
(* and with an order sorts them and stays within the table, for tables of  *)
(* any size and any weights; and that its recursion is shallow.            *)
(***************************************************************************)
EXTENDS TableSort, SequenceLemmas

-----------------------------------------------------------------------------
(* Lemmas about numbers, tables and ranges.                                 *)

\* The middle lies between the ends.
LEMMA Middle ==
  ASSUME NEW a \in Int, NEW b \in Int, b - a >= 2
  PROVE  (a + b) \div 2 \in Int /\ a < (a + b) \div 2 /\ (a + b) \div 2 < b
OBVIOUS

\* Tables of n elements with an index at either end, and what they keep.
Tables(n) == [1 .. n + 2 -> (1 .. n) \cup {Absent}]
Keeps(f, n) ==
  /\ \A x \in 1 .. n : \E a \in 1 .. n + 2 : f[a] = x
  /\ \A a, b \in 1 .. n + 2 : f[a] = f[b] => a = b \/ f[a] = Absent

LEMMA TableIsSeq ==
  ASSUME NEW n \in Nat, NEW f \in Tables(n)
  PROVE  f \in Seq((1 .. n) \cup {Absent}) /\ Len(f) = n + 2 /\ DOMAIN f = 1 .. n + 2
BY DEF Tables

\* g is f with two of its elements exchanged.
Exchanged(f, g, n, a, b) ==
  g \in Tables(n) /\ g[a] = f[b] /\ g[b] = f[a] /\ \A c \in 1 .. n + 2 : c # a /\ c # b => g[c] = f[c]

LEMMA Exchange ==
  ASSUME NEW n \in Nat, NEW f \in Tables(n), NEW a \in 1 .. n + 2, NEW b \in 1 .. n + 2
  PROVE  Exchanged(f, [f EXCEPT ![a] = f[b], ![b] = f[a]], n, a, b)
BY DEF Tables, Exchanged

LEMMA ExchangeKeeps ==
  ASSUME NEW n \in Nat, NEW f \in Tables(n), NEW a \in 1 .. n + 2, NEW b \in 1 .. n + 2,
         NEW g, Exchanged(f, g, n, a, b), Keeps(f, n)
  PROVE  Keeps(g, n)
<1>1. ASSUME NEW x \in 1 .. n PROVE \E c \in 1 .. n + 2 : g[c] = x
  BY DEF Keeps, Exchanged
<1>2. ASSUME NEW c \in 1 .. n + 2, NEW d \in 1 .. n + 2, g[c] = g[d]
      PROVE  c = d \/ g[c] = Absent
  BY <1>2 DEF Keeps, Exchanged
<1> QED BY <1>1, <1>2 DEF Keeps

-----------------------------------------------------------------------------
(* What is read and written lies within the table and the index at either   *)
(* end, whatever the order function answers.                                *)

Ranges == [l : Int, u : Int]
Inside(rs, n) == \A k \in 1 .. Len(rs) : 1 <= rs[k].l /\ rs[k].u <= n
Comparing == compare \notin {"done", "error"}
Looping == compare \in {"up", "down"}

SortTypeOK ==
  /\ N \in Nat /\ N >= 2 /\ elems \in Tables(N)
  /\ wild \in BOOLEAN /\ i \in Int /\ j \in Int
  /\ ranges \in Seq(Ranges) /\ Inside(ranges, N)
  /\ compare \in {"ends", "middle with l", "u with middle", "up", "down", "done", "error"}
Bounds ==
  /\ Comparing => ranges # <<>> /\ l < u
  /\ compare = "done" => ranges = <<>>
  /\ compare \in {"middle with l", "u with middle"} => u - l >= 2
  /\ Looping => u - l >= 3 /\ l + 1 <= i /\ i <= u + 1
  /\ compare = "up" => l + 1 <= j /\ j <= u - 1
  /\ compare = "down" => l - 1 <= j /\ j <= u - 2
SafeInv == SortTypeOK /\ Bounds /\ Keeps(elems, N)

\* The activations go on with what is left of rs when k trivial ranges are dropped.
Resumes(rs, k) ==
  /\ ranges' \in Seq(Ranges) /\ Len(ranges') = Len(rs) - k
  /\ \A q \in 1 .. Len(rs) - k : ranges'[q] = rs[q + k]
  /\ \A q \in 1 .. k : rs[q].l >= rs[q].u
  /\ \/ k = Len(rs) /\ ranges' = <<>> /\ compare' = "done"
     \/ k < Len(rs) /\ ranges' # <<>> /\ ranges'[1].l < ranges'[1].u /\ compare' = "ends"

LEMMA GoesOn ==
  ASSUME NEW rs \in Seq(Ranges), GoOnWith(rs)
  PROVE  \E k \in 0 .. Len(rs) : Resumes(rs, k)
<1> DEFINE rest == {k \in DOMAIN rs : rs[k].l < rs[k].u}
<1>1. Len(rs) \in Nat /\ DOMAIN rs = 1 .. Len(rs) /\ \A q \in 1 .. Len(rs) : rs[q] \in Ranges
  OBVIOUS
<1>2. CASE rest = {}
  <2>1. ranges' = <<>> /\ compare' = "done"
    BY <1>2 DEF GoOnWith
  <2>2. \A q \in 1 .. Len(rs) : rs[q].l >= rs[q].u
    BY <1>1, <1>2 DEF Ranges
  <2>3. Resumes(rs, Len(rs))
    BY <2>1, <2>2, <1>1 DEF Resumes
  <2> QED BY <2>3, <1>1
<1>3. CASE rest # {}
  <2>1. rest \in SUBSET Nat
    BY <1>1
  <2>2. \E k \in rest : \A q \in rest : k <= q
    BY <1>3, <2>1, Least
  <2>3. PICK k : k = CHOOSE x \in rest : \A q \in rest : x <= q
    OBVIOUS
  <2>4. k \in rest /\ \A q \in rest : k <= q
    BY <2>2, <2>3, Zenon
  <2>5. ranges' = SubSeq(rs, k, Len(rs)) /\ compare' = "ends"
    BY <1>3, <2>3, Zenon DEF GoOnWith
  <2>6. k \in 1 .. Len(rs) /\ rs[k].l < rs[k].u
    BY <2>4, <1>1
  <2>7. /\ ranges' \in Seq(Ranges) /\ Len(ranges') = Len(rs) - (k - 1)
        /\ \A q \in 1 .. Len(rs) - (k - 1) : ranges'[q] = rs[q + (k - 1)]
    BY <2>5, <2>6, <1>1
  <2>8. \A q \in 1 .. k - 1 : rs[q].l >= rs[q].u
    <3>1. TAKE q \in 1 .. k - 1
    <3>2. q \in 1 .. Len(rs) /\ q < k /\ q \in Nat /\ k \in Nat
      BY <2>6, <1>1
    <3>3. q \notin rest
      BY <3>2, <2>4
    <3> QED BY <3>2, <3>3, <1>1 DEF Ranges
  <2>9. ranges' # <<>> /\ ranges'[1] = rs[k]
    BY <2>6, <2>7, <1>1
  <2>10. Resumes(rs, k - 1)
    BY <2>5, <2>6, <2>7, <2>8, <2>9, <1>1 DEF Resumes
  <2> QED BY <2>10, <2>6, <1>1
<1> QED BY <1>2, <1>3

\* Going on with ranges of the table leaves the indices where they may be.
LEMMA GoesOnInside ==
  ASSUME NEW n \in Nat, NEW rs \in Seq(Ranges), Inside(rs, n), GoOnWith(rs)
  PROVE  /\ ranges' \in Seq(Ranges) /\ Inside(ranges', n) /\ compare' \in {"ends", "done"} /\ Bounds'
<1>1. PICK k \in 0 .. Len(rs) : Resumes(rs, k)
  BY GoesOn
<1>2. Len(rs) \in Nat
  OBVIOUS
<1>3. ranges' \in Seq(Ranges) /\ compare' \in {"ends", "done"}
  BY <1>1 DEF Resumes
<1>4. Inside(ranges', n)
  BY <1>1, <1>2 DEF Resumes, Inside
<1>5. \/ ranges' = <<>> /\ compare' = "done"
      \/ ranges' # <<>> /\ Head(ranges').l < Head(ranges').u /\ compare' = "ends"
  BY <1>1, <1>3 DEF Resumes
<1>6. Bounds'
  BY <1>5 DEF Bounds, Comparing, Looping, l, u
<1> QED BY <1>3, <1>4, <1>6

LEMMA Positions ==
  ASSUME SortTypeOK, Bounds, Comparing
  PROVE  /\ l \in Int /\ u \in Int /\ 1 <= l /\ l < u /\ u <= N /\ N \in Nat
         /\ ranges # <<>> /\ Len(ranges) \in Nat \ {0} /\ ranges[1] = Head(ranges)
         /\ u - l >= 2 => m \in Int /\ l < m /\ m < u
         /\ Tail(ranges) \in Seq(Ranges) /\ Len(Tail(ranges)) = Len(ranges) - 1
         /\ \A k \in 1 .. Len(ranges) - 1 : Tail(ranges)[k] = ranges[k + 1]
         /\ Inside(Tail(ranges), N)
<1>1. /\ ranges # <<>> /\ l < u /\ ranges \in Seq(Ranges) /\ Inside(ranges, N) /\ N \in Nat
  BY DEF SortTypeOK, Bounds
<1>2. Len(ranges) \in Nat \ {0} /\ ranges[1] = Head(ranges) /\ ranges[1] \in Ranges
  BY <1>1
<1>3. /\ Tail(ranges) \in Seq(Ranges) /\ Len(Tail(ranges)) = Len(ranges) - 1
      /\ \A k \in 1 .. Len(ranges) - 1 : Tail(ranges)[k] = ranges[k + 1]
  BY <1>1, <1>2
<1>4. l \in Int /\ u \in Int /\ 1 <= l /\ u <= N
  BY <1>1, <1>2 DEF l, u, Ranges, Inside
<1>5. u - l >= 2 => m \in Int /\ l < m /\ m < u
  BY <1>4, Middle DEF m
<1>6. Inside(Tail(ranges), N)
  BY <1>1, <1>2, <1>3 DEF Inside
<1> QED BY <1>1, <1>2, <1>3, <1>4, <1>5, <1>6

\* Exchanges of the table.
LEMMA Set2 ==
  ASSUME SortTypeOK, NEW a \in 0 .. N + 1, NEW b \in 0 .. N + 1
  PROVE  /\ Exchanged(elems, set2(a, b), N, a + 1, b + 1)
         /\ Keeps(elems, N) => Keeps(set2(a, b), N)
<1>1. N \in Nat /\ elems \in Tables(N)
  BY DEF SortTypeOK
<1>2. a + 1 \in 1 .. N + 2 /\ b + 1 \in 1 .. N + 2
  BY <1>1
<1>3. set2(a, b) = [elems EXCEPT ![a + 1] = elems[b + 1], ![b + 1] = elems[a + 1]]
  BY DEF set2, Elem
<1>4. Exchanged(elems, [elems EXCEPT ![a + 1] = elems[b + 1], ![b + 1] = elems[a + 1]], N, a + 1, b + 1)
  BY <1>1, <1>2, Exchange, Zenon
<1>5. Exchanged(elems, set2(a, b), N, a + 1, b + 1)
  BY <1>3, <1>4, Zenon
<1> QED BY <1>1, <1>2, <1>5, ExchangeKeeps

LEMMA SameSize ==
  ASSUME SortTypeOK, elems' \in Tables(N)
  PROVE  N' = N
<1>1. N \in Nat /\ Len(elems') = N + 2
  BY TableIsSeq DEF SortTypeOK
<1> QED BY <1>1 DEF N

\* After the median of three: the exchange that puts the pivot next to the end.
LEMMA PivotStores ==
  ASSUME SafeInv, Comparing, u - l >= 2, NEW f, f \in Tables(N), Pivot(f)
  PROVE  Exchanged(f, elems', N, m + 1, u) /\ (Keeps(f, N) => Keeps(elems', N))
<1>1. N \in Nat /\ m + 1 \in 1 .. N + 2 /\ u \in 1 .. N + 2
  BY Positions DEF SafeInv
<1>2. elems' = [f EXCEPT ![m + 1] = f[u], ![u] = f[m + 1]]
  BY DEF Pivot
<1>3. Exchanged(f, elems', N, m + 1, u)
  BY <1>1, <1>2, Exchange
<1> QED BY <1>1, <1>3, ExchangeKeeps

LEMMA MedianSafe ==
  ASSUME SafeInv, wild' = wild, Comparing, u - l >= 2,
         NEW f, f \in Tables(N), Keeps(f, N), MedianDone(f)
  PROVE  SafeInv'
<1>1. SortTypeOK /\ N \in Nat /\ N >= 2 /\ wild \in BOOLEAN /\ i \in Int /\ j \in Int /\ Inside(ranges, N)
      /\ ranges \in Seq(Ranges)
  BY DEF SafeInv, SortTypeOK
<1>2. CASE u - l = 2
  <2>1. RangeDone /\ elems' = f /\ i' = i /\ j' = j
    BY <1>2 DEF MedianDone
  <2>2. Tail(ranges) \in Seq(Ranges) /\ Inside(Tail(ranges), N)
    BY Positions DEF SafeInv
  <2>3. ranges' \in Seq(Ranges) /\ Inside(ranges', N) /\ compare' \in {"ends", "done"} /\ Bounds'
    BY <2>1, <2>2, <1>1, GoesOnInside DEF RangeDone
  <2>4. N' = N
    BY <2>1, <1>1, SameSize
  <2> QED BY <2>1, <2>3, <2>4, <1>1 DEF SafeInv, SortTypeOK
<1>3. CASE u - l # 2
  <2>1. Pivot(f)
    BY <1>3 DEF MedianDone
  <2>2. elems' \in Tables(N) /\ Keeps(elems', N)
    BY <2>1, PivotStores DEF Exchanged
  <2>3. N' = N
    BY <2>2, <1>1, SameSize
  <2>4. ranges' = ranges /\ compare' = "up" /\ i' = l + 1 /\ j' = u - 1
    BY <2>1 DEF Pivot, NextCompare
  <2>5. l \in Int /\ u \in Int /\ l < u /\ ranges # <<>> /\ u - l >= 3
    BY <1>3, Positions DEF SafeInv
  <2>6. Bounds'
    BY <2>4, <2>5 DEF Bounds, Comparing, Looping, l, u
  <2>7. i' \in Int /\ j' \in Int
    BY <2>4, <2>5
  <2> QED BY <2>2, <2>3, <2>4, <2>6, <2>7, <1>1 DEF SafeInv, SortTypeOK
<1> QED BY <1>2, <1>3

\* The facts of every step that follow from what is in the table afterwards.
LEMMA StepSafe ==
  ASSUME SafeInv, wild' = wild, elems' \in Tables(N), Keeps(elems', N),
         i' \in Int, j' \in Int, ranges' \in Seq(Ranges), Inside(ranges', N), Bounds',
         compare' \in {"ends", "middle with l", "u with middle", "up", "down", "done", "error"}
  PROVE  SafeInv'
<1>1. N' = N
  BY SameSize DEF SafeInv
<1> QED BY <1>1 DEF SafeInv, SortTypeOK

LEMMA EndsSafe == ASSUME SafeInv, wild' = wild, CompareEnds PROVE SafeInv'
<1>1. /\ SortTypeOK /\ Bounds /\ Comparing /\ Keeps(elems, N) /\ elems \in Tables(N) /\ N \in Nat
      /\ i' \in Int /\ j' \in Int /\ ranges \in Seq(Ranges) /\ Inside(ranges, N)
  BY DEF SafeInv, SortTypeOK, CompareEnds, Comparing
<1>2. l \in Int /\ u \in Int /\ 1 <= l /\ l < u /\ u <= N /\ l \in 0 .. N + 1 /\ u \in 0 .. N + 1
      /\ ranges # <<>> /\ Tail(ranges) \in Seq(Ranges) /\ Inside(Tail(ranges), N)
  BY <1>1, Positions
<1>3. elems' = set2(l, u) \/ elems' = elems
  BY DEF CompareEnds
<1>4. elems' \in Tables(N) /\ Keeps(elems', N)
  BY <1>1, <1>2, <1>3, Set2 DEF Exchanged
<1>5. CASE u - l = 1
  <2>1. GoOnWith(Tail(ranges))
    BY <1>5 DEF CompareEnds, RangeDone
  <2> QED BY <2>1, <1>1, <1>2, <1>4, GoesOnInside, StepSafe
<1>6. CASE u - l # 1
  <2>1. u - l >= 2
    BY <1>2, <1>6
  <2>3. ranges' = ranges /\ compare' = "middle with l"
    BY <1>6 DEF CompareEnds, NextCompare
  <2>2. Bounds'
    BY <2>1, <2>3, <1>2 DEF Bounds, Comparing, Looping, l, u
  <2> QED BY <2>3, <2>2, <1>1, <1>4, StepSafe
<1> QED BY <1>5, <1>6

LEMMA LowSafe == ASSUME SafeInv, wild' = wild, CompareLow PROVE SafeInv'
<1>1. /\ SortTypeOK /\ Bounds /\ Comparing /\ Keeps(elems, N) /\ elems \in Tables(N) /\ N \in Nat
      /\ i \in Int /\ j \in Int /\ ranges \in Seq(Ranges) /\ Inside(ranges, N) /\ u - l >= 2
  BY DEF SafeInv, SortTypeOK, CompareLow, Comparing, Bounds
<1>2. l \in Int /\ u \in Int /\ l < u /\ l \in 0 .. N + 1 /\ m \in 0 .. N + 1 /\ ranges # <<>>
  BY <1>1, Positions
<1>3. CASE MedianDone(set2(m, l))
  <2>1. set2(m, l) \in Tables(N) /\ Keeps(set2(m, l), N)
    BY <1>1, <1>2, Set2 DEF Exchanged
  <2> QED BY <2>1, <1>1, <1>3, MedianSafe
<1>4. CASE NextCompare("u with middle") /\ UNCHANGED <<elems, i, j, pivot>>
  <2>1. ranges' = ranges /\ compare' = "u with middle" /\ elems' = elems /\ i' = i /\ j' = j
    BY <1>4 DEF NextCompare
  <2>2. Bounds'
    BY <2>1, <1>1, <1>2 DEF Bounds, Comparing, Looping, l, u
  <2> QED BY <2>1, <2>2, <1>1, StepSafe
<1> QED BY <1>3, <1>4 DEF CompareLow

LEMMA HighSafe == ASSUME SafeInv, wild' = wild, CompareHigh PROVE SafeInv'
<1>1. /\ SortTypeOK /\ Bounds /\ Comparing /\ Keeps(elems, N) /\ elems \in Tables(N) /\ N \in Nat
      /\ u - l >= 2
  BY DEF SafeInv, SortTypeOK, CompareHigh, Comparing, Bounds
<1>2. u \in 0 .. N + 1 /\ m \in 0 .. N + 1
  BY <1>1, Positions
<1>3. PICK f : f \in {elems, set2(m, u)} /\ MedianDone(f)
  BY DEF CompareHigh
<1>4. f \in Tables(N) /\ Keeps(f, N)
  BY <1>1, <1>2, <1>3, Set2 DEF Exchanged
<1> QED BY <1>1, <1>3, <1>4, MedianSafe

LEMMA UpSafe == ASSUME SafeInv, wild' = wild, CompareUp PROVE SafeInv'
<1>1. /\ Bounds /\ Comparing /\ Keeps(elems, N) /\ elems \in Tables(N) /\ N \in Nat /\ SortTypeOK
      /\ i \in Int /\ j \in Int /\ ranges \in Seq(Ranges) /\ Inside(ranges, N) /\ compare = "up"
      /\ u - l >= 3 /\ l + 1 <= i /\ i <= u + 1 /\ l + 1 <= j /\ j <= u - 1 /\ elems' = elems
  BY DEF SafeInv, SortTypeOK, CompareUp, Comparing, Bounds, Looping
<1>2. l \in Int /\ u \in Int /\ l < u /\ ranges # <<>>
  BY <1>1, Positions
<1>3. ranges' = ranges
  BY DEF CompareUp, NextCompare
<1>4. l' = l /\ u' = u
  BY <1>3 DEF l, u
<1>5. \/ compare' = "error" /\ i' = i /\ j' = j
      \/ compare' = "up" /\ i <= u /\ i' = i + 1 /\ j' = j
      \/ compare' = "down" /\ i' = i /\ j' = j - 1
  BY <1>1 DEF CompareUp, NextCompare
<1>6. i' \in Int /\ j' \in Int /\ compare' \in {"up", "down", "error"}
  BY <1>1, <1>5
<1>7. Bounds'
  <2>1. compare' \in {"up", "down"} => l' + 1 <= i' /\ i' <= u' + 1
    BY <1>1, <1>2, <1>4, <1>5
  <2>2. compare' = "up" => l' + 1 <= j' /\ j' <= u' - 1
    BY <1>1, <1>2, <1>4, <1>5
  <2>3. compare' = "down" => l' - 1 <= j' /\ j' <= u' - 2
    BY <1>1, <1>2, <1>4, <1>5
  <2> QED BY <2>1, <2>2, <2>3, <1>1, <1>2, <1>3, <1>4, <1>6 DEF Bounds, Comparing, Looping
<1> QED BY <1>1, <1>3, <1>6, <1>7, StepSafe

\* The two ranges a range is split into take its place.
Parts(rs, x, y) ==
  /\ rs \in Seq(Ranges) /\ Len(rs) = Len(ranges) + 1 /\ rs[1] = x /\ rs[2] = y
  /\ \A k \in 3 .. Len(rs) : rs[k] = ranges[k - 1]
LEMMA Joined ==
  ASSUME NEW S, NEW x \in S, NEW y \in S, NEW s \in Seq(S)
  PROVE  /\ <<x, y>> \o s \in Seq(S) /\ Len(<<x, y>> \o s) = Len(s) + 2
         /\ (<<x, y>> \o s)[1] = x /\ (<<x, y>> \o s)[2] = y
         /\ \A k \in 3 .. Len(s) + 2 : (<<x, y>> \o s)[k] = s[k - 2]
OBVIOUS

LEMMA SplitParts ==
  ASSUME SortTypeOK, Bounds, Comparing, l + 1 <= i, i <= u + 1
  PROVE  \E x, y \in Ranges :
           /\ Parts(Split \o Tail(ranges), x, y)
           /\ {x, y} = {[l |-> l, u |-> i - 1], [l |-> i + 1, u |-> u]}
           /\ Inside(Split \o Tail(ranges), N)
<1> DEFINE low == [l |-> l, u |-> i - 1]  high == [l |-> i + 1, u |-> u]
<1>1. /\ l \in Int /\ u \in Int /\ i \in Int /\ 1 <= l /\ u <= N /\ N \in Nat
      /\ Len(ranges) \in Nat \ {0} /\ Tail(ranges) \in Seq(Ranges) /\ Inside(Tail(ranges), N)
      /\ Len(Tail(ranges)) = Len(ranges) - 1
      /\ \A k \in 1 .. Len(ranges) - 1 : Tail(ranges)[k] = ranges[k + 1]
  BY Positions DEF SortTypeOK
<1>2. low \in Ranges /\ high \in Ranges
  BY <1>1 DEF Ranges
<1>3. 1 <= low.l /\ low.u <= N /\ 1 <= high.l /\ high.u <= N
  BY <1>1
<1>4. PICK x, y : Split = <<x, y>> /\ {x, y} = {low, high}
  BY DEF Split
<1>5. x \in Ranges /\ y \in Ranges /\ 1 <= x.l /\ x.u <= N /\ 1 <= y.l /\ y.u <= N
  <2> HIDE DEF low, high
  <2> QED BY <1>2, <1>3, <1>4
<1> HIDE DEF low, high
<1>6. PICK s : s = Tail(ranges)
  OBVIOUS
<1>7. PICK rs : rs = <<x, y>> \o s
  OBVIOUS
<1>8. /\ rs \in Seq(Ranges) /\ Len(rs) = Len(s) + 2 /\ rs[1] = x /\ rs[2] = y
      /\ \A k \in 3 .. Len(s) + 2 : rs[k] = s[k - 2]
  BY <1>1, <1>5, <1>6, <1>7, Joined
<1>9. \A k \in 3 .. Len(rs) : rs[k] = ranges[k - 1]
  <2>1. TAKE k \in 3 .. Len(rs)
  <2>2. k \in Nat /\ k - 2 \in 1 .. Len(ranges) - 1 /\ k \in 3 .. Len(s) + 2
    BY <2>1, <1>8, <1>6, <1>1
  <2>3. rs[k] = s[k - 2]
    BY <2>2, <1>8
  <2>4. s[k - 2] = ranges[k - 2 + 1]
    BY <2>2, <1>1, <1>6
  <2> QED BY <2>2, <2>3, <2>4
<1>10. Parts(rs, x, y)
  BY <1>8, <1>9, <1>6, <1>1 DEF Parts
<1>11. Inside(rs, N)
  <2> SUFFICES ASSUME NEW k \in 1 .. Len(rs) PROVE 1 <= rs[k].l /\ rs[k].u <= N
    BY DEF Inside
  <2>1. CASE k \in {1, 2}
    BY <2>1, <1>5, <1>8
  <2>2. CASE k \notin {1, 2}
    <3>1. k - 2 \in 1 .. Len(Tail(ranges)) /\ k \in 3 .. Len(s) + 2
      BY <2>2, <1>8, <1>6, <1>1
    <3>2. rs[k] = Tail(ranges)[k - 2]
      BY <3>1, <1>6, <1>8
    <3> QED BY <3>1, <3>2, <1>1 DEF Inside
  <2> QED BY <2>1, <2>2
<1>12. rs = Split \o Tail(ranges)
  BY <1>4, <1>6, <1>7
<1> QED BY <1>4, <1>5, <1>10, <1>11, <1>12 DEF low, high

LEMMA DownSafe == ASSUME SafeInv, wild' = wild, CompareDown PROVE SafeInv'
<1>1. /\ Bounds /\ Comparing /\ Keeps(elems, N) /\ elems \in Tables(N) /\ N \in Nat /\ SortTypeOK
      /\ i \in Int /\ j \in Int /\ ranges \in Seq(Ranges) /\ Inside(ranges, N) /\ compare = "down"
      /\ u - l >= 3 /\ l + 1 <= i /\ i <= u + 1 /\ l - 1 <= j /\ j <= u - 2
  BY DEF SafeInv, SortTypeOK, CompareDown, Comparing, Bounds, Looping
<1>2. l \in Int /\ u \in Int /\ l < u /\ ranges # <<>> /\ 1 <= l /\ u <= N
  BY <1>1, Positions
<1>3. CASE NextCompare("error") /\ UNCHANGED <<elems, i, j>>
  <2>1. compare' = "error" /\ ranges' = ranges /\ Bounds'
    BY <1>3 DEF NextCompare, Bounds, Comparing, Looping
  <2> QED BY <2>1, <1>1, <1>3, StepSafe
<1>4. CASE j >= l /\ j' = j - 1 /\ UNCHANGED <<elems, i, ranges, compare>>
  <2>1. l' = l /\ u' = u /\ compare' = "down" /\ ranges' = ranges /\ i' = i /\ j' \in Int /\ j' = j - 1
    BY <1>4, <1>1 DEF l, u
  <2>2. l' + 1 <= i' /\ i' <= u' + 1 /\ l' - 1 <= j' /\ j' <= u' - 2
    BY <2>1, <1>1, <1>2, <1>4
  <2>3. Bounds'
    BY <2>1, <2>2, <1>1, <1>2 DEF Bounds, Comparing, Looping
  <2> QED BY <2>1, <2>3, <1>1, <1>4, StepSafe
<1>5. CASE j >= i /\ elems' = set2(i, j) /\ i' = i + 1 /\ NextCompare("up") /\ UNCHANGED j
  <2>1. l' = l /\ u' = u /\ compare' = "up" /\ ranges' = ranges /\ i' \in Int /\ j' = j
    BY <1>5, <1>1 DEF l, u, NextCompare
  <2>2. l' + 1 <= i' /\ i' <= u' + 1 /\ l' + 1 <= j' /\ j' <= u' - 1
    BY <2>1, <1>1, <1>2, <1>5
  <2>3. Bounds'
    BY <2>1, <2>2, <1>1, <1>2 DEF Bounds, Comparing, Looping
  <2>4. i \in 0 .. N + 1 /\ j \in 0 .. N + 1
    BY <1>1, <1>2, <1>5
  <2>5. elems' \in Tables(N) /\ Keeps(elems', N)
    BY <2>4, <1>5, <1>1, Set2 DEF Exchanged
  <2> QED BY <2>1, <2>3, <2>5, <1>1, StepSafe
<1>6. CASE elems' = set2(u - 1, i) /\ GoOnWith(Split \o Tail(ranges)) /\ UNCHANGED <<i, j>>
  <2>1. PICK rs : rs = Split \o Tail(ranges)
    OBVIOUS
  <2>2. rs \in Seq(Ranges) /\ Inside(rs, N)
    BY <2>1, <1>1, SplitParts DEF Parts
  <2>3. ranges' \in Seq(Ranges) /\ Inside(ranges', N) /\ compare' \in {"ends", "done"} /\ Bounds'
    BY <2>1, <2>2, <1>1, <1>6, GoesOnInside
  <2>4. u - 1 \in 0 .. N + 1 /\ i \in 0 .. N + 1
    BY <1>1, <1>2
  <2>5. elems' \in Tables(N) /\ Keeps(elems', N)
    BY <2>4, <1>6, <1>1, Set2 DEF Exchanged
  <2> QED BY <2>3, <2>5, <1>1, <1>6, StepSafe
<1> QED BY <1>3, <1>4, <1>5, <1>6 DEF CompareDown

LEMMA SafeNext == ASSUME SafeInv, SortNext PROVE SafeInv'
<1>1. ASSUME OrderFails PROVE SafeInv'
  <2>1. Bounds'
    BY <1>1 DEF OrderFails, Bounds, Comparing, Looping
  <2> QED BY <1>1, <2>1, SameSize DEF OrderFails, SafeInv, SortTypeOK, SortNext
<1> QED BY <1>1, EndsSafe, LowSafe, HighSafe, UpSafe, DownSafe DEF SortNext

Joins(r, s, t) == r = s \o t
LEMMA Concat ==
  ASSUME NEW S, NEW s \in Seq(S), NEW t \in Seq(S), NEW r, Joins(r, s, t)
  PROVE  /\ r \in Seq(S) /\ Len(r) = Len(s) + Len(t)
         /\ \A k \in 1 .. Len(s) : r[k] = s[k]
         /\ \A k \in 1 .. Len(t) : r[Len(s) + k] = t[k]
BY DEF Joins

\* A table e of the elements f, with an index at either end.
Encloses(e, f) == e = <<Absent>> \o f \o <<Absent>>
LEMMA EnclosesJoins ==
  ASSUME NEW f, NEW e, Encloses(e, f)
  PROVE  \E b, one : Joins(b, one, f) /\ Joins(e, b, one) /\ one = <<Absent>>
BY DEF Encloses, Joins

LEMMA FunctionIsSeq ==
  ASSUME NEW S, NEW n \in Nat, NEW f
  PROVE  f \in [1 .. n -> S] <=> f \in Seq(S) /\ Len(f) = n
OBVIOUS

LEMMA Enclosed ==
  ASSUME NEW n \in Nat, NEW f \in [1 .. n -> 1 .. n], NEW e, Encloses(e, f)
  PROVE  /\ e \in Tables(n) /\ Len(e) = n + 2 /\ e[1] = Absent /\ e[n + 2] = Absent
         /\ \A k \in 1 .. n : e[k + 1] = f[k]
<1>1. PICK S : S = (1 .. n) \cup {Absent}
  OBVIOUS
<1>2. f \in Seq(S) /\ Len(f) = n
  BY <1>1
<1>3. PICK b, one : Joins(b, one, f) /\ Joins(e, b, one) /\ one = <<Absent>>
  BY EnclosesJoins
<1>4. one \in Seq(S) /\ Len(one) = 1 /\ one[1] = Absent
  BY <1>1, <1>3
<1>6. /\ b \in Seq(S) /\ Len(b) = Len(one) + Len(f)
      /\ \A k \in 1 .. Len(one) : b[k] = one[k]
      /\ \A k \in 1 .. Len(f) : b[Len(one) + k] = f[k]
  <2>1. f \in Seq(S) /\ one \in Seq(S) /\ Joins(b, one, f)
    BY <1>2, <1>3, <1>4
  <2> QED BY ONLY <2>1, Concat, SMT
<1>8. /\ e \in Seq(S) /\ Len(e) = Len(b) + Len(one)
      /\ \A k \in 1 .. Len(b) : e[k] = b[k]
      /\ \A k \in 1 .. Len(one) : e[Len(b) + k] = one[k]
  <2>1. b \in Seq(S) /\ one \in Seq(S) /\ Joins(e, b, one)
    BY <1>3, <1>4, <1>6
  <2> QED BY ONLY <2>1, Concat, SMT
<1>9. Len(b) = n + 1 /\ b[1] = Absent
  BY <1>2, <1>4, <1>6
<1>10. Len(e) = n + 2 /\ e[1] = Absent
  BY <1>4, <1>8, <1>9
<1>11. e[n + 2] = Absent
  <2>1. e[Len(b) + 1] = one[1]
    BY <1>4, <1>8
  <2> QED BY <2>1, <1>4, <1>9
<1>12. ASSUME NEW k \in 1 .. n PROVE e[k + 1] = f[k]
  <2>1. k + 1 \in 1 .. Len(b) /\ k \in 1 .. Len(f) /\ Len(one) + k = k + 1
    BY <1>2, <1>4, <1>9
  <2> QED BY <2>1, <1>6, <1>8
<1>13. e \in Tables(n)
  <2>1. n + 2 \in Nat /\ e \in Seq(S) /\ Len(e) = n + 2
    BY <1>8, <1>10
  <2>2. e \in [1 .. n + 2 -> S]
    BY <2>1, FunctionIsSeq
  <2> QED BY <2>2, <1>1 DEF Tables
<1> QED BY <1>10, <1>11, <1>12, <1>13

LEMMA EnclosedKeeps ==
  ASSUME NEW n \in Nat, NEW f \in [1 .. n -> 1 .. n], \A a, b \in 1 .. n : a # b => f[a] # f[b],
         NEW e, e[1] = Absent, e[n + 2] = Absent, \A k \in 1 .. n : e[k + 1] = f[k]
  PROVE  Keeps(e, n)
<1>1. f \in Injection(1 .. n, 1 .. n)
  BY DEF Injection, IsInjective
<1>2. IsFiniteSet(1 .. n)
  BY FS_Interval
<1>3. f \in Surjection(1 .. n, 1 .. n)
  BY <1>1, <1>2, FS_Injection
<1>4. \A x \in 1 .. n : \E a \in 1 .. n : f[a] = x
  BY <1>3 DEF Surjection
<1>5. /\ e[1] = Absent /\ e[n + 2] = Absent
      /\ \A k \in 1 .. n : e[k + 1] = f[k]
  OBVIOUS
<1>6. ASSUME NEW x \in 1 .. n PROVE \E a \in 1 .. n + 2 : e[a] = x
  <2>1. PICK a \in 1 .. n : f[a] = x
    BY <1>4
  <2>2. a + 1 \in 1 .. n + 2
    OBVIOUS
  <2> QED BY <2>1, <2>2, <1>5
<1>7. ASSUME NEW a \in 1 .. n + 2, NEW b \in 1 .. n + 2, e[a] = e[b]
      PROVE  a = b \/ e[a] = Absent
  <2>1. CASE a \in {1, n + 2} \/ b \in {1, n + 2}
    BY <2>1, <1>5, <1>7
  <2>2. CASE ~(a \in {1, n + 2} \/ b \in {1, n + 2})
    <3>1. a - 1 \in 1 .. n /\ b - 1 \in 1 .. n /\ (a - 1) + 1 = a /\ (b - 1) + 1 = b
      BY <2>2
    <3>2. f[a - 1] = f[b - 1]
      BY <3>1, <1>5, <1>7
    <3>3. a - 1 = b - 1
      BY <3>1, <3>2
    <3> QED BY <3>1, <3>3
  <2> QED BY <2>1, <2>2
<1> QED BY <1>6, <1>7 DEF Keeps

\* How a table begins.
LEMMA Beginning ==
  ASSUME SortInit
  PROVE  \E n \in SortSizes \cup WildSizes : \E f \in [1 .. n -> 1 .. n] :
           /\ n \in Nat /\ n >= 2 /\ (~wild => n \in SortSizes) /\ wild \in BOOLEAN
           /\ \A a, b \in 1 .. n : a # b => f[a] # f[b]
           /\ Encloses(elems, f)
<1>1. \A n \in SortSizes \cup WildSizes : n \in Nat /\ n >= 2
  BY TableSortAssumption
<1>2. CASE wild = FALSE /\ \E n \in SortSizes : \E f \in SetToSeqs(1 .. n) : elems = <<Absent>> \o f \o <<Absent>>
  <2>0. PICK n \in SortSizes : \E f \in SetToSeqs(1 .. n) : elems = <<Absent>> \o f \o <<Absent>>
    BY <1>2
  <2>1. PICK f \in SetToSeqs(1 .. n) : elems = <<Absent>> \o f \o <<Absent>>
    BY <2>0
  <2>2. n \in Nat /\ n >= 2
    BY <1>1
  <2>3. Cardinality(1 .. n) = n
    BY <2>2, FS_Interval
  <2>4. f \in [1 .. n -> 1 .. n] /\ \A a, b \in 1 .. n : a # b => f[a] # f[b]
    BY <2>1, <2>3 DEF SetToSeqs
  <2> QED BY <1>2, <2>1, <2>2, <2>4 DEF Encloses
<1>3. CASE wild = TRUE /\ \E n \in WildSizes : elems = <<Absent>> \o [k \in 1 .. n |-> k] \o <<Absent>>
  <2>1. PICK n \in WildSizes : elems = <<Absent>> \o [k \in 1 .. n |-> k] \o <<Absent>>
    BY <1>3
  <2>2. n \in Nat /\ n >= 2
    BY <1>1
  <2>3. PICK f : f = [k \in 1 .. n |-> k]
    OBVIOUS
  <2>4. f \in [1 .. n -> 1 .. n] /\ \A a, b \in 1 .. n : a # b => f[a] # f[b]
    BY <2>3
  <2> QED BY <1>3, <2>1, <2>2, <2>3, <2>4 DEF Encloses
<1> QED BY <1>2, <1>3 DEF SortInit

LEMMA SafeInit == ASSUME SortInit PROVE SafeInv
<1>0. PICK n \in SortSizes \cup WildSizes : \E f \in [1 .. n -> 1 .. n] :
        /\ n \in Nat /\ n >= 2 /\ (~wild => n \in SortSizes) /\ wild \in BOOLEAN
        /\ \A a, b \in 1 .. n : a # b => f[a] # f[b]
        /\ Encloses(elems, f)
  BY Beginning
<1>1. PICK f \in [1 .. n -> 1 .. n] :
        /\ n \in Nat /\ n >= 2 /\ (~wild => n \in SortSizes) /\ wild \in BOOLEAN
        /\ \A a, b \in 1 .. n : a # b => f[a] # f[b]
        /\ Encloses(elems, f)
  BY <1>0
<1>9. /\ elems \in Tables(n) /\ Len(elems) = n + 2 /\ elems[1] = Absent /\ elems[n + 2] = Absent
      /\ \A k \in 1 .. n : elems[k + 1] = f[k]
  <2>1. n \in Nat /\ Encloses(elems, f)
    BY <1>1
  <2> QED BY ONLY <2>1, f \in [1 .. n -> 1 .. n], Enclosed
<1>2. elems \in Tables(n) /\ Len(elems) = n + 2 /\ Keeps(elems, n)
  BY <1>1, <1>9, EnclosedKeeps
<1>3. N = n
  BY <1>1, <1>2 DEF N
<1>4. ranges = <<[l |-> 1, u |-> n]>> /\ compare = "ends" /\ i = 0 /\ j = 0
  BY <1>3 DEF SortInit
<1>5. [l |-> 1, u |-> n] \in Ranges
  BY <1>1 DEF Ranges
<1>6. ranges \in Seq(Ranges) /\ Len(ranges) = 1 /\ ranges[1] = [l |-> 1, u |-> n]
      /\ ranges # <<>> /\ Head(ranges) = ranges[1]
  BY <1>4, <1>5
<1>7. Inside(ranges, n)
  BY <1>6, <1>1 DEF Inside
<1>8. Bounds
  BY <1>4, <1>6, <1>1 DEF Bounds, Comparing, Looping, l, u
<1> QED BY <1>1, <1>2, <1>3, <1>4, <1>6, <1>7, <1>8 DEF SafeInv, SortTypeOK

\* The elements a table holds when a comparison, an error or the end comes are those that
\* it held, each once, however large it is and whatever the order function answers.
THEOREM ElementsKept == SortSpec => []SortKeeps
<1>1. SortInit => SafeInv
  BY SafeInit
<1>2. SafeInv /\ [SortNext]_sortVars => SafeInv'
  <2>1. ASSUME SafeInv, UNCHANGED sortVars PROVE SafeInv'
    BY <2>1 DEF sortVars, SafeInv, SortTypeOK, Bounds, Comparing, Looping, N, l, u
  <2> QED BY <2>1, SafeNext
<1>3. SafeInv => SortKeeps
  <2> SUFFICES ASSUME SafeInv PROVE SortKeeps
    OBVIOUS
  <2>1. DOMAIN elems = 1 .. N + 2 /\ N \in Nat /\ elems \in Tables(N) /\ Keeps(elems, N)
    BY TableIsSeq DEF SafeInv, SortTypeOK
  <2>2. Absent \notin 1 .. N
    BY TableSortAssumption
  <2>3. ToSet(elems) \ {Absent} = 1 .. N
    BY <2>1, <2>2 DEF ToSet, Tables, Keeps
  <2> QED BY <2>1, <2>3 DEF SortKeeps, Keeps
<1> QED BY <1>1, <1>2, <1>3, PTL DEF SortSpec

-----------------------------------------------------------------------------
(* With an order, the table is sorted in the end.                           *)

\* The weight at a position of a table, and that two positions lie in one range.
WeightAt(f, k) == Weight[f[k + 1]]
Together(rs, a, b) == \E k \in 1 .. Len(rs) : rs[k].l <= a /\ b <= rs[k].u
Elements(f, n) == \A k \in 1 .. n : f[k + 1] \in 1 .. n
\* The ranges of the activations have no position in common.
Apart(rs) == \A p, q \in 1 .. Len(rs) : p # q => rs[p].u < rs[q].l \/ rs[q].u < rs[p].l
\* What no range is left to sort is sorted: that, and not only each range, is kept.
Ordered(f, rs, n) ==
  \A a, b \in 1 .. n : a < b /\ ~Together(rs, a, b) => WeightAt(f, a) <= WeightAt(f, b)
\* The comparisons of the median of three, and the two ends of the loop of the partition.
MedianInv ==
  /\ compare \in {"middle with l", "u with middle"} => WeightAt(elems, l) <= WeightAt(elems, u)
  /\ compare = "u with middle" => WeightAt(elems, l) <= WeightAt(elems, m)
LoopInv ==
  /\ Looping =>
       /\ pivot \in 1 .. N /\ elems[u] = pivot /\ i <= u - 1
       /\ \A k \in l .. i - 1 : WeightAt(elems, k) <= Weight[pivot]
  /\ compare = "up" => i <= j + 1 /\ \A k \in j .. u : Weight[pivot] <= WeightAt(elems, k)
  /\ compare = "down" =>
       /\ l <= j /\ i <= j + 2 /\ Weight[pivot] <= WeightAt(elems, i)
       /\ \A k \in j + 1 .. u : Weight[pivot] <= WeightAt(elems, k)
OrderInv ==
  /\ N \in SortSizes /\ Elements(elems, N)
  /\ Apart(ranges) /\ Ordered(elems, ranges, N) /\ MedianInv /\ LoopInv

\* g has the elements of f, with those between lo and hi in any order.
Shuffled(f, g, n, lo, hi) ==
  \A k \in 1 .. n :
    /\ k \in lo .. hi => \E c \in lo .. hi : g[k + 1] = f[c + 1]
    /\ k \notin lo .. hi => g[k + 1] = f[k + 1]
Sorted(f, lo, hi) ==
  \A a, b \in lo .. hi : a < b => WeightAt(f, a) <= WeightAt(f, b)

LEMMA WeightIsInt ==
  ASSUME NEW n \in SortSizes, NEW f, Elements(f, n), NEW k \in 1 .. n
  PROVE  WeightAt(f, k) \in Int
BY TableSortAssumption DEF WeightAt, Elements

LEMMA ShuffledElements ==
  ASSUME NEW n \in Nat, NEW f, NEW g, NEW lo \in Int, NEW hi \in Int, 1 <= lo, hi <= n,
         Elements(f, n), Shuffled(f, g, n, lo, hi)
  PROVE  Elements(g, n)
<1> SUFFICES ASSUME NEW k \in 1 .. n PROVE g[k + 1] \in 1 .. n
  BY DEF Elements
<1>1. CASE k \in lo .. hi
  <2>1. PICK c \in lo .. hi : g[k + 1] = f[c + 1]
    BY <1>1 DEF Shuffled
  <2>2. c \in 1 .. n
    OBVIOUS
  <2> QED BY <2>1, <2>2 DEF Elements
<1>2. CASE k \notin lo .. hi
  BY <1>2 DEF Shuffled, Elements
<1> QED BY <1>1, <1>2

LEMMA ShuffledSame ==
  ASSUME NEW n, NEW f, NEW lo, NEW hi
  PROVE  Shuffled(f, f, n, lo, hi)
BY DEF Shuffled

LEMMA ShuffledTwice ==
  ASSUME NEW n \in Nat, NEW f, NEW g, NEW h, NEW lo \in Int, NEW hi \in Int, 1 <= lo, hi <= n,
         Shuffled(f, g, n, lo, hi), Shuffled(g, h, n, lo, hi)
  PROVE  Shuffled(f, h, n, lo, hi)
<1> SUFFICES ASSUME NEW k \in 1 .. n
             PROVE /\ k \in lo .. hi => \E c \in lo .. hi : h[k + 1] = f[c + 1]
                   /\ k \notin lo .. hi => h[k + 1] = f[k + 1]
  BY DEF Shuffled
<1>1. CASE k \in lo .. hi
  <2>1. PICK c \in lo .. hi : h[k + 1] = g[c + 1]
    BY <1>1 DEF Shuffled
  <2>2. c \in 1 .. n
    OBVIOUS
  <2>3. PICK d \in lo .. hi : g[c + 1] = f[d + 1]
    BY <2>2 DEF Shuffled
  <2> QED BY <1>1, <2>1, <2>3
<1>2. CASE k \notin lo .. hi
  BY <1>2 DEF Shuffled
<1> QED BY <1>1, <1>2

LEMMA ExchangeShuffles ==
  ASSUME NEW n \in Nat, NEW f, NEW g, NEW lo \in Int, NEW hi \in Int, 1 <= lo, hi <= n,
         NEW a \in lo .. hi, NEW b \in lo .. hi, Exchanged(f, g, n, a + 1, b + 1)
  PROVE  Shuffled(f, g, n, lo, hi)
<1> SUFFICES ASSUME NEW k \in 1 .. n
             PROVE /\ k \in lo .. hi => \E c \in lo .. hi : g[k + 1] = f[c + 1]
                   /\ k \notin lo .. hi => g[k + 1] = f[k + 1]
  BY DEF Shuffled
<1>1. k + 1 \in 1 .. n + 2 /\ k \in Int /\ a \in Int /\ b \in Int
  OBVIOUS
<1>2. CASE k = a \/ k = b
  BY <1>2 DEF Exchanged
<1>3. CASE k # a /\ k # b
  <2>1. k + 1 # a + 1 /\ k + 1 # b + 1
    BY <1>1, <1>3
  <2> QED BY <2>1, <1>1 DEF Exchanged
<1> QED BY <1>2, <1>3

\* The elements of the first range may be put in any order, and pairs of them that are in
\* order need no range any more.
LEMMA Rearrange ==
  ASSUME NEW n \in SortSizes, NEW f, NEW g, Elements(f, n),
         NEW rs \in Seq(Ranges), Len(rs) >= 1, Apart(rs), Ordered(f, rs, n),
         NEW lo \in Int, NEW hi \in Int, lo = rs[1].l, hi = rs[1].u, 1 <= lo, hi <= n,
         Shuffled(f, g, n, lo, hi), NEW left,
         \A a, b \in 1 .. n : a < b /\ ~Together(left, a, b) =>
            ~Together(rs, a, b) \/ (lo <= a /\ b <= hi /\ WeightAt(g, a) <= WeightAt(g, b))
  PROVE  Ordered(g, left, n)
<1> SUFFICES ASSUME NEW a \in 1 .. n, NEW b \in 1 .. n, a < b, ~Together(rs, a, b)
             PROVE  WeightAt(g, a) <= WeightAt(g, b)
  BY DEF Ordered
<1>1. n \in Nat /\ a \in Int /\ b \in Int /\ Len(rs) \in Nat /\ \A k \in 1 .. Len(rs) : rs[k] \in Ranges
  BY TableSortAssumption
<1>2. ~(lo <= a /\ b <= hi)
  BY <1>1 DEF Together
\* A position of the first range is in no other range.
<1>3. ASSUME NEW c \in lo .. hi, NEW k \in 2 .. Len(rs) PROVE ~(rs[k].l <= c /\ c <= rs[k].u)
  <2>1. k \in 1 .. Len(rs) /\ 1 \in 1 .. Len(rs) /\ k # 1
    BY <1>1
  <2>2. rs[k].u < lo \/ hi < rs[k].l
    BY <2>1 DEF Apart
  <2>3. rs[k].u \in Int /\ rs[k].l \in Int
    BY <2>1, <1>1 DEF Ranges
  <2> QED BY <2>2, <2>3
<1>4. PICK x \in 1 .. n : g[a + 1] = f[x + 1] /\ (IF a \in lo .. hi THEN x \in lo .. hi ELSE x = a)
  <2>1. CASE a \in lo .. hi
    <3>1. PICK c \in lo .. hi : g[a + 1] = f[c + 1]
      BY <2>1 DEF Shuffled
    <3>2. c \in 1 .. n
      BY <1>1
    <3> QED BY <3>1, <3>2, <2>1
  <2>2. CASE a \notin lo .. hi
    BY <2>2 DEF Shuffled
  <2> QED BY <2>1, <2>2
<1>5. PICK y \in 1 .. n : g[b + 1] = f[y + 1] /\ (IF b \in lo .. hi THEN y \in lo .. hi ELSE y = b)
  <2>1. CASE b \in lo .. hi
    <3>1. PICK c \in lo .. hi : g[b + 1] = f[c + 1]
      BY <2>1 DEF Shuffled
    <3>2. c \in 1 .. n
      BY <1>1
    <3> QED BY <3>1, <3>2, <2>1
  <2>2. CASE b \notin lo .. hi
    BY <2>2 DEF Shuffled
  <2> QED BY <2>1, <2>2
<1>6. x < y
  BY <1>1, <1>2, <1>4, <1>5
<1>7. ASSUME NEW k \in 1 .. Len(rs), rs[k].l <= x, y <= rs[k].u PROVE FALSE
  <2>1. rs[k].l \in Int /\ rs[k].u \in Int /\ x \in Int /\ y \in Int
    BY SMTT(60), <1>1 DEF Ranges
  <2>2. CASE k = 1
    BY <2>1, <2>2, <1>1, <1>2, <1>4, <1>5, <1>7
  <2>3. CASE k # 1
    <3>1. k \in 2 .. Len(rs) /\ rs[k].l <= y /\ x <= rs[k].u
      BY <2>1, <2>3, <1>1, <1>6, <1>7
    <3>2. x \notin lo .. hi /\ y \notin lo .. hi
      BY <3>1, <1>3, <1>7
    <3>3. x = a /\ y = b
      BY <3>2, <1>4, <1>5
    <3> QED BY <3>3, <1>7 DEF Together
  <2> QED BY <2>2, <2>3
<1>8. WeightAt(f, x) <= WeightAt(f, y)
  BY <1>6, <1>7 DEF Ordered, Together
<1> QED BY <1>4, <1>5, <1>8 DEF WeightAt

\* The ranges that are dropped hold no two positions, and those that stay have none in common.
LEMMA ResumesTogether ==
  ASSUME NEW rs \in Seq(Ranges), NEW k \in 0 .. Len(rs), Resumes(rs, k),
         NEW a \in Int, NEW b \in Int, a < b, Together(rs, a, b)
  PROVE  Together(ranges', a, b)
<1>1. Len(rs) \in Nat /\ k \in Nat /\ k <= Len(rs)
  OBVIOUS
<1>2. PICK q \in 1 .. Len(rs) : rs[q].l <= a /\ b <= rs[q].u
  BY DEF Together
<1>3. rs[q].l \in Int /\ rs[q].u \in Int
  <2>1. rs[q] \in Ranges
    OBVIOUS
  <2> QED BY <2>1 DEF Ranges
<1>4. ~(rs[q].l >= rs[q].u)
  BY <1>2, <1>3
<1>5. q > k
  BY <1>1, <1>4 DEF Resumes
<1>6. q - k \in 1 .. Len(rs) - k /\ (q - k) + k = q
  BY <1>1, <1>5
<1>7. Len(ranges') = Len(rs) - k /\ ranges'[q - k] = rs[(q - k) + k]
  BY <1>6 DEF Resumes
<1> QED BY <1>2, <1>6, <1>7 DEF Together

LEMMA ResumesApart ==
  ASSUME NEW rs \in Seq(Ranges), NEW k \in 0 .. Len(rs), Resumes(rs, k), Apart(rs)
  PROVE  Apart(ranges')
<1>1. Len(rs) \in Nat /\ k \in Nat /\ k <= Len(rs) /\ Len(ranges') = Len(rs) - k
  BY DEF Resumes
<1> SUFFICES ASSUME NEW p \in 1 .. Len(ranges'), NEW q \in 1 .. Len(ranges'), p # q
             PROVE  ranges'[p].u < ranges'[q].l \/ ranges'[q].u < ranges'[p].l
  BY DEF Apart
<1>2. p + k \in 1 .. Len(rs) /\ q + k \in 1 .. Len(rs) /\ p + k # q + k
  BY <1>1
<1>3. ranges'[p] = rs[p + k] /\ ranges'[q] = rs[q + k]
  BY <1>1 DEF Resumes
<1> QED BY <1>2, <1>3 DEF Apart

LEMMA OrderPositions ==
  ASSUME SafeInv, OrderInv, Comparing
  PROVE  /\ N \in SortSizes /\ N \in Nat /\ Elements(elems, N) /\ elems \in Tables(N)
         /\ l \in Int /\ u \in Int /\ 1 <= l /\ l < u /\ u <= N
         /\ l = ranges[1].l /\ u = ranges[1].u
         /\ ranges \in Seq(Ranges) /\ Len(ranges) >= 1 /\ Apart(ranges) /\ Ordered(elems, ranges, N)
         /\ u - l >= 2 => m \in Int /\ l < m /\ m < u
         /\ i \in Int /\ j \in Int
<1>1. SortTypeOK /\ Bounds
  BY DEF SafeInv
<1>2. /\ l \in Int /\ u \in Int /\ 1 <= l /\ l < u /\ u <= N /\ N \in Nat
      /\ ranges[1] = Head(ranges) /\ Len(ranges) >= 1
      /\ u - l >= 2 => m \in Int /\ l < m /\ m < u
  BY <1>1, Positions
<1>3. l = ranges[1].l /\ u = ranges[1].u
  BY <1>2 DEF l, u
<1> QED BY <1>1, <1>2, <1>3 DEF OrderInv, SortTypeOK

\* A range that is sorted is done with.
LEMMA DoneOrder ==
  ASSUME SafeInv, OrderInv, Comparing, elems' \in Tables(N), Shuffled(elems, elems', N, l, u),
         Sorted(elems', l, u), RangeDone
  PROVE  OrderInv'
<1>1. SortTypeOK /\ Bounds /\ N' = N
  BY SameSize DEF SafeInv
<1>2. /\ Tail(ranges) \in Seq(Ranges) /\ Len(Tail(ranges)) = Len(ranges) - 1
      /\ \A k \in 1 .. Len(ranges) - 1 : Tail(ranges)[k] = ranges[k + 1]
  BY <1>1, Positions
<1>3. PICK rs : rs = Tail(ranges)
  OBVIOUS
<1>4. /\ rs \in Seq(Ranges) /\ Len(rs) = Len(ranges) - 1 /\ Len(ranges) \in Nat /\ Len(ranges) >= 1
      /\ \A k \in 1 .. Len(ranges) - 1 : rs[k] = ranges[k + 1]
  BY <1>2, <1>3, OrderPositions
<1>5. PICK k \in 0 .. Len(rs) : Resumes(rs, k)
  BY <1>3, <1>4, GoesOn DEF RangeDone
<1>6. Apart(rs)
  <2> SUFFICES ASSUME NEW p \in 1 .. Len(rs), NEW q \in 1 .. Len(rs), p # q
               PROVE  rs[p].u < rs[q].l \/ rs[q].u < rs[p].l
    BY DEF Apart
  <2>1. p + 1 \in 1 .. Len(ranges) /\ q + 1 \in 1 .. Len(ranges) /\ p + 1 # q + 1
    BY <1>4
  <2>2. rs[p] = ranges[p + 1] /\ rs[q] = ranges[q + 1]
    BY <1>4
  <2> QED BY <2>1, <2>2 DEF Apart, OrderInv
<1>7. Apart(ranges')
  BY <1>4, <1>5, <1>6, ResumesApart
<1>8. ASSUME NEW a \in 1 .. N, NEW b \in 1 .. N, a < b, ~Together(ranges', a, b)
      PROVE  ~Together(ranges, a, b) \/ (l <= a /\ b <= u /\ WeightAt(elems', a) <= WeightAt(elems', b))
  <2>1. ~Together(rs, a, b)
    BY <1>4, <1>5, <1>8, ResumesTogether, OrderPositions, SMTT(30)
  <2>2. ASSUME NEW q \in 1 .. Len(ranges), ranges[q].l <= a, b <= ranges[q].u, q # 1
        PROVE  FALSE
    <3>1. q - 1 \in 1 .. Len(ranges) - 1 /\ (q - 1) + 1 = q
      BY <1>4, <2>2
    <3>2. rs[q - 1] = ranges[q] /\ q - 1 \in 1 .. Len(rs)
      BY <3>1, <1>4
    <3> QED BY <3>2, <2>1, <2>2 DEF Together
  <2>3. CASE l <= a /\ b <= u
    <3>1. a \in l .. u /\ b \in l .. u
      BY <2>3, <1>8, OrderPositions
    <3> QED BY <3>1, <2>3, <1>8 DEF Sorted
  <2>4. CASE ~(l <= a /\ b <= u)
    BY <2>2, <2>4, OrderPositions DEF Together
  <2> QED BY <2>3, <2>4
<1>9. Ordered(elems', ranges', N)
  BY <1>8, OrderPositions, Rearrange
<1>10. Elements(elems', N)
  BY OrderPositions, ShuffledElements
<1>11. compare' \notin {"middle with l", "u with middle", "up", "down"}
  BY <1>5 DEF Resumes
<1>12. MedianInv' /\ LoopInv'
  BY <1>11 DEF MedianInv, LoopInv, Looping
<1> QED BY <1>1, <1>7, <1>9, <1>10, <1>12, OrderPositions DEF OrderInv

LEMMA StayOrder ==
  ASSUME SafeInv, OrderInv, Comparing, elems' \in Tables(N), Shuffled(elems, elems', N, l, u),
         ranges' = ranges, MedianInv', LoopInv'
  PROVE  OrderInv'
<1>1. N' = N
  BY SameSize DEF SafeInv
<1>2. Ordered(elems', ranges, N)
  BY OrderPositions, Rearrange
<1>3. Elements(elems', N)
  BY OrderPositions, ShuffledElements
<1> QED BY <1>1, <1>2, <1>3, OrderPositions DEF OrderInv

\* An order compares the weights.
LEMMA LessIs ==
  ASSUME SafeInv, ~wild, NEW x \in 1 .. N, NEW y \in 1 .. N, NEW less \in Less(x, y)
  PROVE  less <=> Weight[x] < Weight[y]
<1>1. N \in Nat
  BY DEF SafeInv, SortTypeOK
<1>2. x \in Nat /\ y \in Nat
  BY <1>1
<1>3. x # Absent /\ y # Absent
  BY <1>2, TableSortAssumption
<1> QED BY <1>3 DEF Less

LEMMA ExchangedWeights ==
  ASSUME NEW n \in Nat, NEW f, NEW g, NEW a \in 1 .. n, NEW b \in 1 .. n,
         Exchanged(f, g, n, a + 1, b + 1)
  PROVE  /\ WeightAt(g, a) = WeightAt(f, b) /\ WeightAt(g, b) = WeightAt(f, a)
         /\ \A c \in 1 .. n : c # a /\ c # b => WeightAt(g, c) = WeightAt(f, c)
<1>1. WeightAt(g, a) = WeightAt(f, b) /\ WeightAt(g, b) = WeightAt(f, a)
  BY DEF WeightAt, Exchanged
<1>2. ASSUME NEW c \in 1 .. n, c # a, c # b PROVE WeightAt(g, c) = WeightAt(f, c)
  <2>1. c + 1 \in 1 .. n + 2 /\ c + 1 # a + 1 /\ c + 1 # b + 1
    BY <1>2
  <2> QED BY <2>1 DEF WeightAt, Exchanged
<1> QED BY <1>1, <1>2

LEMMA Set2Weights ==
  ASSUME SafeInv, OrderInv, Comparing, NEW a \in l .. u, NEW b \in l .. u
  PROVE  /\ set2(a, b) \in Tables(N) /\ Shuffled(elems, set2(a, b), N, l, u)
         /\ WeightAt(set2(a, b), a) = WeightAt(elems, b) /\ WeightAt(set2(a, b), b) = WeightAt(elems, a)
         /\ \A c \in 1 .. N : c # a /\ c # b => WeightAt(set2(a, b), c) = WeightAt(elems, c)
<1>1. /\ N \in Nat /\ l \in Int /\ u \in Int /\ 1 <= l /\ u <= N
  BY OrderPositions
<1>2. a \in 0 .. N + 1 /\ b \in 0 .. N + 1 /\ a \in 1 .. N /\ b \in 1 .. N
  BY <1>1
<1>3. Exchanged(elems, set2(a, b), N, a + 1, b + 1)
  BY <1>2, Set2 DEF SafeInv
<1>4. set2(a, b) \in Tables(N)
  BY <1>3 DEF Exchanged
<1>5. Shuffled(elems, set2(a, b), N, l, u)
  BY <1>1, <1>3, ExchangeShuffles
<1> QED BY <1>1, <1>2, <1>3, <1>4, <1>5, ExchangedWeights

LEMMA EndsOrder == ASSUME SafeInv, OrderInv, ~wild, CompareEnds PROVE OrderInv'
<1>1. Comparing
  BY DEF CompareEnds, Comparing
<1>2. /\ N \in SortSizes /\ N \in Nat /\ Elements(elems, N) /\ elems \in Tables(N)
      /\ l \in Int /\ u \in Int /\ 1 <= l /\ l < u /\ u <= N
  BY <1>1, OrderPositions
<1>3. l \in 1 .. N /\ u \in 1 .. N /\ l \in l .. u /\ u \in l .. u /\ l # u
  BY <1>2
<1>4. WeightAt(elems, l) \in Int /\ WeightAt(elems, u) \in Int
  BY <1>2, <1>3, WeightIsInt
<1>5. PICK less \in Less(Elem(u), Elem(l)) : elems' = IF less THEN set2(l, u) ELSE elems
  BY DEF CompareEnds
<1>6. less <=> WeightAt(elems, u) < WeightAt(elems, l)
  <2>1. Elem(u) \in 1 .. N /\ Elem(l) \in 1 .. N
    BY <1>2, <1>3 DEF Elem, Elements
  <2> QED BY <2>1, LessIs DEF WeightAt, Elem
<1>7. /\ elems' \in Tables(N) /\ Shuffled(elems, elems', N, l, u)
      /\ WeightAt(elems', l) <= WeightAt(elems', u)
  <2>1. CASE less
    BY <2>1, <1>1, <1>3, <1>4, <1>5, <1>6, Set2Weights
  <2>2. CASE ~less
    BY <2>2, <1>2, <1>4, <1>5, <1>6, ShuffledSame
  <2> QED BY <2>1, <2>2
<1>8. CASE u - l = 1
  <2>1. Sorted(elems', l, u)
    <3> SUFFICES ASSUME NEW a \in l .. u, NEW b \in l .. u, a < b
                 PROVE  WeightAt(elems', a) <= WeightAt(elems', b)
      BY DEF Sorted
    <3>1. a = l /\ b = u
      BY <1>2, <1>8
    <3> QED BY <3>1, <1>7
  <2>2. RangeDone
    BY <1>8 DEF CompareEnds
  <2> QED BY <2>1, <2>2, <1>1, <1>7, DoneOrder
<1>9. CASE u - l # 1
  <2>1. ranges' = ranges /\ compare' = "middle with l"
    BY <1>9 DEF CompareEnds, NextCompare
  <2>2. l' = l /\ u' = u
    BY <2>1 DEF l, u
  <2>3. MedianInv' /\ LoopInv'
    BY <2>1, <2>2, <1>7 DEF MedianInv, LoopInv, Looping
  <2> QED BY <2>1, <2>3, <1>1, <1>7, StayOrder
<1> QED BY <1>8, <1>9

LEMMA MedianOrder ==
  ASSUME SafeInv, OrderInv, Comparing, u - l >= 2,
         NEW f, f \in Tables(N), Shuffled(elems, f, N, l, u),
         WeightAt(f, l) <= WeightAt(f, m), WeightAt(f, m) <= WeightAt(f, u), MedianDone(f)
  PROVE  OrderInv'
<1>1. /\ N \in SortSizes /\ N \in Nat /\ Elements(elems, N)
      /\ l \in Int /\ u \in Int /\ m \in Int /\ 1 <= l /\ l < m /\ m < u /\ u <= N
  BY OrderPositions
<1>2. l \in 1 .. N /\ m \in 1 .. N /\ u \in 1 .. N /\ u - 1 \in 1 .. N
  BY <1>1
<1>3. Elements(f, N)
  BY <1>1, ShuffledElements
<1>4. WeightAt(f, l) \in Int /\ WeightAt(f, m) \in Int /\ WeightAt(f, u) \in Int
  BY <1>1, <1>2, <1>3, WeightIsInt
<1>5. CASE u - l = 2
  <2>1. RangeDone /\ elems' = f
    BY <1>5 DEF MedianDone
  <2>2. Sorted(elems', l, u)
    <3> SUFFICES ASSUME NEW a \in l .. u, NEW b \in l .. u, a < b
                 PROVE  WeightAt(f, a) <= WeightAt(f, b)
      BY <2>1 DEF Sorted
    <3>1. \/ a = l /\ b = m
          \/ a = m /\ b = u
          \/ a = l /\ b = u
      BY <1>1, <1>5
    <3> QED BY <3>1, <1>4
  <2> QED BY <2>1, <2>2, DoneOrder
<1>6. CASE u - l # 2
  <2>1. Pivot(f)
    BY <1>6 DEF MedianDone
  <2>2. u - l >= 3 /\ l # u - 1 /\ u # u - 1 /\ l # m /\ u # m /\ m \in l .. u /\ u - 1 \in l .. u
    BY <1>1, <1>6
  <2>3. Exchanged(f, elems', N, m + 1, u - 1 + 1)
    <3>1. u - 1 + 1 = u
      BY <1>1
    <3> QED BY <3>1, <2>1, PivotStores
  <2>4. elems' \in Tables(N) /\ Shuffled(f, elems', N, l, u)
    BY <2>2, <2>3, <1>1, ExchangeShuffles DEF Exchanged
  <2>5. Shuffled(elems, elems', N, l, u)
    BY <2>4, <1>1, ShuffledTwice
  <2>6. /\ WeightAt(elems', l) = WeightAt(f, l) /\ WeightAt(elems', u) = WeightAt(f, u)
        /\ WeightAt(elems', u - 1) = WeightAt(f, m)
    <3>1. PICK n, a, b, g : /\ n = N /\ a = m /\ b = u - 1 /\ g = elems'
                            /\ Exchanged(f, g, n, a + 1, b + 1)
      BY <2>3
    <3>2. n \in Nat /\ a \in 1 .. n /\ b \in 1 .. n
      BY <3>1, <1>1, <1>2
    <3>3. /\ WeightAt(g, b) = WeightAt(f, a)
          /\ \A c \in 1 .. n : c # a /\ c # b => WeightAt(g, c) = WeightAt(f, c)
      BY SMTT(60), <3>1, <3>2, ExchangedWeights
    <3> QED BY <3>1, <3>3, <2>2, <1>2
  <2>7. pivot' = f[m + 1] /\ ranges' = ranges /\ compare' = "up" /\ i' = l + 1 /\ j' = u - 1
    BY <2>1 DEF Pivot, NextCompare
  <2>8. elems'[u] = f[m + 1] /\ f[m + 1] \in 1 .. N
    <3>1. elems'[u - 1 + 1] = f[m + 1] /\ u - 1 + 1 = u
      BY <2>3, <1>1 DEF Exchanged
    <3> QED BY <3>1, <1>2, <1>3 DEF Elements
  <2>9. l' = l /\ u' = u /\ N' = N
    BY <2>4, <2>7, SameSize DEF l, u, SafeInv
  <2>10. \A k \in l' .. i' - 1 : WeightAt(elems', k) <= Weight[pivot']
    <3>1. \A k \in l' .. i' - 1 : k = l
      BY <2>7, <2>9, <1>1
    <3>2. WeightAt(elems', l) <= Weight[pivot']
      BY <2>6, <2>7 DEF WeightAt
    <3> QED BY <3>1, <3>2
  <2>11. \A k \in u - 1 .. u : Weight[f[m + 1]] <= WeightAt(elems', k)
    <3>1. \A k \in u - 1 .. u : k = u - 1 \/ k = u
      BY <1>1
    <3>2. Weight[f[m + 1]] = WeightAt(f, m)
      BY DEF WeightAt
    <3> QED BY <3>1, <3>2, <2>6, <1>4
  <2>12. l + 1 <= u - 1 /\ l + 1 <= u - 1 + 1
    BY <2>2, <1>1
  <2>13. MedianInv'
    BY <2>7 DEF MedianInv
  <2>14. /\ pivot' \in 1 .. N' /\ elems'[u'] = pivot' /\ i' <= u' - 1 /\ i' <= j' + 1
         /\ \A k \in l' .. i' - 1 : WeightAt(elems', k) <= Weight[pivot']
         /\ \A k \in j' .. u' : Weight[pivot'] <= WeightAt(elems', k)
    <3>1. pivot' \in 1 .. N' /\ elems'[u'] = pivot'
      BY <2>7, <2>8, <2>9
    <3>2. i' <= u' - 1 /\ i' <= j' + 1
      BY <2>7, <2>9, <2>12
    <3>4. \A k \in j' .. u' : Weight[pivot'] <= WeightAt(elems', k)
      BY <2>7, <2>9, <2>11
    <3> QED BY <3>1, <3>2, <3>4, <2>10
  <2>15. LoopInv'
    BY <2>7, <2>14 DEF LoopInv, Looping
  <2> QED BY <2>4, <2>5, <2>7, <2>13, <2>15, StayOrder
<1> QED BY <1>5, <1>6

LEMMA LowOrder == ASSUME SafeInv, OrderInv, ~wild, CompareLow PROVE OrderInv'
<1>1. Comparing /\ u - l >= 2 /\ WeightAt(elems, l) <= WeightAt(elems, u) /\ compare = "middle with l"
  BY DEF CompareLow, Comparing, OrderInv, MedianInv, SafeInv, Bounds
<1>2. /\ N \in SortSizes /\ N \in Nat /\ Elements(elems, N) /\ elems \in Tables(N)
      /\ l \in Int /\ u \in Int /\ m \in Int /\ 1 <= l /\ l < m /\ m < u /\ u <= N
  BY <1>1, OrderPositions
<1>3. /\ l \in 1 .. N /\ m \in 1 .. N /\ u \in 1 .. N
      /\ l \in l .. u /\ m \in l .. u /\ l # m /\ u # m /\ u # l
  BY <1>2
<1>4. WeightAt(elems, l) \in Int /\ WeightAt(elems, m) \in Int /\ WeightAt(elems, u) \in Int
  BY <1>2, <1>3, WeightIsInt
<1>5. PICK less \in Less(Elem(m), Elem(l)) :
        IF less THEN MedianDone(set2(m, l))
        ELSE NextCompare("u with middle") /\ UNCHANGED <<elems, i, j, pivot>>
  BY DEF CompareLow
<1>6. less <=> WeightAt(elems, m) < WeightAt(elems, l)
  <2>1. Elem(m) \in 1 .. N /\ Elem(l) \in 1 .. N
    BY <1>2, <1>3 DEF Elem, Elements
  <2> QED BY <2>1, LessIs DEF WeightAt, Elem
<1>7. CASE less
  <2>1. MedianDone(set2(m, l))
    BY <1>5, <1>7
  <2>2. PICK f : f = set2(m, l)
    OBVIOUS
  <2>3. /\ f \in Tables(N) /\ Shuffled(elems, f, N, l, u)
        /\ WeightAt(f, m) = WeightAt(elems, l) /\ WeightAt(f, l) = WeightAt(elems, m)
        /\ WeightAt(f, u) = WeightAt(elems, u)
    BY <2>2, <1>1, <1>3, Set2Weights
  <2>4. WeightAt(f, l) <= WeightAt(f, m) /\ WeightAt(f, m) <= WeightAt(f, u)
    <3>1. WeightAt(elems, m) < WeightAt(elems, l) /\ WeightAt(elems, l) <= WeightAt(elems, u)
      BY <1>1, <1>6, <1>7
    <3> QED BY <3>1, <2>3, <1>4
  <2> QED BY <2>1, <2>2, <2>3, <2>4, <1>1, MedianOrder
<1>8. CASE ~less
  <2>1. ranges' = ranges /\ compare' = "u with middle" /\ elems' = elems
    BY <1>5, <1>8 DEF NextCompare
  <2>2. l' = l /\ u' = u /\ m' = m
    BY <2>1 DEF l, u, m
  <2>3. WeightAt(elems, l) <= WeightAt(elems, m)
    BY <1>4, <1>6, <1>8
  <2>4. MedianInv' /\ LoopInv'
    BY <2>1, <2>2, <2>3, <1>1 DEF MedianInv, LoopInv, Looping
  <2> QED BY <2>1, <2>4, <1>1, <1>2, ShuffledSame, StayOrder
<1> QED BY <1>7, <1>8

LEMMA HighOrder == ASSUME SafeInv, OrderInv, ~wild, CompareHigh PROVE OrderInv'
<1>1. /\ Comparing /\ u - l >= 2
      /\ WeightAt(elems, l) <= WeightAt(elems, u) /\ WeightAt(elems, l) <= WeightAt(elems, m)
  BY DEF CompareHigh, Comparing, OrderInv, MedianInv, SafeInv, Bounds
<1>2. /\ N \in SortSizes /\ N \in Nat /\ Elements(elems, N) /\ elems \in Tables(N)
      /\ l \in Int /\ u \in Int /\ m \in Int /\ 1 <= l /\ l < m /\ m < u /\ u <= N
  BY <1>1, OrderPositions
<1>3. /\ l \in 1 .. N /\ m \in 1 .. N /\ u \in 1 .. N
      /\ u \in l .. u /\ m \in l .. u /\ l # m /\ u # m /\ u # l
  BY <1>2
<1>4. WeightAt(elems, l) \in Int /\ WeightAt(elems, m) \in Int /\ WeightAt(elems, u) \in Int
  BY <1>2, <1>3, WeightIsInt
<1>5. PICK less \in Less(Elem(u), Elem(m)) : MedianDone(IF less THEN set2(m, u) ELSE elems)
  BY DEF CompareHigh
<1>6. less <=> WeightAt(elems, u) < WeightAt(elems, m)
  <2>1. Elem(u) \in 1 .. N /\ Elem(m) \in 1 .. N
    BY <1>2, <1>3 DEF Elem, Elements
  <2> QED BY <2>1, LessIs DEF WeightAt, Elem
<1>7. PICK f : f = IF less THEN set2(m, u) ELSE elems
  OBVIOUS
<1>8. MedianDone(f)
  BY <1>5, <1>7
<1>9. /\ f \in Tables(N) /\ Shuffled(elems, f, N, l, u)
      /\ WeightAt(f, l) <= WeightAt(f, m) /\ WeightAt(f, m) <= WeightAt(f, u)
  <2>1. CASE less
    <3>1. /\ f \in Tables(N) /\ Shuffled(elems, f, N, l, u)
          /\ WeightAt(f, m) = WeightAt(elems, u) /\ WeightAt(f, u) = WeightAt(elems, m)
          /\ WeightAt(f, l) = WeightAt(elems, l)
      BY <2>1, <1>1, <1>3, <1>7, Set2Weights
    <3> QED BY <3>1, <2>1, <1>1, <1>4, <1>6
  <2>2. CASE ~less
    BY <2>2, <1>1, <1>2, <1>4, <1>6, <1>7, ShuffledSame
  <2> QED BY <2>1, <2>2
<1> QED BY <1>1, <1>8, <1>9, MedianOrder

\* What the invariant says while a range is partitioned.
LEMMA LoopFacts ==
  ASSUME SafeInv, OrderInv, Looping
  PROVE  /\ Comparing /\ N \in SortSizes /\ N \in Nat /\ Elements(elems, N) /\ elems \in Tables(N)
         /\ l \in Int /\ u \in Int /\ i \in Int /\ j \in Int /\ 1 <= l /\ u <= N /\ u - l >= 3
         /\ l + 1 <= i /\ i <= u - 1 /\ pivot \in 1 .. N /\ elems[u] = pivot /\ Weight[pivot] \in Int
         /\ \A k \in l .. u : k \in 1 .. N /\ WeightAt(elems, k) \in Int
         /\ \A k \in l .. i - 1 : WeightAt(elems, k) <= Weight[pivot]
<1>1. Comparing
  BY DEF Looping, Comparing
<1>2. /\ N \in SortSizes /\ N \in Nat /\ Elements(elems, N) /\ elems \in Tables(N)
      /\ l \in Int /\ u \in Int /\ i \in Int /\ j \in Int /\ 1 <= l /\ u <= N
  BY <1>1, OrderPositions
<1>3. u - l >= 3 /\ l + 1 <= i
  BY DEF SafeInv, Bounds
<1>4. /\ i <= u - 1 /\ pivot \in 1 .. N /\ elems[u] = pivot
      /\ \A k \in l .. i - 1 : WeightAt(elems, k) <= Weight[pivot]
  BY DEF OrderInv, LoopInv
<1>5. Weight[pivot] \in Int
  BY <1>2, <1>4, TableSortAssumption
<1>6. \A k \in l .. u : k \in 1 .. N /\ WeightAt(elems, k) \in Int
  <2>1. \A k \in l .. u : k \in 1 .. N
    BY <1>2
  <2> QED BY <2>1, <1>2, WeightIsInt
<1> QED BY <1>1, <1>2, <1>3, <1>4, <1>5, <1>6

LEMMA UpOrder == ASSUME SafeInv, OrderInv, ~wild, CompareUp PROVE OrderInv'
<1>1. compare = "up" /\ elems' = elems /\ pivot' = pivot /\ ranges' = ranges
  BY DEF CompareUp, NextCompare
<1>2. /\ Looping /\ l + 1 <= j /\ j <= u - 1 /\ i <= j + 1
      /\ \A k \in j .. u : Weight[pivot] <= WeightAt(elems, k)
  BY <1>1 DEF Looping, SafeInv, Bounds, OrderInv, LoopInv
<1>3. /\ Comparing /\ N \in Nat /\ Elements(elems, N) /\ elems \in Tables(N)
      /\ l \in Int /\ u \in Int /\ i \in Int /\ j \in Int /\ l + 1 <= i /\ i <= u - 1
      /\ pivot \in 1 .. N /\ elems[u] = pivot /\ Weight[pivot] \in Int
      /\ \A k \in l .. u : k \in 1 .. N /\ WeightAt(elems, k) \in Int
      /\ \A k \in l .. i - 1 : WeightAt(elems, k) <= Weight[pivot]
  BY <1>2, LoopFacts
<1>4. i \in l .. u /\ i \in 1 .. N /\ WeightAt(elems, i) \in Int
  BY <1>3
<1>5. PICK less \in Less(Elem(i), pivot) :
        \/ less /\ i > u /\ NextCompare("error") /\ UNCHANGED <<i, j>>
        \/ less /\ i <= u /\ i' = i + 1 /\ UNCHANGED <<j, ranges, compare>>
        \/ ~less /\ j' = j - 1 /\ NextCompare("down") /\ UNCHANGED i
  BY DEF CompareUp
<1>6. less <=> WeightAt(elems, i) < Weight[pivot]
  <2>1. Elem(i) \in 1 .. N
    BY <1>3, <1>4 DEF Elem, Elements
  <2> QED BY <2>1, <1>3, LessIs DEF WeightAt, Elem
<1>7. l' = l /\ u' = u /\ N' = N
  BY <1>1 DEF l, u, N
<1>8. MedianInv' /\ LoopInv'
  <2>1. CASE less
    <3>1. i' = i + 1 /\ j' = j /\ compare' = "up"
      BY <2>1, <1>1, <1>3, <1>5
    \* An element of less weight than the pivot is not behind j.
    <3>2. i < j
      <4>1. i \notin j .. u
        BY <2>1, <1>2, <1>3, <1>4, <1>6
      <4> QED BY <4>1, <1>3
    <3>3. i + 1 <= u - 1 /\ i + 1 <= j + 1
      BY <3>2, <1>2, <1>3
    <3>4. ASSUME NEW k \in l .. i + 1 - 1 PROVE WeightAt(elems, k) <= Weight[pivot]
      <4>1. k \in l .. i - 1 \/ k = i
        BY <1>3
      <4> QED BY <4>1, <2>1, <1>3, <1>4, <1>6
    <3> QED BY <3>1, <3>3, <3>4, <1>1, <1>2, <1>3, <1>7 DEF MedianInv, LoopInv, Looping
  <2>2. CASE ~less
    <3>1. i' = i /\ j' = j - 1 /\ compare' = "down"
      BY <2>2, <1>5 DEF NextCompare
    <3>2. l <= j - 1 /\ i <= j - 1 + 2 /\ Weight[pivot] <= WeightAt(elems, i)
      BY <2>2, <1>2, <1>3, <1>4, <1>6
    <3>3. ASSUME NEW k \in j - 1 + 1 .. u PROVE Weight[pivot] <= WeightAt(elems, k)
      <4>1. k \in j .. u
        BY <1>3
      <4> QED BY <4>1, <1>2
    <3> QED BY <3>1, <3>2, <3>3, <1>1, <1>3, <1>7 DEF MedianInv, LoopInv, Looping
  <2> QED BY <2>1, <2>2
<1> QED BY <1>1, <1>3, <1>8, ShuffledSame, StayOrder

\* The parts of a range that was partitioned take its place.
LEMMA SplitOrder ==
  ASSUME SafeInv, OrderInv, Comparing, elems' \in Tables(N), Shuffled(elems, elems', N, l, u),
         l + 1 <= i, i <= u - 1, GoOnWith(Split \o Tail(ranges)),
         \A a \in l .. i, b \in i .. u : WeightAt(elems', a) <= WeightAt(elems', b)
  PROVE  OrderInv'
<1>1. SortTypeOK /\ Bounds /\ N' = N
  BY SameSize DEF SafeInv
<1>2. /\ l \in Int /\ u \in Int /\ i \in Int /\ N \in SortSizes /\ N \in Nat /\ 1 <= l /\ u <= N
      /\ l = ranges[1].l /\ u = ranges[1].u /\ Len(ranges) \in Nat /\ Len(ranges) >= 1
      /\ ranges \in Seq(Ranges) /\ Apart(ranges)
  BY OrderPositions
<1>3. PICK rs : rs = Split \o Tail(ranges)
  OBVIOUS
<1>4. PICK x, y \in Ranges :
        Parts(rs, x, y) /\ {x, y} = {[l |-> l, u |-> i - 1], [l |-> i + 1, u |-> u]}
  BY <1>1, <1>2, <1>3, SplitParts, SMTT(30)
<1>5. /\ rs \in Seq(Ranges) /\ Len(rs) = Len(ranges) + 1 /\ rs[1] = x /\ rs[2] = y
      /\ \A k \in 3 .. Len(rs) : rs[k] = ranges[k - 1]
  BY <1>4 DEF Parts
<1>6. \/ x.l = l /\ x.u = i - 1 /\ y.l = i + 1 /\ y.u = u
      \/ y.l = l /\ y.u = i - 1 /\ x.l = i + 1 /\ x.u = u
  <2>1. PICK low, high : low = [l |-> l, u |-> i - 1] /\ high = [l |-> i + 1, u |-> u]
    OBVIOUS
  <2>2. low.l = l /\ low.u = i - 1 /\ high.l = i + 1 /\ high.u = u
    BY <2>1
  <2>3. low # high
    BY <2>2, <1>2
  <2>4. (x = low /\ y = high) \/ (x = high /\ y = low)
    BY <2>1, <2>3, <1>4
  <2> QED BY <2>2, <2>4
<1>7. PICK k \in 0 .. Len(rs) : Resumes(rs, k)
  BY <1>3, <1>5, GoesOn
<1>8. Apart(rs)
  <2> SUFFICES ASSUME NEW p \in 1 .. Len(rs), NEW q \in 1 .. Len(rs), p # q
               PROVE  rs[p].u < rs[q].l \/ rs[q].u < rs[p].l
    BY DEF Apart
  <2>1. \A a \in 3 .. Len(rs) : /\ a - 1 \in 1 .. Len(ranges) /\ a - 1 # 1 /\ rs[a] = ranges[a - 1]
                               /\ ranges[a - 1].l \in Int /\ ranges[a - 1].u \in Int
    <3>1. TAKE a \in 3 .. Len(rs)
    <3>2. a - 1 \in 1 .. Len(ranges) /\ a - 1 # 1
      BY <3>1, <1>2, <1>5
    <3>3. ranges[a - 1] \in Ranges
      BY <3>2, <1>2
    <3> QED BY <3>2, <3>3, <1>5 DEF Ranges
  <2>2. ASSUME NEW a \in 3 .. Len(rs), NEW b \in {1, 2}
        PROVE  rs[a].u < rs[b].l \/ rs[b].u < rs[a].l
    <3>1. ranges[a - 1].u < l \/ u < ranges[a - 1].l
      BY <2>1, <1>2 DEF Apart
    <3>0. l \in Int /\ u \in Int /\ i \in Int /\ l + 1 <= i /\ i <= u - 1
      BY <1>2
    <3>2. /\ x.l \in Int /\ x.u \in Int /\ l <= x.l /\ x.u <= u
          /\ y.l \in Int /\ y.u \in Int /\ l <= y.l /\ y.u <= u
      <4>1. CASE x.l = l /\ x.u = i - 1 /\ y.l = i + 1 /\ y.u = u
        BY ONLY <4>1, <3>0
      <4>2. CASE y.l = l /\ y.u = i - 1 /\ x.l = i + 1 /\ x.u = u
        BY ONLY <4>2, <3>0
      <4> QED BY <4>1, <4>2, <1>6
    <3>3. rs[b] = x \/ rs[b] = y
      BY <1>5
    <3>4. /\ rs[b].l \in Int /\ rs[b].u \in Int /\ l <= rs[b].l /\ rs[b].u <= u
      BY <3>2, <3>3
    <3>5. PICK r : r = ranges[a - 1]
      OBVIOUS
    <3>6. rs[a] = r /\ r.l \in Int /\ r.u \in Int /\ (r.u < l \/ u < r.l)
      BY <2>1, <3>1, <3>5
    <3>7. r.u < rs[b].l \/ rs[b].u < r.l
      BY ONLY SMTT(60), <3>4, <3>6, <3>0
    <3> QED BY <3>6, <3>7
  <2>3. CASE p \in {1, 2} /\ q \in {1, 2}
    BY SMTT(60), <2>3, <1>2, <1>5, <1>6
  <2>4. CASE p \notin {1, 2} /\ q \in {1, 2}
    <3>1. p \in 3 .. Len(rs)
      BY <2>4, <1>2, <1>5
    <3> QED BY <3>1, <2>2, <2>4
  <2>5. CASE p \in {1, 2} /\ q \notin {1, 2}
    <3>1. q \in 3 .. Len(rs)
      BY <2>5, <1>2, <1>5
    <3> QED BY <3>1, <2>2, <2>5
  <2>6. CASE p \notin {1, 2} /\ q \notin {1, 2}
    <3>1. p \in 3 .. Len(rs) /\ q \in 3 .. Len(rs) /\ p - 1 # q - 1
      BY <2>6, <1>2, <1>5
    <3> QED BY <3>1, <2>1, <1>2 DEF Apart
  <2> QED BY <2>3, <2>4, <2>5, <2>6
<1>9. Apart(ranges')
  BY <1>5, <1>7, <1>8, ResumesApart
<1>10. ASSUME NEW a \in 1 .. N, NEW b \in 1 .. N, a < b, ~Together(ranges', a, b)
       PROVE  ~Together(ranges, a, b) \/ (l <= a /\ b <= u /\ WeightAt(elems', a) <= WeightAt(elems', b))
  <2>1. ~Together(rs, a, b)
    BY <1>2, <1>5, <1>7, <1>10, ResumesTogether
  <2>2. ASSUME NEW q \in 1 .. Len(ranges), ranges[q].l <= a, b <= ranges[q].u, q # 1
        PROVE  FALSE
    <3>1. q + 1 \in 3 .. Len(rs) /\ (q + 1) - 1 = q
      BY <1>2, <1>5, <2>2, SMTT(30)
    <3>2. rs[q + 1] = ranges[q] /\ q + 1 \in 1 .. Len(rs)
      BY <3>1, <1>5
    <3> QED BY <3>2, <2>1, <2>2 DEF Together
  <2>3. CASE l <= a /\ b <= u
    <3>1. 1 \in 1 .. Len(rs) /\ 2 \in 1 .. Len(rs)
      BY <1>2, <1>5
    <3>2. ~(l <= a /\ b <= i - 1) /\ ~(i + 1 <= a /\ b <= u)
      BY <3>1, <2>1, <1>5, <1>6 DEF Together
    <3>3. a \in l .. i /\ b \in i .. u
      BY <3>2, <2>3, <1>2, <1>10
    <3> QED BY <3>3, <2>3
  <2>4. CASE ~(l <= a /\ b <= u)
    BY <2>2, <2>4, <1>2 DEF Together
  <2> QED BY <2>3, <2>4
<1>11. Ordered(elems', ranges', N)
  BY <1>10, OrderPositions, Rearrange
<1>12. Elements(elems', N)
  BY OrderPositions, ShuffledElements
<1>13. compare' \notin {"middle with l", "u with middle", "up", "down"}
  BY <1>7 DEF Resumes
<1>14. MedianInv' /\ LoopInv'
  BY <1>13 DEF MedianInv, LoopInv, Looping
<1> QED BY <1>1, <1>2, <1>9, <1>11, <1>12, <1>14 DEF OrderInv

LEMMA DownOrder == ASSUME SafeInv, OrderInv, ~wild, CompareDown PROVE OrderInv'
<1>1. compare = "down" /\ pivot' = pivot
  BY DEF CompareDown
<1>2. /\ Looping /\ l <= j /\ j <= u - 2 /\ i <= j + 2 /\ Weight[pivot] <= WeightAt(elems, i)
      /\ \A k \in j + 1 .. u : Weight[pivot] <= WeightAt(elems, k)
  BY <1>1 DEF Looping, SafeInv, Bounds, OrderInv, LoopInv
<1>3. /\ Comparing /\ N \in Nat /\ Elements(elems, N) /\ elems \in Tables(N)
      /\ l \in Int /\ u \in Int /\ i \in Int /\ j \in Int /\ 1 <= l /\ u <= N
      /\ l + 1 <= i /\ i <= u - 1
      /\ pivot \in 1 .. N /\ elems[u] = pivot /\ Weight[pivot] \in Int
      /\ \A k \in l .. u : k \in 1 .. N /\ WeightAt(elems, k) \in Int
      /\ \A k \in l .. i - 1 : WeightAt(elems, k) <= Weight[pivot]
  BY <1>2, LoopFacts
<1>4. i \in l .. u /\ j \in l .. u /\ j \in 1 .. N /\ WeightAt(elems, i) \in Int /\ WeightAt(elems, j) \in Int
  BY <1>2, <1>3
<1>5. PICK less \in Less(pivot, Elem(j)) :
        \/ less /\ j < l /\ NextCompare("error") /\ UNCHANGED <<elems, i, j>>
        \/ less /\ j >= l /\ j' = j - 1 /\ UNCHANGED <<elems, i, ranges, compare>>
        \/ /\ ~less /\ j >= i
           /\ elems' = set2(i, j) /\ i' = i + 1 /\ NextCompare("up") /\ UNCHANGED j
        \/ /\ ~less /\ j < i
           /\ elems' = set2(u - 1, i) /\ GoOnWith(Split \o Tail(ranges)) /\ UNCHANGED <<i, j>>
  BY DEF CompareDown
<1>6. less <=> Weight[pivot] < WeightAt(elems, j)
  <2>1. Elem(j) \in 1 .. N
    BY <1>3, <1>4 DEF Elem, Elements
  <2> QED BY <2>1, <1>3, LessIs DEF WeightAt, Elem
<1>7. CASE less
  <2>1. elems' = elems /\ i' = i /\ j' = j - 1 /\ ranges' = ranges /\ compare' = "down"
    BY <1>1, <1>2, <1>3, <1>5, <1>7
  <2>2. l' = l /\ u' = u /\ N' = N
    BY <2>1 DEF l, u, N
  \* An element of more weight than the pivot is not before i.
  <2>3. j >= i
    <3>1. j \notin l .. i - 1
      BY <1>3, <1>4, <1>6, <1>7
    <3> QED BY <3>1, <1>2, <1>3
  <2>4. l <= j - 1 /\ i <= j - 1 + 2
    BY <2>3, <1>3
  <2>5. ASSUME NEW k \in j - 1 + 1 .. u PROVE Weight[pivot] <= WeightAt(elems, k)
    <3>1. k = j \/ k \in j + 1 .. u
      BY <1>3
    <3> QED BY <3>1, <1>2, <1>3, <1>4, <1>6, <1>7
  <2>6. MedianInv' /\ LoopInv'
    BY <2>1, <2>2, <2>4, <2>5, <1>1, <1>2, <1>3 DEF MedianInv, LoopInv, Looping
  <2> QED BY <2>1, <2>6, <1>3, ShuffledSame, StayOrder
<1>8. CASE ~less /\ j >= i
  <2>1. elems' = set2(i, j) /\ i' = i + 1 /\ j' = j /\ ranges' = ranges /\ compare' = "up"
    BY <1>5, <1>8, <1>3 DEF NextCompare
  <2>2. /\ elems' \in Tables(N) /\ Shuffled(elems, elems', N, l, u)
        /\ WeightAt(elems', i) = WeightAt(elems, j) /\ WeightAt(elems', j) = WeightAt(elems, i)
        /\ \A c \in 1 .. N : c # i /\ c # j => WeightAt(elems', c) = WeightAt(elems, c)
    BY <2>1, <1>3, <1>4, Set2Weights
  <2>3. l' = l /\ u' = u /\ N' = N
    BY <2>1, <2>2, SameSize DEF l, u, SafeInv
  <2>4. elems'[u] = pivot
    <3>1. u \in 1 .. N + 2 /\ u # i + 1 /\ u # j + 1
      BY <1>2, <1>3, <1>8
    <3>2. Exchanged(elems, elems', N, i + 1, j + 1)
      BY <2>1, <1>3, <1>4, Set2 DEF SafeInv
    <3> QED BY <3>1, <3>2, <1>3 DEF Exchanged
  <2>5. i + 1 <= u - 1 /\ i + 1 <= j + 1
    BY <1>2, <1>3, <1>8
  <2>6. ASSUME NEW k \in l .. i + 1 - 1 PROVE WeightAt(elems', k) <= Weight[pivot]
    <3>1. CASE k = i
      BY <3>1, <2>2, <1>3, <1>4, <1>6, <1>8
    <3>2. CASE k # i
      <4>1. k \in l .. i - 1 /\ k \in 1 .. N /\ k # j
        BY <3>2, <1>3, <1>8
      <4> QED BY <4>1, <3>2, <2>2, <1>3
    <3> QED BY <3>1, <3>2
  <2>7. ASSUME NEW k \in j .. u PROVE Weight[pivot] <= WeightAt(elems', k)
    <3>1. CASE k = j
      BY <3>1, <2>2, <1>2
    <3>2. CASE k # j
      <4>1. k \in j + 1 .. u /\ k \in 1 .. N /\ k # i
        BY <3>2, <1>3, <1>8
      <4> QED BY <4>1, <3>2, <2>2, <1>2
    <3> QED BY <3>1, <3>2
  <2>8. MedianInv' /\ LoopInv'
    BY <2>1, <2>3, <2>4, <2>5, <2>6, <2>7, <1>1, <1>3 DEF MedianInv, LoopInv, Looping
  <2> QED BY <2>1, <2>2, <2>8, <1>3, StayOrder
<1>9. CASE ~less /\ j < i
  <2>1. elems' = set2(u - 1, i) /\ GoOnWith(Split \o Tail(ranges))
    BY <1>3, <1>5, <1>9
  <2>2. PICK b \in l .. u : b = u - 1
    BY <1>3
  <2>3. /\ elems' \in Tables(N) /\ Shuffled(elems, elems', N, l, u)
        /\ WeightAt(elems', b) = WeightAt(elems, i) /\ WeightAt(elems', i) = WeightAt(elems, b)
        /\ \A c \in 1 .. N : c # b /\ c # i => WeightAt(elems', c) = WeightAt(elems, c)
    BY <2>1, <2>2, <1>3, <1>4, Set2Weights
  <2>4. WeightAt(elems, b) = Weight[pivot]
    <3>1. b + 1 = u
      BY <2>2, <1>3
    <3> QED BY <3>1, <1>3 DEF WeightAt
  <2>5. ASSUME NEW k \in l .. i PROVE WeightAt(elems', k) \in Int /\ WeightAt(elems', k) <= Weight[pivot]
    <3>1. CASE k = i
      BY <3>1, <2>3, <2>4, <1>3
    <3>2. CASE k # i
      <4>1. k \in l .. i - 1 /\ k \in 1 .. N /\ k # b /\ k \in l .. u
        BY <3>2, <2>2, <1>3
      <4> QED BY <4>1, <3>2, <2>3, <1>3
    <3> QED BY <3>1, <3>2
  <2>6. ASSUME NEW k \in i .. u PROVE WeightAt(elems', k) \in Int /\ Weight[pivot] <= WeightAt(elems', k)
    <3>1. CASE k = i
      BY <3>1, <2>3, <2>4, <1>3
    <3>2. CASE k # i /\ k = b
      BY <3>2, <2>3, <1>2, <1>4
    <3>3. CASE k # i /\ k # b
      <4>1. k \in j + 1 .. u /\ k \in 1 .. N /\ k \in l .. u
        BY <3>3, <1>2, <1>3, <1>9
      <4> QED BY <4>1, <3>3, <2>3, <1>2, <1>3
    <3> QED BY <3>1, <3>2, <3>3
  <2>7. \A x \in l .. i, y \in i .. u : WeightAt(elems', x) <= WeightAt(elems', y)
    <3>1. TAKE x \in l .. i, y \in i .. u
    <3>2. /\ WeightAt(elems', x) \in Int /\ WeightAt(elems', x) <= Weight[pivot]
          /\ WeightAt(elems', y) \in Int /\ Weight[pivot] <= WeightAt(elems', y)
      BY <2>5, <2>6
    <3> QED BY <3>2, <1>3
  <2> QED BY <2>1, <2>3, <2>7, <1>3, SplitOrder
<1> QED BY <1>3, <1>7, <1>8, <1>9

LEMMA OrderInit == ASSUME SortInit, ~wild PROVE OrderInv
<1>0. PICK n \in SortSizes \cup WildSizes : \E f \in [1 .. n -> 1 .. n] :
        /\ n \in Nat /\ n >= 2 /\ (~wild => n \in SortSizes) /\ wild \in BOOLEAN
        /\ \A a, b \in 1 .. n : a # b => f[a] # f[b]
        /\ Encloses(elems, f)
  BY Beginning
<1>1. PICK f \in [1 .. n -> 1 .. n] : n \in Nat /\ n >= 2 /\ n \in SortSizes /\ Encloses(elems, f)
  BY <1>0
<1>2. Len(elems) = n + 2 /\ \A k \in 1 .. n : elems[k + 1] = f[k]
  <2>1. n \in Nat /\ Encloses(elems, f)
    BY <1>1
  <2> QED BY ONLY <2>1, f \in [1 .. n -> 1 .. n], Enclosed
<1>3. N = n
  BY <1>1, <1>2 DEF N
<1>4. Elements(elems, n)
  BY <1>1, <1>2 DEF Elements
<1>5. ranges = <<[l |-> 1, u |-> n]>> /\ compare = "ends"
  BY <1>3 DEF SortInit
<1>6. Len(ranges) = 1 /\ ranges[1].l = 1 /\ ranges[1].u = n
  BY <1>5
<1>7. Apart(ranges)
  BY <1>6 DEF Apart
<1>8. Ordered(elems, ranges, n)
  <2>1. \A a, b \in 1 .. n : Together(ranges, a, b)
    BY <1>1, <1>6 DEF Together
  <2> QED BY <2>1 DEF Ordered
<1>9. MedianInv /\ LoopInv
  BY <1>5 DEF MedianInv, LoopInv, Looping
<1> QED BY <1>1, <1>3, <1>4, <1>7, <1>8, <1>9 DEF OrderInv

LEMMA OrderNext == ASSUME SafeInv, OrderInv, ~wild, SortNext PROVE OrderInv'
<1>1. ASSUME OrderFails PROVE OrderInv'
  <2>1. elems' = elems /\ ranges' = ranges /\ compare' = "error"
    BY <1>1 DEF OrderFails
  <2>2. N' = N /\ l' = l /\ u' = u
    BY <2>1 DEF N, l, u
  <2> QED BY <2>1, <2>2 DEF OrderInv, MedianInv, LoopInv, Looping
<1> QED BY <1>1, EndsOrder, LowOrder, HighOrder, UpOrder, DownOrder DEF SortNext

LEMMA OrderSorts == ASSUME SafeInv, ~wild => OrderInv PROVE SortSorts
<1> SUFFICES ASSUME ~wild
             PROVE  /\ compare = "up" => i <= u
                    /\ compare = "down" => j >= l
                    /\ compare = "done" => \A a \in 1 .. N - 1 : Weight[Elem(a)] <= Weight[Elem(a + 1)]
  BY DEF SortSorts
<1>1. OrderInv /\ N \in Nat
  BY DEF SafeInv, SortTypeOK
<1>2. ASSUME Looping PROVE i <= u
  <2>1. u \in Int /\ i \in Int /\ i <= u - 1
    BY <1>1, <1>2, LoopFacts
  <2> QED BY <2>1
<1>3. ASSUME compare = "down" PROVE j >= l
  <2>1. l \in Int /\ j \in Int
    BY <1>1, <1>3, LoopFacts DEF Looping
  <2>2. l <= j
    BY <1>1, <1>3 DEF OrderInv, LoopInv
  <2> QED BY <2>1, <2>2
<1>4. ASSUME compare = "done", NEW a \in 1 .. N - 1
      PROVE  Weight[Elem(a)] <= Weight[Elem(a + 1)]
  <2>1. ranges = <<>>
    BY <1>4 DEF SafeInv, Bounds
  <2>2. a \in 1 .. N /\ a + 1 \in 1 .. N /\ a < a + 1
    BY <1>1
  <2>3. ~Together(ranges, a, a + 1)
    BY <2>1 DEF Together
  <2>4. WeightAt(elems, a) <= WeightAt(elems, a + 1)
    BY <2>2, <2>3, <1>1 DEF OrderInv, Ordered
  <2> QED BY <2>4 DEF WeightAt, Elem
<1> QED BY <1>2, <1>3, <1>4 DEF Looping

\* With an order, a table is sorted in the end, and no index outside a range is read while
\* it is partitioned, for tables of any size and any weights (auxsort): what keeps the loops
\* within it is that the elements at its ends have been compared with the pivot.
THEOREM TableSorted == SortSpec => []SortSorts
<1> DEFINE Inv == SafeInv /\ (~wild => OrderInv)
<1>1. SortInit => Inv
  BY SafeInit, OrderInit
<1>2. Inv /\ [SortNext]_sortVars => Inv'
  <2>1. ASSUME Inv, UNCHANGED sortVars PROVE Inv'
    BY <2>1 DEF sortVars, SafeInv, SortTypeOK, Bounds, Comparing, Looping, N, l, u, m,
                OrderInv, MedianInv, LoopInv
  <2>2. ASSUME Inv, SortNext PROVE Inv'
    <3>1. wild' = wild
      BY <2>2 DEF SortNext
    <3> QED BY <2>2, <3>1, SafeNext, OrderNext
  <2> QED BY <2>1, <2>2
<1>3. Inv => SortSorts
  BY OrderSorts
<1> QED BY <1>1, <1>2, <1>3, PTL DEF SortSpec

-----------------------------------------------------------------------------
(* The recursion is shallow.  Every activation has a bound: what it sorts   *)
(* is no larger, and twice that of the activation it calls is no larger     *)
(* than its own.                                                            *)

Size(r) == r.u - r.l + 1
Halving(rs, b, n) ==
  /\ b \in [1 .. Len(rs) -> Int]
  /\ \A k \in 1 .. Len(rs) : Size(rs[k]) <= b[k] /\ b[k] <= n
  /\ \A k \in 1 .. Len(rs) - 1 : 2 * b[k] <= b[k + 1]
Begun(rs) == rs # <<>> => rs[1].l < rs[1].u
ShallowInv == Begun(ranges) /\ \E b : Halving(ranges, b, N)

\* The activations that are left when some have ended.
LEMMA HalvingRest ==
  ASSUME NEW rs \in Seq(Ranges), NEW n \in Nat, NEW b, Halving(rs, b, n), NEW k \in 0 .. Len(rs),
         NEW qs \in Seq(Ranges), Len(qs) = Len(rs) - k, \A q \in 1 .. Len(rs) - k : qs[q] = rs[q + k]
  PROVE  \E c : Halving(qs, c, n)
<1> DEFINE c == [q \in 1 .. Len(qs) |-> b[q + k]]
<1>1. Len(rs) \in Nat /\ Len(qs) \in Nat
  OBVIOUS
<1>2. ASSUME NEW q \in 1 .. Len(qs)
      PROVE  q + k \in 1 .. Len(rs) /\ c[q] = b[q + k] /\ qs[q] = rs[q + k] /\ c[q] \in Int
  <2>1. q + k \in 1 .. Len(rs) /\ c[q] = b[q + k]
    BY <1>1
  <2> QED BY <2>1 DEF Halving
<1>3. ASSUME NEW q \in 1 .. Len(qs) - 1
      PROVE  2 * c[q] <= c[q + 1]
  <2>1. q \in 1 .. Len(qs) /\ q + 1 \in 1 .. Len(qs) /\ q + k \in 1 .. Len(rs) - 1 /\ (q + 1) + k = (q + k) + 1
    BY <1>1
  <2>2. c[q] = b[q + k] /\ c[q + 1] = b[(q + k) + 1]
    BY <2>1
  <2> QED BY <2>1, <2>2 DEF Halving
<1>4. c \in [1 .. Len(qs) -> Int]
  BY <1>2
<1> HIDE DEF c
<1>5. \A q \in 1 .. Len(qs) : Size(qs[q]) <= c[q] /\ c[q] <= n
  BY <1>2 DEF Halving
<1> QED BY <1>3, <1>4, <1>5 DEF Halving

\* The smaller part of a range is at most half of it, the larger no larger than it.
LEMMA HalvingSplit ==
  ASSUME SafeInv, Looping, NEW b, Halving(ranges, b, N), NEW rs, rs = Split \o Tail(ranges)
  PROVE  \E c : Halving(rs, c, N)
<1>1. /\ SortTypeOK /\ Bounds /\ Comparing /\ ranges \in Seq(Ranges) /\ ranges # <<>>
      /\ l + 1 <= i /\ i <= u + 1 /\ u - l >= 3 /\ i \in Int /\ N \in Nat
  BY Positions DEF SafeInv, SortTypeOK, Bounds, Looping, Comparing
<1>2. l \in Int /\ u \in Int /\ ranges[1].l = l /\ ranges[1].u = u /\ Len(ranges) \in Nat \ {0}
  BY <1>1, Positions DEF l, u
<1>3. PICK x \in Ranges, y \in Ranges :
        /\ Split = <<x, y>> /\ 2 * Size(x) <= Size(ranges[1]) /\ Size(y) <= Size(ranges[1])
        /\ Size(x) \in Int
  <2> DEFINE low == [l |-> l, u |-> i - 1]  high == [l |-> i + 1, u |-> u]
  <2>1. low \in Ranges /\ high \in Ranges /\ Size(low) = i - l /\ Size(high) = u - i
    BY <1>1, <1>2 DEF Ranges, Size
  <2>2. Size(ranges[1]) = u - l + 1
    BY <1>2 DEF Size
  <2>3. CASE i - l < u - i
    <3>1. Split = <<low, high>>
      BY <2>3 DEF Split
    <3>2. 2 * (i - l) <= u - l + 1 /\ u - i <= u - l + 1 /\ i - l \in Int
      BY <1>1, <1>2, <2>3
    <3> HIDE DEF low, high
    <3> QED BY <2>1, <2>2, <3>1, <3>2
  <2>4. CASE ~(i - l < u - i)
    <3>1. Split = <<high, low>>
      BY <2>4 DEF Split
    <3>2. 2 * (u - i) <= u - l + 1 /\ i - l <= u - l + 1 /\ u - i \in Int
      BY <1>1, <1>2, <2>4
    <3> HIDE DEF low, high
    <3> QED BY <2>1, <2>2, <3>1, <3>2
  <2> QED BY <2>3, <2>4
<1>4. PICK s \in Seq(Ranges) : s = Tail(ranges)
  BY <1>1, Positions
<1>5. Len(s) = Len(ranges) - 1 /\ \A k \in 1 .. Len(ranges) - 1 : s[k] = ranges[k + 1]
  BY <1>1, <1>4, Positions
<1>6. /\ Len(rs) = Len(s) + 2 /\ rs[1] = x /\ rs[2] = y
      /\ \A k \in 3 .. Len(s) + 2 : rs[k] = s[k - 2]
  BY <1>3, <1>4, Joined
<1> DEFINE c == [k \in 1 .. Len(rs) |-> IF k = 1 THEN Size(x) ELSE b[k - 1]]
<1>7. Len(rs) = Len(ranges) + 1 /\ c[1] = Size(x) /\ c[2] = b[1] /\ Size(x) \in Int
  BY <1>2, <1>3, <1>5, <1>6
<1>8. Size(ranges[1]) <= b[1] /\ b[1] <= N /\ b[1] \in Int /\ Size(ranges[1]) \in Int
  BY <1>2 DEF Halving, Size
<1>9. c \in [1 .. Len(rs) -> Int]
  <2>1. ASSUME NEW k \in 1 .. Len(rs) PROVE c[k] \in Int
    <3>1. k = 1 \/ k - 1 \in 1 .. Len(ranges)
      BY <1>2, <1>7
    <3> QED BY <3>1, <1>7 DEF Halving
  <2> QED BY <2>1
<1>10. ASSUME NEW k \in 1 .. Len(rs) PROVE Size(rs[k]) <= c[k] /\ c[k] <= N
  <2>1. CASE k = 1
    <3>1. 2 * Size(x) <= N /\ Size(x) <= N
      BY <1>1, <1>3, <1>8
    <3> QED BY <2>1, <3>1, <1>6, <1>7
  <2>2. CASE k = 2
    <3>1. Size(y) <= b[1] /\ Size(y) \in Int
      BY SMTT(60), <1>3, <1>8 DEF Size, Ranges
    <3> QED BY <2>2, <3>1, <1>6, <1>7, <1>8
  <2>3. CASE k \in 3 .. Len(rs)
    <3>1. k - 1 \in 1 .. Len(ranges) /\ k \in 3 .. Len(s) + 2 /\ k - 2 \in 1 .. Len(ranges) - 1 /\ (k - 2) + 1 = k - 1
      BY <2>3, <1>2, <1>5, <1>7
    <3>2. rs[k] = ranges[k - 1] /\ c[k] = b[k - 1]
      BY SMTT(60), <3>1, <2>3, <1>5, <1>6, <1>7
    <3> HIDE DEF c
    <3> QED BY <3>1, <3>2 DEF Halving
  <2> QED BY <2>1, <2>2, <2>3, <1>7, <1>2
<1>11. ASSUME NEW k \in 1 .. Len(rs) - 1 PROVE 2 * c[k] <= c[k + 1]
  <2>1. CASE k = 1
    BY <2>1, <1>3, <1>7, <1>8
  <2>2. CASE k # 1
    <3>1. k - 1 \in 1 .. Len(ranges) - 1 /\ k \in 1 .. Len(rs) /\ k + 1 \in 1 .. Len(rs) /\ k + 1 # 1
          /\ (k + 1) - 1 = k /\ (k - 1) + 1 = k
      BY <2>2, <1>2, <1>7
    <3>2. c[k] = b[k - 1] /\ c[k + 1] = b[k]
      BY <3>1, <2>2
    <3> HIDE DEF c
    <3> QED BY <3>1, <3>2 DEF Halving
  <2> QED BY <2>1, <2>2
<1> HIDE DEF c
<1> QED BY <1>9, <1>10, <1>11 DEF Halving

\* The table keeps its size.
LEMMA SizeStays == ASSUME SafeInv, SortNext PROVE N' = N
<1>1. ASSUME NEW a, NEW b PROVE DOMAIN set2(a, b) = DOMAIN elems
  BY DEF set2
<1>2. ASSUME NEW f, MedianDone(f) PROVE DOMAIN elems' = DOMAIN f
  BY <1>2 DEF MedianDone, Pivot
<1>3. DOMAIN elems' = DOMAIN elems
  <2>1. CASE CompareEnds
    BY <2>1, <1>1 DEF CompareEnds
  <2>2. CASE CompareLow
    BY <2>2, <1>1, <1>2 DEF CompareLow
  <2>3. CASE CompareHigh
    BY <2>3, <1>1, <1>2 DEF CompareHigh
  <2>4. CASE CompareDown
    BY <2>4, <1>1 DEF CompareDown
  <2>5. CASE CompareUp \/ OrderFails
    BY <2>5 DEF CompareUp, OrderFails
  <2> QED BY <2>1, <2>2, <2>3, <2>4, <2>5 DEF SortNext
<1>4. N \in Nat /\ DOMAIN elems = 1 .. N + 2
  BY DEF SafeInv, SortTypeOK, Tables
<1>5. N' \in Nat /\ DOMAIN elems' = 1 .. N' + 2
  BY SafeNext DEF SafeInv, SortTypeOK, Tables
<1>6. PICK n, o \in Nat : n = N /\ o = N'
  BY <1>4, <1>5
<1>7. 1 .. n + 2 = 1 .. o + 2
  BY <1>3, <1>4, <1>5, <1>6
<1>8. n + 2 \in 1 .. o + 2 /\ o + 2 \in 1 .. n + 2
  BY <1>7
<1>9. n = o
  BY <1>8
<1> QED BY <1>6, <1>9

LEMMA ShallowStep == ASSUME SafeInv, ShallowInv, SortNext PROVE ShallowInv'
<1>1. PICK b : Halving(ranges, b, N)
  BY DEF ShallowInv
<1>2. N' = N /\ N \in Nat /\ ranges \in Seq(Ranges)
  BY SafeNext, SizeStays DEF SafeInv, SortTypeOK
<1>3. ASSUME NEW rs \in Seq(Ranges), NEW c, Halving(rs, c, N), GoOnWith(rs) PROVE ShallowInv'
  <2>1. PICK k \in 0 .. Len(rs) : Resumes(rs, k)
    BY <1>3, GoesOn
  <2>2. PICK qs : qs = ranges'
    OBVIOUS
  <2>3. qs \in Seq(Ranges) /\ Len(qs) = Len(rs) - k /\ \A q \in 1 .. Len(rs) - k : qs[q] = rs[q + k]
    BY <2>1, <2>2 DEF Resumes
  <2>4. \E d : Halving(qs, d, N)
    BY <1>2, <1>3, <2>3, HalvingRest
  <2>5. Begun(qs)
    BY <2>1, <2>2 DEF Resumes, Begun
  <2> QED BY <2>2, <2>4, <2>5, <1>2 DEF ShallowInv
<1>4. CASE UNCHANGED ranges
  BY <1>1, <1>2, <1>4 DEF ShallowInv
<1>5. CASE Comparing /\ RangeDone
  <2>1. PICK s \in Seq(Ranges) : s = Tail(ranges)
    BY <1>5, Positions DEF SafeInv
  <2>2. 1 \in 0 .. Len(ranges) /\ Len(s) = Len(ranges) - 1 /\ \A k \in 1 .. Len(ranges) - 1 : s[k] = ranges[k + 1]
    BY <1>5, <2>1, Positions DEF SafeInv
  <2>3. \E c : Halving(s, c, N)
    BY <1>1, <1>2, <2>2, HalvingRest
  <2> QED BY <1>3, <1>5, <2>1, <2>3 DEF RangeDone
<1>6. CASE Looping /\ GoOnWith(Split \o Tail(ranges))
  <2>1. PICK rs : rs = Split \o Tail(ranges)
    OBVIOUS
  <2>2. rs \in Seq(Ranges)
    <3>1. l + 1 <= i /\ i <= u + 1 /\ SortTypeOK /\ Bounds /\ Comparing
      BY <1>6 DEF SafeInv, Bounds, Looping, Comparing
    <3> QED BY <2>1, <3>1, SplitParts DEF Parts
  <2>3. \E c : Halving(rs, c, N)
    BY <1>1, <1>6, <2>1, HalvingSplit
  <2> QED BY <1>3, <1>6, <2>1, <2>2, <2>3
<1>7. \/ UNCHANGED ranges
      \/ Comparing /\ RangeDone
      \/ Looping /\ GoOnWith(Split \o Tail(ranges))
  <2>1. ASSUME NEW f, MedianDone(f) PROVE RangeDone \/ UNCHANGED ranges
    BY <2>1 DEF MedianDone, Pivot, NextCompare
  <2>2. CASE CompareEnds
    BY <2>2 DEF CompareEnds, NextCompare, Comparing
  <2>3. CASE CompareLow
    BY <2>3, <2>1 DEF CompareLow, NextCompare, Comparing
  <2>4. CASE CompareHigh
    BY <2>4, <2>1 DEF CompareHigh, Comparing
  <2>5. CASE CompareUp
    BY <2>5 DEF CompareUp, NextCompare
  <2>6. CASE CompareDown
    BY <2>6 DEF CompareDown, NextCompare, Looping
  <2>7. CASE OrderFails
    BY <2>7 DEF OrderFails
  <2> QED BY <2>2, <2>3, <2>4, <2>5, <2>6, <2>7 DEF SortNext
<1> QED BY <1>4, <1>5, <1>6, <1>7

\* The recursive definition of powers, up to any number.
LEMMA Powers ==
  ASSUME NEW n \in Nat
  PROVE  \E f : /\ \A k \in 0 .. n : f[k] = IF k = 0 THEN 1 ELSE 2 * f[k - 1]
               /\ Power(n) = f[n]
<1> DEFINE Rule(f, e) == \A k \in 0 .. e : f[k] = IF k = 0 THEN 1 ELSE 2 * f[k - 1]
           S == {e \in Nat : \E f : Rule(f, e)}
<1>2. 0 \in S
  <2>1. Rule([k \in {0} |-> 1], 0)
    OBVIOUS
  <2> QED BY <2>1
<1>3. ASSUME NEW e \in 0 .. n - 1, e \in S PROVE e + 1 \in S
  <2>1. PICK f : Rule(f, e)
    BY <1>3
  <2> DEFINE g == [k \in 0 .. e + 1 |-> IF k = e + 1 THEN 2 * f[e] ELSE f[k]]
  <2>2. Rule(g, e + 1)
    BY <2>1
  <2> HIDE DEF g
  <2> QED BY <2>2
<1>4. n \in S
  <2> HIDE DEF S
  <2> QED BY <1>2, <1>3, Induct
<1>5. PICK f : Rule(f, n)
  BY <1>4
<1> DEFINE g == [k \in 0 .. n |-> f[k]]
           P(h) == h = [k \in 0 .. n |-> IF k = 0 THEN 1 ELSE 2 * h[k - 1]]
<1>6. P(g)
  BY <1>5
<1>7. PICK h : h = CHOOSE p : P(p)
  OBVIOUS
<1>8. P(h)
  <2> HIDE DEF g, P
  <2> QED BY <1>6, <1>7
<1>9. Power(n) = h[n]
  BY <1>7 DEF Power
<1> HIDE DEF g
<1> QED BY <1>8, <1>9

LEMMA HalvingPowers ==
  ASSUME NEW rs \in Seq(Ranges), NEW n \in Nat, NEW b, Halving(rs, b, n), n >= 1,
         Begun(rs)
  PROVE  Power(Len(rs)) <= n
<1>1. PICK len \in Nat : len = Len(rs)
  OBVIOUS
<1>2. PICK f : (\A k \in 0 .. len : f[k] = IF k = 0 THEN 1 ELSE 2 * f[k - 1]) /\ Power(len) = f[len]
  BY Powers
<1> DEFINE S == {k \in 0 .. len : f[k] \in Nat /\ (k > 0 => f[k] <= b[k])}
<1>3. 0 \in S
  BY <1>1, <1>2
<1>4. ASSUME NEW k \in 0 .. len - 1, k \in S PROVE k + 1 \in S
  <2>1. k + 1 \in 0 .. len /\ k + 1 \in 1 .. len /\ (k + 1) - 1 = k /\ k + 1 # 0
    BY <1>1
  <2>2. f[k + 1] = 2 * f[k] /\ f[k] \in Nat /\ b[k + 1] \in Int
    BY <1>1, <1>2, <1>4, <2>1 DEF Halving
  <2>3. CASE k = 0
    <3>1. f[1] = 2
      BY <2>1, <2>2, <2>3, <1>2
    <3>2. rs[1] \in Ranges /\ rs[1].l < rs[1].u /\ Size(rs[1]) <= b[1]
      BY <1>1, <2>1, <2>3 DEF Halving, Begun
    <3>3. 2 <= b[1]
      BY <3>2, <2>2, <2>3 DEF Size, Ranges
    <3> QED BY <2>1, <2>3, <3>1, <3>3
  <2>4. CASE k > 0
    <3>1. f[k] <= b[k] /\ 2 * b[k] <= b[k + 1] /\ b[k] \in Int
      BY <1>1, <1>4, <2>1, <2>4 DEF Halving
    <3>2. f[k + 1] \in Nat /\ f[k + 1] <= b[k + 1]
      BY <2>2, <3>1
    <3> QED BY <2>1, <3>2
  <2> QED BY <2>3, <2>4
<1>5. len \in S
  <2>1. len \in 0 .. len
    OBVIOUS
  <2> HIDE DEF S
  <2> QED BY <2>1, <1>3, <1>4, Induct
<1>6. CASE len = 0
  BY <1>1, <1>2, <1>6
<1>7. CASE len > 0
  <2>1. f[len] <= b[len] /\ b[len] <= n /\ b[len] \in Int /\ f[len] \in Nat
    BY <1>1, <1>5, <1>7 DEF Halving
  <2> QED BY <2>1, <1>1, <1>2
<1> QED BY <1>1, <1>6, <1>7

LEMMA ShallowSize == ASSUME SafeInv, ShallowInv PROVE Power(Len(ranges)) <= N
<1>1. PICK b : Halving(ranges, b, N)
  BY DEF ShallowInv
<1>2. ranges \in Seq(Ranges) /\ N \in Nat /\ N >= 2
  BY DEF SafeInv, SortTypeOK
<1>3. PICK n \in Nat : n = N /\ n >= 1
  BY <1>2
<1>4. Begun(ranges) /\ Halving(ranges, b, n)
  BY <1>1, <1>3 DEF ShallowInv
<1>5. Power(Len(ranges)) <= n
  BY <1>2, <1>3, <1>4, HalvingPowers
<1> QED BY <1>3, <1>5

LEMMA ShallowInit == ASSUME SortInit PROVE ShallowInv
<1>1. N \in Nat
  BY SafeInit DEF SafeInv, SortTypeOK
<1>2. PICK n \in Nat : n = N
  BY <1>1
<1>3. ranges = <<[l |-> 1, u |-> n]>> /\ Len(ranges) = 1 /\ Size(ranges[1]) = n
  BY <1>2 DEF SortInit, Size
<1>4. Halving(ranges, [k \in 1 .. 1 |-> n], n)
  BY <1>2, <1>3 DEF Halving
<1>5. ranges[1].l < ranges[1].u
  <2>1. n >= 2
    BY SafeInit, <1>2 DEF SafeInv, SortTypeOK
  <2> QED BY <2>1, <1>3
<1> QED BY <1>2, <1>4, <1>5 DEF ShallowInv, Begun

\* However the order function answers, the recursion of table.sort is no deeper than the
\* logarithm of the size of the table: each activation sorts at most half of what the
\* one that called it does (auxsort).
THEOREM RecursionShallow == SortSpec => []SortShallow
<1> DEFINE Inv == SafeInv /\ ShallowInv
<1>1. SortInit => Inv
  BY SafeInit, ShallowInit
<1>2. Inv /\ [SortNext]_sortVars => Inv'
  <2>1. ASSUME Inv, UNCHANGED sortVars PROVE Inv'
    BY <2>1 DEF sortVars, SafeInv, SortTypeOK, Bounds, Comparing, Looping, N, l, u, ShallowInv
  <2> QED BY <2>1, SafeNext, ShallowStep
<1>3. Inv => SortShallow
  BY ShallowSize DEF SortShallow
<1> QED BY <1>1, <1>2, <1>3, PTL DEF SortSpec

===============================================================================
