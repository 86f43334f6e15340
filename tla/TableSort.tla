------------------------------- MODULE TableSort -------------------------------
(***************************************************************************)
(* table.sort (ltablib.c): quicksort with a median of three, sentinels     *)
(* instead of checks of the bounds, and the smaller half by recursion.     *)
(* The table is read and written between two calls of the order function,  *)
(* which may answer anything, or raise an error; so each comparison is a   *)
(* step.                                                                   *)
(***************************************************************************)
EXTENDS Integers, Sequences, SequencesExt

CONSTANTS
  SortSizes,  \* how many elements: the elements of a table of n are 1 .. n
  WildSizes,  \* and of tables that are sorted by a function that is no order
  Weight,     \* what an order compares: the weight of each element
  Absent      \* what an index without an element reads

ASSUME TableSortAssumption ==
  /\ SortSizes \cup WildSizes \subseteq Nat \ {0, 1} /\ Absent \notin Nat
  /\ \A n \in SortSizes : \A k \in 1 .. n : Weight[k] \in Int

VARIABLES
  elems,    \* the table, with an absent index at either end
  wild,     \* whether the order function is no order
  ranges,   \* [l, u] of the activations of auxsort, innermost first
  i, j,     \* its indices, and the pivot
  pivot,
  compare   \* the comparison that comes next; "done", or "error" of sort or its function

sortVars == <<elems, wild, ranges, i, j, pivot, compare>>

N == Len(elems) - 2
Elem(k) == elems[k + 1]
\* Mutant: one of the two is stored in both places.
set2Once(a, b) == [elems EXCEPT ![a + 1] = Elem(b)]
\* set2, with the two elements it was called for on the stack in the other order.
set2(a, b) == [elems EXCEPT ![a + 1] = Elem(b), ![b + 1] = Elem(a)]

\* sort_comp: an order of the weights, or anything.
Less(x, y) ==
  IF wild THEN BOOLEAN ELSE {x # Absent /\ y # Absent /\ Weight[x] < Weight[y]}

l == Head(ranges).l
u == Head(ranges).u
m == (l + u) \div 2

\* The activations go on with the first range that has something to sort.
GoOnWith(rs) ==
  LET rest == {k \in DOMAIN rs : rs[k].l < rs[k].u} IN
  IF rest = {} THEN ranges' = <<>> /\ compare' = "done"
  ELSE ranges' = SubSeq(rs, CHOOSE k \in rest : \A q \in rest : k <= q, Len(rs)) /\ compare' = "ends"
NextCompare(what) == compare' = what /\ UNCHANGED ranges
RangeDone == GoOnWith(Tail(ranges))

-----------------------------------------------------------------------------

\* The elements of a table in any order; for a function that is none, one order is enough.
SortInit ==
  /\ \/ wild = FALSE /\ \E n \in SortSizes : \E f \in SetToSeqs(1 .. n) : elems = <<Absent>> \o f \o <<Absent>>
     \/ wild = TRUE /\ \E n \in WildSizes : elems = <<Absent>> \o [k \in 1 .. n |-> k] \o <<Absent>>
  /\ ranges = <<[l |-> 1, u |-> N]>> /\ compare = "ends" /\ i = 0 /\ j = 0 /\ pivot = Absent

\* Mutant: the loop from the end begins one too low.
PivotLow(table) ==
  /\ pivot' = table[m + 1]
  /\ elems' = [table EXCEPT ![m + 1] = table[u], ![u] = table[m + 1]]
  /\ i' = l + 1 /\ j' = u - 2 /\ NextCompare("up")
\* The pivot is taken and put next to the end; the loop begins.
Pivot(table) ==
  /\ pivot' = table[m + 1]
  /\ elems' = [table EXCEPT ![m + 1] = table[u], ![u] = table[m + 1]]
  /\ i' = l + 1 /\ j' = u - 1 /\ NextCompare("up")
MedianDone(table) ==
  IF u - l = 2 THEN RangeDone /\ elems' = table /\ UNCHANGED <<i, j, pivot>> ELSE Pivot(table)

CompareEnds ==
  /\ compare = "ends"
  /\ \E less \in Less(Elem(u), Elem(l)) : elems' = IF less THEN set2(l, u) ELSE elems
  /\ IF u - l = 1 THEN RangeDone ELSE NextCompare("middle with l")
  /\ UNCHANGED <<i, j, pivot>>
CompareLow ==
  /\ compare = "middle with l"
  /\ \E less \in Less(Elem(m), Elem(l)) :
       IF less THEN MedianDone(set2(m, l))
       ELSE NextCompare("u with middle") /\ UNCHANGED <<elems, i, j, pivot>>
CompareHigh ==
  /\ compare = "u with middle"
  /\ \E less \in Less(Elem(u), Elem(m)) : MedianDone(IF less THEN set2(m, u) ELSE elems)

\* repeat ++i until a[i] >= P; the bound is checked only where a[i] < P.
CompareUp ==
  /\ compare = "up"
  /\ \E less \in Less(Elem(i), pivot) :
       \/ less /\ i > u /\ NextCompare("error") /\ UNCHANGED <<i, j>>
       \/ less /\ i <= u /\ i' = i + 1 /\ UNCHANGED <<j, ranges, compare>>
       \/ ~less /\ j' = j - 1 /\ NextCompare("down") /\ UNCHANGED i
  /\ UNCHANGED <<elems, pivot>>

\* Mutant: the larger half is sorted by recursion.
SplitLarger ==
  LET low == [l |-> l, u |-> i - 1]  high == [l |-> i + 1, u |-> u] IN
  IF i - l < u - i THEN <<high, low>> ELSE <<low, high>>
\* The smaller half is sorted by recursion, the other one by the loop.
Split ==
  LET low == [l |-> l, u |-> i - 1]  high == [l |-> i + 1, u |-> u] IN
  IF i - l < u - i THEN <<low, high>> ELSE <<high, low>>

\* repeat --j until a[j] <= P; then a[i] and a[j] change places, or i and j have met.
CompareDown ==
  /\ compare = "down"
  /\ \E less \in Less(pivot, Elem(j)) :
       \/ less /\ j < l /\ NextCompare("error") /\ UNCHANGED <<elems, i, j>>
       \/ less /\ j >= l /\ j' = j - 1 /\ UNCHANGED <<elems, i, ranges, compare>>
       \/ /\ ~less /\ j >= i
          /\ elems' = set2(i, j) /\ i' = i + 1 /\ NextCompare("up") /\ UNCHANGED j
       \/ /\ ~less /\ j < i
          /\ elems' = set2(u - 1, i) /\ GoOnWith(Split \o Tail(ranges)) /\ UNCHANGED <<i, j>>
  /\ UNCHANGED pivot

\* The order function raises an error.
OrderFails ==
  /\ compare \notin {"done", "error"} /\ compare' = "error"
  /\ UNCHANGED <<elems, ranges, i, j, pivot>>

SortNext ==
  /\ CompareEnds \/ CompareLow \/ CompareHigh \/ CompareUp \/ CompareDown \/ OrderFails
  /\ UNCHANGED wild
SortSpec == SortInit /\ [][SortNext]_sortVars

-----------------------------------------------------------------------------
(* Properties.                                                              *)

\* Whenever the order function is called, and wherever an error ends the sort, the table
\* holds the elements it held, each once, whatever the function has answered (set2).
SortKeeps == ToSet(elems) \ {Absent} = 1 .. N /\ \A a, b \in DOMAIN elems :
               elems[a] = elems[b] => a = b \/ elems[a] = Absent

\* With an order, the table is sorted in the end, and no index outside it is ever read,
\* although nothing but the sentinels keeps the loops within it (auxsort).
SortSorts ==
  ~wild =>
    /\ compare = "up" => i <= u
    /\ compare = "down" => j >= l
    /\ compare = "done" => \A a \in 1 .. N - 1 : Weight[Elem(a)] <= Weight[Elem(a + 1)]

\* The recursion is as deep as the logarithm of the size, whatever the function has
\* answered, as the bound of its stack assumes (the comment in sort).
Power(n) == LET power[k \in 0 .. n] == IF k = 0 THEN 1 ELSE 2 * power[k - 1] IN power[n]
SortShallow == Power(Len(ranges)) <= N
=============================================================================
