---------------------------- MODULE LuaTable_proofs ----------------------------
(***************************************************************************)
(* That a table is a map whose traversal visits every field once, and that *)
(* its length is a border: for any keys, any hash of them, and tables of   *)
(* any size, through every rehash, move and reuse of a node.               *)
(***************************************************************************)
EXTENDS LuaTable, SequenceLemmas

-----------------------------------------------------------------------------
(* Powers of two.  What a recursive function is for every argument follows  *)
(* from the least argument for which it is not that (Induct).               *)

\* Powers of two are positive.
LEMMA PowerRule ==
  \A n \in 0 .. MaxBits : twoto[n] = IF n = 0 THEN 1 ELSE 2 * twoto[n - 1]
<1> DEFINE Rule(f, m) == \A n \in 0 .. m : f[n] = IF n = 0 THEN 1 ELSE 2 * f[n - 1]
           S == {m \in Nat : \E f : Rule(f, m)}
<1>1. MaxBits \in Nat
  BY LuaTableAssumption
<1>2. 0 \in S
  <2>1. Rule([n \in {0} |-> 1], 0)
    OBVIOUS
  <2> QED BY <2>1
<1>3. ASSUME NEW m \in 0 .. MaxBits - 1, m \in S PROVE m + 1 \in S
  <2>1. PICK f : Rule(f, m)
    BY <1>3
  <2> DEFINE g == [n \in 0 .. m + 1 |-> IF n = m + 1 THEN 2 * f[m] ELSE f[n]]
  <2>2. Rule(g, m + 1)
    BY <2>1, <1>1
  <2> HIDE DEF g
  <2> QED BY <2>2, <1>1
<1>4. MaxBits \in S
  <2> HIDE DEF S
  <2> QED BY <1>1, <1>2, <1>3, Induct
<1>5. PICK f : Rule(f, MaxBits)
  BY <1>4
<1> DEFINE g == [n \in 0 .. MaxBits |-> f[n]]
<1>6. g = [n \in 0 .. MaxBits |-> IF n = 0 THEN 1 ELSE 2 * g[n - 1]]
  BY <1>1, <1>5
<1> HIDE DEF g
<1>7. twoto = [n \in 0 .. MaxBits |-> IF n = 0 THEN 1 ELSE 2 * twoto[n - 1]]
  BY <1>6 DEF twoto
<1> QED BY <1>7

LEMMA PowersPositive == \A n \in 0 .. MaxBits : twoto[n] \in Nat \ {0}
<1> DEFINE S == {n \in 0 .. MaxBits : twoto[n] \in Nat \ {0}}
<1>1. MaxBits \in Nat
  BY LuaTableAssumption
<1>2. 0 \in S
  BY <1>1, PowerRule
<1>3. ASSUME NEW n \in 0 .. MaxBits - 1, n \in S PROVE n + 1 \in S
  <2>1. n + 1 \in 0 .. MaxBits /\ n + 1 # 0 /\ (n + 1) - 1 = n
    BY <1>1
  <2>2. twoto[n + 1] = 2 * twoto[n]
    BY <2>1, PowerRule
  <2> QED BY <1>3, <2>1, <2>2
<1> HIDE DEF S
<1>4. \A n \in 0 .. MaxBits : n \in S
  BY <1>1, <1>2, <1>3, Induct
<1> QED BY <1>4 DEF S

-----------------------------------------------------------------------------
(* Tables.                                                                  *)

Nodes(t)   == 1 .. Len(t.node)
Keyed(t)   == {p \in Nodes(t) : t.node[p].key # NoKey}
NodeType   == [key : Keys \cup {NoKey}, val : Values \cup {Nil}, next : Nat, dead : BOOLEAN]
TableType(t) ==
  /\ t \in [array : Seq(Values \cup {Nil}), node : Seq(NodeType), free : Nat]
  /\ Len(t.node) <= twoto[MaxBits]
  /\ \A n \in 1 .. Len(t.array) : n \notin Indices => t.array[n] = Nil

LEMMA TypeFacts ==
  ASSUME NEW t, TableType(t)
  PROVE  /\ Len(t.node) \in Nat /\ DOMAIN t.node = Nodes(t) /\ Len(t.array) \in Nat
         /\ DOMAIN t.array = 1 .. Len(t.array) /\ t.free \in Nat
         /\ \A p \in Nodes(t) : /\ t.node[p] \in NodeType
                                /\ t.node[p].key \in Keys \cup {NoKey}
                                /\ t.node[p].val \in Values \cup {Nil}
                                /\ t.node[p].next \in Nat /\ t.node[p].dead \in BOOLEAN
         /\ \A n \in 1 .. Len(t.array) : t.array[n] \in Values \cup {Nil}
         /\ t.node = <<>> <=> Nodes(t) = {}
         /\ t.node = <<>> <=> Len(t.node) = 0
<1>1. t.node \in Seq(NodeType) /\ t.array \in Seq(Values \cup {Nil}) /\ t.free \in Nat
  BY DEF TableType
<1>2. \A p \in Nodes(t) : t.node[p] \in NodeType
  BY <1>1, ElementOfSeq DEF Nodes
<1>3. \A n \in 1 .. Len(t.array) : t.array[n] \in Values \cup {Nil}
  BY <1>1, ElementOfSeq
<1>4. /\ Len(t.node) \in Nat /\ DOMAIN t.node = Nodes(t)
      /\ Len(t.array) \in Nat /\ DOMAIN t.array = 1 .. Len(t.array)
  BY <1>1, LenProperties DEF Nodes
<1>5. t.node = <<>> <=> Len(t.node) = 0
  BY <1>1, EmptySeq
<1>6. Nodes(t) = {} <=> Len(t.node) = 0
  <2>1. \A n \in Nat : 1 .. n = {} <=> n = 0
    OBVIOUS
  <2> QED BY <1>4, <2>1 DEF Nodes
<1> QED BY <1>1, <1>2, <1>3, <1>4, <1>5, <1>6 DEF NodeType

LEMMA MainPositionType ==
  ASSUME NEW t, Len(t.node) \in Nat \ {0}, NEW k \in Keys
  PROVE  MainPosition(t, k) \in Nodes(t)
<1>1. \A a \in Nat, b \in Nat \ {0} : a % b \in 0 .. b - 1
  OBVIOUS
<1>2. HashOf[k] \in Nat
  BY LuaTableAssumption
<1>3. PICK b : b = IF k \in Objects \/ Len(t.node) = 1 THEN Len(t.node) ELSE Len(t.node) - 1
  OBVIOUS
<1>4. b \in Nat \ {0} /\ b <= Len(t.node) /\ MainPosition(t, k) = 1 + (HashOf[k] % b)
  BY <1>3 DEF MainPosition
<1>5. HashOf[k] % b \in 0 .. b - 1
  BY <1>1, <1>2, <1>4
<1> QED BY <1>4, <1>5 DEF Nodes

\* The main positions of a table depend on the size of its hash part only.
LEMMA MainPositionSame ==
  ASSUME NEW t, NEW u, Len(t.node) = Len(u.node), NEW k
  PROVE  MainPosition(t, k) = MainPosition(u, k)
BY DEF MainPosition

LEMMA NewNodes ==
  ASSUME NEW size \in 0 .. twoto[MaxBits]
  PROVE  /\ NodeVector(size) \in Seq(NodeType)
         /\ size <= Len(NodeVector(size)) /\ Len(NodeVector(size)) <= twoto[MaxBits]
         /\ \A p \in 1 .. Len(NodeVector(size)) : NodeVector(size)[p] = FreeNode
<1>1. FreeNode \in NodeType
  BY DEF FreeNode, NodeType
<1>2. MaxBits \in Nat /\ twoto[MaxBits] \in Nat
  BY LuaTableAssumption, PowersPositive
<1>3. CASE size = 0
  <2>1. NodeVector(size) = <<>>
    BY <1>3 DEF NodeVector
  <2> QED BY <2>1, <1>2, <1>3, EmptySeq
<1>4. CASE size # 0
  <2> DEFINE S == {s \in {twoto[n] : n \in 0 .. MaxBits} : s >= size}
  <2>1. S \subseteq Nat /\ twoto[MaxBits] \in S /\ \A s \in S : s >= size
    BY <1>2, PowersPositive
  <2>2. NodeVector(size) = [i \in 1 .. Min(S) |-> FreeNode]
    BY <1>4 DEF NodeVector
  <2> HIDE DEF S
  <2>3. Min(S) \in S /\ Min(S) <= twoto[MaxBits]
    BY <2>1, MinIsLeast
  <2>4. PICK m \in Nat : m = Min(S) /\ m >= size /\ m <= twoto[MaxBits]
    BY <2>1, <2>3
  <2>5. NodeVector(size) = [i \in 1 .. m |-> FreeNode]
    BY <2>2, <2>4
  <2>6. [i \in 1 .. m |-> FreeNode] \in Seq(NodeType)
    BY <1>1
  <2> QED BY <2>4, <2>5, <2>6, <1>2
<1> QED BY <1>3, <1>4

\* getfreepos returns the highest node without a key below lastfree, if there is one.
LEMMA FreePosFacts ==
  ASSUME NEW t, TableType(t), t.free <= Len(t.node) + 1
  PROVE  /\ FreePos(t) \in Nat
         /\ FreePos(t) # 0 => /\ FreePos(t) \in Nodes(t) /\ FreePos(t) < t.free
                              /\ t.node[FreePos(t)].key = NoKey
         /\ \A p \in Nodes(t) : p < t.free /\ p > FreePos(t) => t.node[p].key # NoKey
<1> DEFINE S == {0} \cup {p \in 1 .. t.free - 1 : t.node[p].key = NoKey}
<1>1. t.free \in Nat /\ Len(t.node) \in Nat
  BY TypeFacts
<1>2. S \subseteq Nat /\ S # {} /\ \A x \in S : x <= t.free
  BY <1>1
<1>3. PICK m : m = FreePos(t) /\ m = Max(S)
  BY DEF FreePos
<1>4. m \in S /\ \A x \in S : m >= x
  <2> HIDE DEF S
  <2> QED BY <1>1, <1>2, <1>3, MaxIsGreatest
<1>5. ASSUME NEW p \in Nodes(t), p < t.free, p > m PROVE t.node[p].key # NoKey
  <2>1. p \in 1 .. t.free - 1 /\ p \notin S
    <3>1. p \in 1 .. t.free - 1 /\ p \in Nat
      BY <1>1, <1>5 DEF Nodes
    <3> HIDE DEF S
    <3>2. m \in Nat
      BY <1>2, <1>4
    <3> QED BY <3>1, <3>2, <1>4, <1>5
  <2> QED BY <2>1
<1>6. m # 0 => m \in Nodes(t) /\ m < t.free /\ t.node[m].key = NoKey
  BY <1>1, <1>4 DEF Nodes
<1> QED BY <1>2, <1>3, <1>4, <1>5, <1>6

-----------------------------------------------------------------------------
(* Chains.  A node has a place: the path it is on, and how far from its     *)
(* beginning.                                                               *)

Path(t, h, d) ==
  /\ h \in [Nodes(t) -> Nat] /\ d \in [Nodes(t) -> Nat]
  /\ \A p \in Nodes(t) : t.node[p].next \in Nodes(t) \cup {0}
  /\ \A p, q \in Nodes(t) : h[p] = h[q] /\ d[p] = d[q] => p = q
  /\ \A p, q \in Nodes(t) : t.node[p].next = q <=> h[q] = h[p] /\ d[q] = d[p] + 1
  /\ \A p \in Nodes(t) : \A e \in 0 .. d[p] : \E q \in Nodes(t) : h[q] = h[p] /\ d[q] = e
  /\ \A p \in Nodes(t) : d[p] <= Cardinality(Keyed(t))

LEMMA KeyedFinite ==
  ASSUME NEW t, Len(t.node) \in Nat
  PROVE  /\ IsFiniteSet(Keyed(t)) /\ Cardinality(Keyed(t)) \in 0 .. Len(t.node)
         /\ Cardinality(Keyed(t)) = Len(t.node) => Keyed(t) = Nodes(t)
<1>1. IsFiniteSet(Nodes(t)) /\ Cardinality(Nodes(t)) = Len(t.node)
  BY SMTT(60), FS_Interval DEF Nodes
<1>2. Keyed(t) \in SUBSET Nodes(t)
  BY DEF Keyed
<1>3. /\ IsFiniteSet(Keyed(t)) /\ Cardinality(Keyed(t)) <= Cardinality(Nodes(t))
      /\ Cardinality(Nodes(t)) = Cardinality(Keyed(t)) => Nodes(t) = Keyed(t)
  BY <1>1, <1>2, FS_Subset
<1> QED BY <1>1, <1>3, FS_CardinalityType

LEMMA ChainRule ==
  ASSUME NEW t, Len(t.node) \in Nat, NEW p
  PROVE  /\ DOMAIN Chain(t, p) = 0 .. Len(t.node)
         /\ \A n \in 0 .. Len(t.node) :
              Chain(t, p)[n] = IF n = 0 THEN p ELSE IF Chain(t, p)[n - 1] = 0 THEN 0
                               ELSE t.node[Chain(t, p)[n - 1]].next
<1> DEFINE After(q) == IF q = 0 THEN 0 ELSE t.node[q].next
           Rule(f, m) == \A n \in 0 .. m : f[n] = IF n = 0 THEN p ELSE After(f[n - 1])
           S == {m \in Nat : \E f : Rule(f, m)}
<1>1. PICK N \in Nat : N = Len(t.node)
  OBVIOUS
<1>2. 0 \in S
  <2>1. Rule([n \in {0} |-> p], 0)
    OBVIOUS
  <2> QED BY <2>1
<1>3. ASSUME NEW m \in 0 .. N - 1, m \in S PROVE m + 1 \in S
  <2>1. PICK f : Rule(f, m)
    BY <1>3
  <2> DEFINE g == [n \in 0 .. m + 1 |-> IF n = m + 1 THEN After(f[m]) ELSE f[n]]
  <2>2. ASSUME NEW n \in 0 .. m + 1 PROVE g[n] = IF n = 0 THEN p ELSE After(g[n - 1])
    <3>1. m \in Nat /\ n \in Nat /\ (n # 0 => n - 1 \in 0 .. m) /\ (n # m + 1 => n \in 0 .. m)
      BY <1>1
    <3>2. CASE n = m + 1
      <4>1. g[n] = After(f[m]) /\ g[n - 1] = f[m] /\ n # 0
        BY <3>1, <3>2
      <4> QED BY <4>1
    <3>3. CASE n # m + 1
      <4>1. g[n] = f[n] /\ (n # 0 => g[n - 1] = f[n - 1])
        BY <3>1, <3>3
      <4> QED BY <4>1, <3>1, <3>3, <2>1
    <3> QED BY <3>2, <3>3
  <2> HIDE DEF g
  <2> QED BY <2>2, <1>1
<1>4. \A n \in 0 .. N : n \in S
  <2> HIDE DEF S
  <2> QED BY <1>1, <1>2, <1>3, Induct
<1>5. PICK f : Rule(f, N)
  BY <1>4
<1> DEFINE g == [n \in 0 .. N |-> f[n]]
<1>6. g = [n \in 0 .. N |-> IF n = 0 THEN p ELSE IF g[n - 1] = 0 THEN 0 ELSE t.node[g[n - 1]].next]
  BY <1>1, <1>5
<1> HIDE DEF g
<1>7. Chain(t, p) = [n \in 0 .. N |-> IF n = 0 THEN p ELSE IF Chain(t, p)[n - 1] = 0 THEN 0
                                      ELSE t.node[Chain(t, p)[n - 1]].next]
  BY <1>1, <1>6 DEF Chain
<1> QED BY <1>1, <1>7

\* The chain from a node has the nodes behind it on its path, in their order.
LEMMA ChainFacts ==
  ASSUME NEW t, TableType(t), NEW h, NEW d, Path(t, h, d), NEW m \in Nodes(t)
  PROVE  /\ DOMAIN Chain(t, m) = 0 .. Len(t.node)
         /\ \A n \in 0 .. Len(t.node) :
              LET q == Chain(t, m)[n] IN q # 0 => q \in Nodes(t) /\ h[q] = h[m] /\ d[q] = d[m] + n
         /\ \A q \in Nodes(t) : h[q] = h[m] /\ d[m] <= d[q] =>
              d[q] - d[m] \in 0 .. Len(t.node) /\ Chain(t, m)[d[q] - d[m]] = q
<1>1. PICK N \in Nat : N = Len(t.node) /\ Nodes(t) = 1 .. N
  BY TypeFacts DEF Nodes
<1>2. PICK c : c = Chain(t, m)
  OBVIOUS
<1>3. \A n \in 0 .. N : c[n] = IF n = 0 THEN m ELSE IF c[n - 1] = 0 THEN 0 ELSE t.node[c[n - 1]].next
  BY SMTT(60), <1>1, <1>2, ChainRule
<1>4. \A q \in Nodes(t) : d[q] \in Nat /\ d[q] <= N
  BY <1>1, KeyedFinite DEF Path
<1> DEFINE S == {n \in 0 .. N : c[n] # 0 => c[n] \in Nodes(t) /\ h[c[n]] = h[m] /\ d[c[n]] = d[m] + n}
<1>5. \A n \in 0 .. N : n \in S
  <2>1. 0 \in S
    BY <1>3, <1>4
  <2>2. ASSUME NEW n \in 0 .. N - 1, n \in S PROVE n + 1 \in S
    <3>1. n + 1 \in 0 .. N /\ n + 1 # 0 /\ (n + 1) - 1 = n /\ n \in 0 .. N
      BY <1>1
    <3>2. c[n + 1] = IF c[n] = 0 THEN 0 ELSE t.node[c[n]].next
      BY <3>1, <1>3
    <3>3. ASSUME c[n + 1] # 0
          PROVE c[n + 1] \in Nodes(t) /\ h[c[n + 1]] = h[m] /\ d[c[n + 1]] = d[m] + (n + 1)
      <4>1. c[n] \in Nodes(t) /\ h[c[n]] = h[m] /\ d[c[n]] = d[m] + n /\ c[n + 1] = t.node[c[n]].next
        BY <2>2, <3>2, <3>3
      <4>2. c[n + 1] \in Nodes(t)
        BY <4>1, <3>3 DEF Path
      <4>3. h[c[n + 1]] = h[c[n]] /\ d[c[n + 1]] = d[c[n]] + 1
        BY <4>1, <4>2 DEF Path
      <4> QED BY <4>1, <4>2, <4>3, <1>4
    <3> QED BY <3>1, <3>3
  <2> HIDE DEF S
  <2> QED BY <1>1, <2>1, <2>2, Induct
<1> DEFINE R == {n \in 0 .. N : \A q \in Nodes(t) : h[q] = h[m] /\ d[q] = d[m] + n => c[n] = q}
<1>6. \A n \in 0 .. N : n \in R
  <2>1. 0 \in R
    BY <1>3, <1>4 DEF Path
  <2>2. ASSUME NEW n \in 0 .. N - 1, n \in R PROVE n + 1 \in R
    <3>1. n + 1 \in 0 .. N /\ n + 1 # 0 /\ (n + 1) - 1 = n /\ n \in 0 .. N
      BY <1>1
    <3>2. ASSUME NEW q \in Nodes(t), h[q] = h[m], d[q] = d[m] + (n + 1) PROVE c[n + 1] = q
      <4>1. d[m] + n \in 0 .. d[q]
        BY <1>4, <3>1, <3>2
      <4>2. PICK x \in Nodes(t) : h[x] = h[q] /\ d[x] = d[m] + n
        BY <4>1 DEF Path
      <4>3. c[n] = x /\ x # 0
        BY <2>2, <4>2, <3>2, <1>1
      <4>4. t.node[x].next = q
        BY <4>2, <3>2, <1>4, <3>1 DEF Path
      <4> QED BY <4>3, <4>4, <3>1, <1>3
    <3> QED BY <3>1, <3>2
  <2> HIDE DEF R
  <2> QED BY <1>1, <2>1, <2>2, Induct
<1>7. ASSUME NEW q \in Nodes(t), h[q] = h[m], d[m] <= d[q]
      PROVE  d[q] - d[m] \in 0 .. N /\ c[d[q] - d[m]] = q
  <2>1. d[q] - d[m] \in 0 .. N /\ d[q] = d[m] + (d[q] - d[m])
    BY <1>4, <1>7, <1>1
  <2> QED BY <2>1, <1>6, <1>7
<1> QED BY <1>1, <1>2, <1>5, <1>7, ChainRule

-----------------------------------------------------------------------------
(* Keys.  A key is on the path of its main position, not before it.  A node *)
(* behind its main position is there because a key of that position was;    *)
(* it still is, and so are not two paths joined when it moves.  A dead key  *)
(* may have come back, in a node before the dead one.                       *)

Home(t, p) == MainPosition(t, t.node[p].key)
Placed(t, h, d) ==
  /\ t.free <= Len(t.node) + 1
  /\ \A p \in Nodes(t) \ Keyed(t) :
       t.node[p] = FreeNode /\ p < t.free /\ \A q \in Nodes(t) : h[q] = h[p] => q = p
  /\ \A p \in Keyed(t) :
       /\ ~InArray(t, t.node[p].key)
       /\ Home(t, p) \in Keyed(t) /\ Home(t, Home(t, p)) = Home(t, p)
       /\ h[Home(t, p)] = h[p] /\ d[Home(t, p)] <= d[p]
       /\ t.node[p].dead => t.node[p].val = Nil /\ t.node[p].key \in Objects
  /\ \A p, q \in Keyed(t) : p # q /\ t.node[p].key = t.node[q].key /\ ~t.node[p].dead =>
       t.node[q].dead /\ d[p] < d[q]

Good(t) == TableType(t) /\ \E h, d : Path(t, h, d) /\ Placed(t, h, d)

\* The nodes that have a key, and the first of them.
Having(t, k, orDead) == {p \in Nodes(t) : t.node[p].key = k /\ (orDead \/ ~t.node[p].dead)}

LEMMA NodeOfFirst ==
  ASSUME NEW t, TableType(t), NEW h, NEW d, Path(t, h, d), Placed(t, h, d),
         NEW k \in Keys, NEW orDead \in BOOLEAN
  PROVE  /\ Having(t, k, orDead) = {} => NodeOf(t, k, orDead) = 0
         /\ Having(t, k, orDead) # {} =>
              /\ NodeOf(t, k, orDead) \in Having(t, k, orDead)
              /\ \A q \in Having(t, k, orDead) : d[NodeOf(t, k, orDead)] <= d[q]
<1>1. CASE t.node = <<>>
  <2>1. NodeOf(t, k, orDead) = 0
    BY <1>1 DEF NodeOf
  <2>2. Nodes(t) = {}
    BY <1>1, TypeFacts
  <2> QED BY <2>1, <2>2 DEF Having
<1>2. CASE t.node # <<>>
  <2>1. PICK N \in Nat : N = Len(t.node) /\ N # 0 /\ Nodes(t) = 1 .. N
    BY <1>2, TypeFacts DEF Nodes
  <2>2. PICK m \in Nodes(t) : m = MainPosition(t, k)
    BY <2>1, MainPositionType
  <2>3. PICK c : c = Chain(t, m)
    OBVIOUS
  <2>4. /\ DOMAIN c = 0 .. N
        /\ \A n \in 0 .. N : c[n] # 0 => c[n] \in Nodes(t) /\ h[c[n]] = h[m] /\ d[c[n]] = d[m] + n
        /\ \A q \in Nodes(t) : h[q] = h[m] /\ d[m] <= d[q] => d[q] - d[m] \in 0 .. N /\ c[d[q] - d[m]] = q
    BY <2>1, <2>3, ChainFacts
  <2>5. PICK F : F = Having(t, k, orDead)
    OBVIOUS
  <2>6. PICK hits : hits = {n \in 0 .. N : /\ c[n] # 0 /\ t.node[c[n]].key = k
                                           /\ orDead \/ ~t.node[c[n]].dead}
    OBVIOUS
  <2>7. NodeOf(t, k, orDead) = IF hits = {} THEN 0 ELSE c[Min(hits)]
    BY <1>2, <2>2, <2>3, <2>4, <2>6 DEF NodeOf
  <2>8. \A n \in hits : n \in 0 .. N /\ c[n] \in F /\ d[c[n]] = d[m] + n
    BY <2>4, <2>5, <2>6 DEF Having
  <2>9. ASSUME NEW q \in F PROVE d[q] - d[m] \in hits /\ c[d[q] - d[m]] = q
    <3>1. q \in Nodes(t) /\ q \in Keyed(t) /\ t.node[q].key = k /\ (orDead \/ ~t.node[q].dead)
      BY <2>5, LuaTableAssumption DEF Having, Keyed
    <3>2. h[q] = h[m] /\ d[m] <= d[q]
      BY <3>1, <2>2 DEF Placed, Home
    <3>3. d[q] - d[m] \in 0 .. N /\ c[d[q] - d[m]] = q
      BY <3>1, <3>2, <2>4
    <3>4. q # 0
      BY <3>1, <2>1
    <3> QED BY <3>1, <3>3, <3>4, <2>6
  <2>10. CASE hits = {}
    BY <2>5, <2>7, <2>9, <2>10
  <2>11. CASE hits # {}
    <3>1. hits \subseteq Nat
      BY <2>1, <2>6
    <3>2. Min(hits) \in hits /\ \A n \in hits : Min(hits) <= n
      BY <3>1, <2>11, MinIsLeast
    <3>3. PICK n \in hits : n = Min(hits)
      BY <3>2
    <3>4. ASSUME NEW q \in F PROVE d[c[n]] <= d[q]
      <4>1. d[q] - d[m] \in hits /\ n <= d[q] - d[m] /\ d[c[n]] = d[m] + n
        BY <2>8, <2>9, <3>2, <3>3
      <4>2. q \in Nodes(t) /\ d[q] \in Nat /\ d[m] \in Nat /\ n \in Nat
        BY <2>5, <3>1 DEF Having, Path
      <4> QED BY <4>1, <4>2
    <3> QED BY <2>5, <2>7, <2>8, <2>11, <3>3, <3>4
  <2> QED BY <2>10, <2>11
<1> QED BY <1>1, <1>2

\* What luaH_get returns for a key is what the one node has in which it is not dead.
LEMMA GetFacts ==
  ASSUME NEW t, Good(t), NEW k \in Keys
  PROVE  /\ InArray(t, k) => Get(t, k) = t.array[k] /\ \A p \in Nodes(t) : t.node[p].key # k
         /\ \A p \in Having(t, k, FALSE) : ~InArray(t, k) /\ NodeOf(t, k, FALSE) = p /\ Get(t, k) = t.node[p].val
         /\ Having(t, k, FALSE) = {} => NodeOf(t, k, FALSE) = 0 /\ (InArray(t, k) \/ Get(t, k) = Nil)
<1>1. PICK h, d : TableType(t) /\ Path(t, h, d) /\ Placed(t, h, d)
  BY DEF Good
<1>2. \A p \in Nodes(t) : t.node[p].key = k => p \in Keyed(t) /\ ~InArray(t, k)
  BY <1>1, LuaTableAssumption DEF Keyed, Placed
<1>3. ASSUME NEW p \in Having(t, k, FALSE) PROVE NodeOf(t, k, FALSE) = p
  <2>1. PICK q \in Having(t, k, FALSE) : q = NodeOf(t, k, FALSE)
    BY <1>1, NodeOfFirst
  <2>2. p \in Keyed(t) /\ q \in Keyed(t) /\ t.node[p].key = t.node[q].key /\ ~t.node[p].dead /\ ~t.node[q].dead
    BY <1>2 DEF Having
  <2> QED BY <2>1, <2>2, <1>1 DEF Placed
<1>4. Having(t, k, FALSE) = {} => NodeOf(t, k, FALSE) = 0
  BY <1>1, NodeOfFirst
<1>5. \A p \in Having(t, k, FALSE) : p \in Nodes(t) /\ p # 0 /\ t.node[p].key = k
  BY DEF Having, Nodes
<1> QED BY <1>2, <1>3, <1>4, <1>5 DEF Get

-----------------------------------------------------------------------------
(* The steps of a table.                                                    *)

Relinked(t, node, free) == [t EXCEPT !.node = node, !.free = free]

LEMMA RelinkedFacts ==
  ASSUME NEW t, TableType(t), NEW node \in Seq(NodeType), Len(node) = Len(t.node), NEW free \in Nat
  PROVE  /\ TableType(Relinked(t, node, free)) /\ Nodes(Relinked(t, node, free)) = Nodes(t)
         /\ Relinked(t, node, free).node = node /\ Relinked(t, node, free).free = free
         /\ Relinked(t, node, free).array = t.array
         /\ \A k : InArray(Relinked(t, node, free), k) <=> InArray(t, k)
<1>1. PICK u : u = Relinked(t, node, free)
  OBVIOUS
<1>2. u.node = node /\ u.array = t.array /\ u.free = free
  BY <1>1 DEF TableType, Relinked
<1>3. TableType(u)
  BY <1>1, <1>2 DEF TableType, Relinked
<1> QED BY <1>1, <1>2, <1>3 DEF Nodes, InArray

\* The paths depend on the links only.
LEMMA PathSame ==
  ASSUME NEW t, TableType(t), NEW h, NEW d, Path(t, h, d),
         NEW u, TableType(u), Nodes(u) = Nodes(t), Keyed(t) \subseteq Keyed(u),
         \A p \in Nodes(t) : u.node[p].next = t.node[p].next
  PROVE  Path(u, h, d)
<1>1. /\ h \in [Nodes(u) -> Nat] /\ d \in [Nodes(u) -> Nat]
      /\ \A p, q \in Nodes(u) : h[p] = h[q] /\ d[p] = d[q] => p = q
      /\ \A p \in Nodes(u) : \A e \in 0 .. d[p] : \E q \in Nodes(u) : h[q] = h[p] /\ d[q] = e
  BY DEF Path
<1>2. \A p \in Nodes(u) : u.node[p].next \in Nodes(u) \cup {0}
  BY DEF Path
<1>3. \A p, q \in Nodes(u) : u.node[p].next = q <=> h[q] = h[p] /\ d[q] = d[p] + 1
  BY DEF Path
<1>4. \A p \in Nodes(u) : d[p] <= Cardinality(Keyed(u))
  <2>1. Len(t.node) \in Nat /\ Len(u.node) \in Nat
    BY TypeFacts
  <2>2. IsFiniteSet(Keyed(u)) /\ Keyed(t) \in SUBSET Keyed(u)
    BY <2>1, KeyedFinite
  <2>3. Cardinality(Keyed(t)) <= Cardinality(Keyed(u))
    BY <2>2, FS_Subset
  <2>4. Cardinality(Keyed(t)) \in Nat /\ Cardinality(Keyed(u)) \in Nat
    BY <2>1, KeyedFinite
  <2>5. \A p \in Nodes(t) : d[p] \in Nat /\ d[p] <= Cardinality(Keyed(t))
    BY DEF Path
  <2> QED BY <2>3, <2>4, <2>5
<1> QED BY <1>1, <1>2, <1>3, <1>4 DEF Path

\* Keys of the same nodes: only values change, or keys die.
LEMMA ValuesPlaced ==
  ASSUME NEW t, TableType(t), NEW h, NEW d, Path(t, h, d), Placed(t, h, d),
         NEW u, TableType(u), Nodes(u) = Nodes(t), Len(u.node) = Len(t.node), u.free = t.free,
         \A k : InArray(u, k) => InArray(t, k),
         \A p \in Nodes(t) : /\ u.node[p].key = t.node[p].key /\ u.node[p].next = t.node[p].next
                             /\ t.node[p].dead => u.node[p].dead
                             /\ p \notin Keyed(t) => u.node[p] = t.node[p]
                             /\ p \in Keyed(t) /\ u.node[p].dead =>
                                  u.node[p].val = Nil /\ u.node[p].key \in Objects
  PROVE  Path(u, h, d) /\ Placed(u, h, d)
<1>1. Keyed(u) = Keyed(t)
  BY DEF Keyed
<1>2. \A p \in Nodes(t) : Home(u, p) = Home(t, p)
  BY MainPositionSame DEF Home
<1>3. Path(u, h, d)
  BY <1>1, PathSame
<1>4. ASSUME NEW p \in Keyed(u)
      PROVE  /\ ~InArray(u, u.node[p].key)
             /\ Home(u, p) \in Keyed(u) /\ Home(u, Home(u, p)) = Home(u, p)
             /\ h[Home(u, p)] = h[p] /\ d[Home(u, p)] <= d[p]
             /\ u.node[p].dead => u.node[p].val = Nil /\ u.node[p].key \in Objects
  <2>1. p \in Keyed(t) /\ p \in Nodes(t) /\ Home(t, p) \in Keyed(t) /\ Home(t, p) \in Nodes(t)
    BY <1>1, <1>4 DEF Placed, Keyed
  <2> QED BY <2>1, <1>1, <1>2 DEF Placed
<1>5. ASSUME NEW p \in Keyed(u), NEW q \in Keyed(u),
             p # q, u.node[p].key = u.node[q].key, ~u.node[p].dead
      PROVE  u.node[q].dead /\ d[p] < d[q]
  <2>1. p \in Keyed(t) /\ q \in Keyed(t) /\ p \in Nodes(t) /\ q \in Nodes(t)
    BY <1>1 DEF Keyed
  <2> QED BY <2>1, <1>5 DEF Placed
<1>6. \A p \in Nodes(u) \ Keyed(u) :
        u.node[p] = FreeNode /\ p < u.free /\ \A q \in Nodes(u) : h[q] = h[p] => q = p
  BY <1>1 DEF Placed
<1>7. u.free <= Len(u.node) + 1
  BY DEF Placed
<1> QED BY <1>3, <1>4, <1>5, <1>6, <1>7 DEF Placed

\* In u node m of t has the key k, in the same place of its chain.
Reused(t, k, m, u) ==
  /\ TableType(u) /\ Nodes(u) = Nodes(t) /\ Len(u.node) = Len(t.node) /\ u.free = t.free
  /\ \A x : InArray(u, x) <=> InArray(t, x)
  /\ \A p \in Nodes(t) : p # m => u.node[p] = t.node[p]
  /\ u.node[m].key = k /\ ~u.node[m].dead /\ u.node[m].next = t.node[m].next

\* A key enters its main position, whose node has no value.
LEMMA ReusePlaced ==
  ASSUME NEW t, TableType(t), NEW h, NEW d, Path(t, h, d), Placed(t, h, d),
         NEW k \in Keys, ~InArray(t, k), Having(t, k, FALSE) = {},
         NEW m \in Nodes(t), m = MainPosition(t, k), t.node[m].val = Nil,
         NEW u, Reused(t, k, m, u)
  PROVE  Path(u, h, d) /\ Placed(u, h, d)
<1> USE DEF Reused
<1>1. Keyed(u) = Keyed(t) \cup {m} /\ Keyed(t) \subseteq Nodes(t)
  BY LuaTableAssumption DEF Keyed
<1>2. /\ \A p \in Nodes(t) : p # m => Home(u, p) = Home(t, p)
      /\ Home(u, m) = m
  BY MainPositionSame DEF Home
<1>3. Path(u, h, d)
  <2>1. \A p \in Nodes(t) : u.node[p].next = t.node[p].next
    OBVIOUS
  <2> QED BY <2>1, <1>1, PathSame
<1>4. ASSUME NEW p \in Keyed(u)
      PROVE  /\ ~InArray(u, u.node[p].key)
             /\ Home(u, p) \in Keyed(u) /\ Home(u, Home(u, p)) = Home(u, p)
             /\ h[Home(u, p)] = h[p] /\ d[Home(u, p)] <= d[p]
             /\ u.node[p].dead => u.node[p].val = Nil /\ u.node[p].key \in Objects
  <2>1. CASE p = m
    BY <2>1, <1>1, <1>2 DEF Path
  <2>2. CASE p # m
    <3>1. p \in Keyed(t) /\ p \in Nodes(t) /\ Home(t, p) \in Keyed(t) /\ Home(t, p) \in Nodes(t)
      BY <1>1, <2>2 DEF Placed
    <3> QED BY <3>1, <2>2, <1>1, <1>2 DEF Placed
  <2> QED BY <2>1, <2>2
<1>5. ASSUME NEW p \in Keyed(u), NEW q \in Keyed(u),
             p # q, u.node[p].key = u.node[q].key, ~u.node[p].dead
      PROVE  u.node[q].dead /\ d[p] < d[q]
  <2>1. p \in Nodes(t) /\ q \in Nodes(t)
    BY <1>1
  <2>2. CASE p = m
    <3>1. q \in Keyed(t) /\ t.node[q].key = k /\ u.node[q] = t.node[q]
      BY <1>1, <1>5, <2>1, <2>2
    <3>2. t.node[q].dead
      BY <3>1, <2>1 DEF Having
    <3>3. Home(t, q) = m /\ h[m] = h[q] /\ d[m] <= d[q]
      BY <3>1 DEF Home, Placed
    <3>4. d[m] # d[q] /\ d[m] \in Nat /\ d[q] \in Nat
      BY <3>3, <2>1, <2>2, <1>5 DEF Path
    <3> QED BY <2>2, <3>1, <3>2, <3>3, <3>4
  <2>3. CASE p # m /\ q = m
    <3>1. t.node[p].key = k /\ ~t.node[p].dead
      BY <2>1, <2>3, <1>5
    <3> QED BY <3>1, <2>1 DEF Having
  <2>4. CASE p # m /\ q # m
    BY <2>1, <2>4, <1>1, <1>5 DEF Placed
  <2> QED BY <2>2, <2>3, <2>4
<1>6. \A p \in Nodes(u) \ Keyed(u) :
        u.node[p] = FreeNode /\ p < u.free /\ \A q \in Nodes(u) : h[q] = h[p] => q = p
  BY <1>1 DEF Placed
<1>7. u.free <= Len(u.node) + 1
  BY DEF Placed
<1> QED BY <1>3, <1>4, <1>5, <1>6, <1>7 DEF Placed

\* A node without a key is alone on its path.
LEMMA FreeAlone ==
  ASSUME NEW t, TableType(t), NEW h, NEW d, Path(t, h, d), Placed(t, h, d),
         NEW p \in Nodes(t), p \notin Keyed(t)
  PROVE  t.node[p] = FreeNode /\ t.node[p].next = 0 /\ d[p] = 0 /\ p < t.free
         /\ \A q \in Nodes(t) : (h[q] = h[p] => q = p) /\ t.node[q].next # p
<1>1. t.node[p] = FreeNode /\ p < t.free /\ \A q \in Nodes(t) : h[q] = h[p] => q = p
  BY DEF Placed
<1>2. 0 \in 0 .. d[p]
  BY DEF Path
<1>3. d[p] = 0
  BY <1>1, <1>2 DEF Path
<1>4. ASSUME NEW q \in Nodes(t), t.node[q].next = p PROVE FALSE
  <2>1. h[p] = h[q] /\ d[p] = d[q] + 1 /\ q = p /\ d[q] \in Nat
    BY <1>1, <1>4 DEF Path
  <2> QED BY <2>1
<1> QED BY <1>1, <1>3, <1>4 DEF FreeNode

LEMMA OneMoreKey ==
  ASSUME NEW t, TableType(t), NEW u, TableType(u), NEW p, p \notin Keyed(t), Keyed(u) = Keyed(t) \cup {p}
  PROVE  Cardinality(Keyed(t)) \in Nat /\ Cardinality(Keyed(u)) = Cardinality(Keyed(t)) + 1
<1>1. Len(t.node) \in Nat
  BY TypeFacts
<1>2. PICK S : S = Keyed(t)
  OBVIOUS
<1>3. IsFiniteSet(S) /\ Cardinality(S) \in Nat
  BY <1>1, <1>2, KeyedFinite
<1>4. Cardinality(S \cup {p}) = Cardinality(S) + 1
  BY <1>2, <1>3, FS_AddElement
<1> QED BY <1>2, <1>3, <1>4

\* The free node p is linked behind m.
Behind(t, h, d, u, m, p, h2, d2) ==
  /\ TableType(t) /\ Path(t, h, d) /\ Placed(t, h, d)
  /\ m \in Nodes(t) /\ p \in Nodes(t) /\ p \notin Keyed(t) /\ p # m
  /\ TableType(u) /\ Nodes(u) = Nodes(t) /\ Keyed(u) = Keyed(t) \cup {p}
  /\ \A x \in Nodes(t) : x # m /\ x # p => u.node[x].next = t.node[x].next
  /\ u.node[m].next = p /\ u.node[p].next = t.node[m].next
  /\ h2 \in [Nodes(t) -> Nat] /\ h2[p] = h[m] /\ \A x \in Nodes(t) : x # p => h2[x] = h[x]
  /\ d2 \in [Nodes(t) -> Nat] /\ d2[p] = d[m] + 1
  /\ \A x \in Nodes(t) : x # p => d2[x] = IF h[x] = h[m] /\ d[x] > d[m] THEN d[x] + 1 ELSE d[x]

LEMMA BehindPath ==
  ASSUME NEW t, NEW h, NEW d, NEW u, NEW m, NEW p, NEW h2, NEW d2, Behind(t, h, d, u, m, p, h2, d2)
  PROVE  Path(u, h2, d2)
<1>0. /\ TableType(t) /\ Path(t, h, d) /\ Placed(t, h, d)
      /\ m \in Nodes(t) /\ p \in Nodes(t) /\ p \notin Keyed(t) /\ p # m
      /\ TableType(u) /\ Nodes(u) = Nodes(t) /\ Keyed(u) = Keyed(t) \cup {p}
      /\ \A x \in Nodes(t) : x # m /\ x # p => u.node[x].next = t.node[x].next
      /\ u.node[m].next = p /\ u.node[p].next = t.node[m].next
      /\ h2 \in [Nodes(t) -> Nat] /\ h2[p] = h[m] /\ \A x \in Nodes(t) : x # p => h2[x] = h[x]
      /\ d2 \in [Nodes(t) -> Nat] /\ d2[p] = d[m] + 1
      /\ \A x \in Nodes(t) : x # p => d2[x] = IF h[x] = h[m] /\ d[x] > d[m] THEN d[x] + 1 ELSE d[x]
  BY DEF Behind
<1> USE <1>0
<1>1. PICK N : N = Nodes(t) /\ \A x \in N : x # 0
  BY DEF Nodes
<1>2. /\ h \in [N -> Nat] /\ d \in [N -> Nat] /\ m \in N /\ p \in N
      /\ \A x, y \in N : h[x] = h[y] /\ d[x] = d[y] => x = y
      /\ \A x, y \in N : t.node[x].next = y <=> h[y] = h[x] /\ d[y] = d[x] + 1
      /\ \A x \in N : t.node[x].next \in N \cup {0}
      /\ \A x \in N : \A e \in 0 .. d[x] : \E q \in N : h[q] = h[x] /\ d[q] = e
  BY <1>1 DEF Path
<1>3. /\ \A x \in N : x # p => h2[x] = h[x] /\ h[x] # h[p] /\ t.node[x].next # p
      /\ h2[p] = h[m] /\ d2[p] = d[m] + 1 /\ h[m] # h[p]
      /\ \A x \in N : x # p => d2[x] = IF h[x] = h[m] /\ d[x] > d[m] THEN d[x] + 1 ELSE d[x]
      /\ \A x \in N : h[x] \in Nat /\ d[x] \in Nat
  BY <1>1, <1>2, FreeAlone
<1>4. h2 \in [N -> Nat] /\ d2 \in [N -> Nat]
  BY <1>1, <1>2
<1>5. ASSUME NEW x \in N, NEW y \in N, h2[x] = h2[y], d2[x] = d2[y] PROVE x = y
  <2>1. ASSUME NEW z \in N, h2[z] = h2[p], d2[z] = d2[p] PROVE z = p
    <3>1. d[z] \in Nat /\ d[m] \in Nat
      BY <1>2, <1>3
    <3>2. z # p => h[z] = h[m] /\ d2[z] = IF d[z] > d[m] THEN d[z] + 1 ELSE d[z]
      BY <2>1, <1>3
    <3> QED BY <2>1, <3>1, <3>2, <1>3
  <2>2. CASE x # p /\ y # p
    <3>1. d[x] \in Nat /\ d[y] \in Nat /\ d[m] \in Nat
      BY <1>2, <1>3
    <3>2. h[x] = h[y]
      BY <2>2, <1>3, <1>5
    <3>3. /\ d2[x] = IF h[x] = h[m] /\ d[x] > d[m] THEN d[x] + 1 ELSE d[x]
          /\ d2[y] = IF h[x] = h[m] /\ d[y] > d[m] THEN d[y] + 1 ELSE d[y]
      BY <2>2, <3>2, <1>3
    <3>4. \A a, b, c \in Nat :
            (IF a > c THEN a + 1 ELSE a) = (IF b > c THEN b + 1 ELSE b) => a = b
      OBVIOUS
    <3>5. d2[x] = d2[y]
      BY <1>5
    <3>6. CASE h[x] = h[m]
      <4>1. (IF d[x] > d[m] THEN d[x] + 1 ELSE d[x]) = (IF d[y] > d[m] THEN d[y] + 1 ELSE d[y])
        BY <3>3, <3>5, <3>6
      <4>2. d[x] = d[y]
        BY <3>1, <3>4, <4>1
      <4> QED BY <3>2, <4>2, <1>2
    <3>7. CASE h[x] # h[m]
      <4>1. d[x] = d[y]
        BY <3>3, <3>5, <3>7
      <4> QED BY <3>2, <4>1, <1>2
    <3> QED BY <3>6, <3>7
  <2> QED BY <2>1, <2>2, <1>5
<1>6. ASSUME NEW x \in N PROVE u.node[x].next \in N \cup {0}
  BY <1>1, <1>2
<1>7. ASSUME NEW x \in N, NEW y \in N
      PROVE  u.node[x].next = y <=> h2[y] = h2[x] /\ d2[y] = d2[x] + 1
  <2>0. d[x] \in Nat /\ d[y] \in Nat /\ d[m] \in Nat
    BY <1>2, <1>3
  <2>1. CASE x = p /\ y = p
    BY <2>0, <2>1, <1>2, <1>3
  <2>2. CASE x = p /\ y # p
    <3>1. u.node[x].next = y <=> h[y] = h[m] /\ d[y] = d[m] + 1
      BY <2>2, <1>2
    <3>2. /\ h2[y] = h[y] /\ h2[x] = h[m] /\ d2[x] = d[m] + 1
          /\ d2[y] = IF h[y] = h[m] /\ d[y] > d[m] THEN d[y] + 1 ELSE d[y]
      BY <2>2, <1>3
    <3> QED BY <2>0, <3>1, <3>2
  <2>3. CASE x = m /\ y = p
    <3>1. u.node[x].next = y /\ h2[y] = h2[x] /\ d2[y] = d[m] + 1 /\ d2[x] = d[m]
      BY <2>0, <2>3, <1>2, <1>3
    <3> QED BY <3>1
  <2>4. CASE x = m /\ y # p
    <3>1. u.node[x].next # y
      BY <2>4
    <3>2. /\ h2[y] = h[y] /\ h2[x] = h[m] /\ d2[x] = d[m]
          /\ d2[y] = IF h[y] = h[m] /\ d[y] > d[m] THEN d[y] + 1 ELSE d[y]
      BY <2>0, <2>4, <1>2, <1>3
    <3> QED BY <2>0, <3>1, <3>2
  <2>5. CASE x # m /\ x # p /\ y = p
    <3>1. u.node[x].next # y
      BY <2>5, <1>1, <1>3
    <3>2. /\ h2[x] = h[x] /\ h2[y] = h[m] /\ d2[y] = d[m] + 1
          /\ d2[x] = IF h[x] = h[m] /\ d[x] > d[m] THEN d[x] + 1 ELSE d[x]
      BY <2>5, <1>3
    <3>3. h[x] = h[m] => d[x] # d[m]
      BY <2>5, <1>2
    <3> QED BY <2>0, <3>1, <3>2, <3>3
  <2>6. CASE x # m /\ x # p /\ y # p
    <3>1. u.node[x].next = y <=> h[y] = h[x] /\ d[y] = d[x] + 1
      BY SMTT(60), <2>6, <1>1, <1>2
    <3>2. /\ h2[x] = h[x] /\ h2[y] = h[y]
          /\ d2[y] = IF h[y] = h[m] /\ d[y] > d[m] THEN d[y] + 1 ELSE d[y]
          /\ d2[x] = IF h[x] = h[m] /\ d[x] > d[m] THEN d[x] + 1 ELSE d[x]
      BY <2>6, <1>3
    <3>3. h[x] = h[m] => d[x] # d[m]
      BY <2>6, <1>2
    <3> QED BY SMTT(60), <2>0, <3>1, <3>2, <3>3
  <2> QED BY <2>1, <2>2, <2>3, <2>4, <2>5, <2>6
<1>8. ASSUME NEW x \in N, NEW e \in 0 .. d2[x] PROVE \E q \in N : h2[q] = h2[x] /\ d2[q] = e
  <2>0. \A z \in N : d[z] \in Nat /\ d2[z] \in Nat
    BY <1>2, <1>4
  <2>1. PICK y \in N : y # p /\ h[y] = h2[x] /\ (y = x \/ (x = p /\ y = m))
    <3>1. CASE x = p
      BY <3>1, <1>2, <1>3
    <3>2. CASE x # p
      <4>1. x \in N /\ x # p /\ h[x] = h2[x]
        BY <3>2, <1>3
      <4> WITNESS x \in N
      <4> QED BY <4>1
    <3> QED BY <3>1, <3>2
  <2>4. e \in Nat /\ e <= d2[x] /\ d2[x] <= d[y] + 1
    BY <2>0, <2>1, <1>3
  <2>2. CASE h[y] = h[m] /\ e > d[m]
    <3>1. CASE e = d[m] + 1
      <4>1. h2[p] = h2[x] /\ d2[p] = e /\ p \in N
        BY <3>1, <2>1, <2>2, <1>2, <1>3
      <4> QED BY <4>1
    <3>2. CASE e # d[m] + 1
      <4>1. e - 1 \in 0 .. d[y] /\ e - 1 > d[m]
        BY <3>2, <2>0, <2>1, <2>2, <2>4, <1>2
      <4>2. PICK q \in N : h[q] = h[y] /\ d[q] = e - 1
        BY <4>1, <1>2
      <4>3. q # p
        BY <4>2, <2>1, <1>3
      <4>4. h2[q] = h2[x] /\ d2[q] = e
        BY <4>1, <4>2, <4>3, <2>0, <2>1, <2>2, <1>3
      <4> QED BY <4>4
    <3> QED BY <3>1, <3>2
  <2>3. CASE ~(h[y] = h[m] /\ e > d[m])
    <3>1. e \in 0 .. d[y]
      BY <2>0, <2>1, <2>3, <2>4, <1>2, <1>3
    <3>2. PICK q \in N : h[q] = h[y] /\ d[q] = e
      BY <3>1, <1>2
    <3>3. q # p
      BY <3>2, <2>1, <1>3
    <3>4. h2[q] = h2[x] /\ d2[q] = e
      BY <3>2, <3>3, <2>0, <2>1, <2>3, <1>2, <1>3
    <3> QED BY <3>4
  <2> QED BY <2>2, <2>3
<1>9. \A x \in N : d2[x] <= Cardinality(Keyed(u))
  <2>1. Cardinality(Keyed(t)) \in Nat /\ Cardinality(Keyed(u)) = Cardinality(Keyed(t)) + 1
    BY OneMoreKey
  <2>2. \A x \in N : d[x] <= Cardinality(Keyed(t)) /\ d[x] \in Nat
    BY <1>1, <1>2 DEF Path
  <2>3. ASSUME NEW x \in N PROVE d2[x] <= Cardinality(Keyed(u))
    BY <2>1, <2>2, <1>2, <1>3
  <2> QED BY <2>3
<1>10. N = Nodes(u)
  BY <1>1
<1>11. \A x, y \in Nodes(u) : h2[x] = h2[y] /\ d2[x] = d2[y] => x = y
  BY <1>5, <1>10
<1>12. \A x, y \in Nodes(u) : u.node[x].next = y <=> h2[y] = h2[x] /\ d2[y] = d2[x] + 1
  BY <1>7, <1>10
<1>13. \A x \in Nodes(u) : \A e \in 0 .. d2[x] : \E q \in Nodes(u) : h2[q] = h2[x] /\ d2[q] = e
  BY <1>8, <1>10
<1>14. /\ h2 \in [Nodes(u) -> Nat] /\ d2 \in [Nodes(u) -> Nat]
       /\ \A x \in Nodes(u) : u.node[x].next \in Nodes(u) \cup {0}
       /\ \A x \in Nodes(u) : d2[x] <= Cardinality(Keyed(u))
  BY <1>4, <1>6, <1>9, <1>10
<1> QED BY <1>11, <1>12, <1>13, <1>14 DEF Path

\* The key k, whose main position is m, is about to take the highest free node p.
Entering(t, h, d, k, m, p, u) ==
  /\ TableType(t) /\ Path(t, h, d) /\ Placed(t, h, d)
  /\ k \in Keys /\ ~InArray(t, k) /\ Having(t, k, FALSE) = {}
  /\ m \in Keyed(t) /\ m = MainPosition(t, k) /\ ~t.node[m].dead
  /\ p \in Nodes(t) /\ p \notin Keyed(t) /\ \A x \in Nodes(t) : x > p /\ x < t.free => x \in Keyed(t)
  /\ TableType(u) /\ Nodes(u) = Nodes(t) /\ Len(u.node) = Len(t.node) /\ u.free = p
  /\ \A x : InArray(u, x) <=> InArray(t, x)
LinkedBehind(t, k, m, p, u) ==
  /\ \A x \in Nodes(t) : x # m /\ x # p => u.node[x] = t.node[x]
  /\ u.node[m].key = t.node[m].key /\ ~u.node[m].dead /\ u.node[m].next = p
  /\ u.node[p].key = k /\ ~u.node[p].dead /\ u.node[p].next = t.node[m].next
MovedAway(t, k, m, p, b, u) ==
  /\ b \in Nodes(t) /\ t.node[b].next = m
  /\ \A x \in Nodes(t) : x # m /\ x # p /\ x # b => u.node[x] = t.node[x]
  /\ u.node[b].key = t.node[b].key /\ u.node[b].val = t.node[b].val
  /\ u.node[b].dead = t.node[b].dead /\ u.node[b].next = p
  /\ u.node[p] = t.node[m]
  /\ u.node[m].key = k /\ ~u.node[m].dead /\ u.node[m].next = 0

\* A key enters a free node behind its main position.
LEMMA BehindPlaced ==
  ASSUME NEW t, NEW h, NEW d, NEW k, NEW m, NEW p, NEW u, Entering(t, h, d, k, m, p, u), Home(t, m) = m,
         LinkedBehind(t, k, m, p, u)
  PROVE  \E h2, d2 : Path(u, h2, d2) /\ Placed(u, h2, d2)
<1>0. /\ TableType(t) /\ Path(t, h, d) /\ Placed(t, h, d)
      /\ k \in Keys /\ ~InArray(t, k) /\ Having(t, k, FALSE) = {}
      /\ m \in Keyed(t) /\ m = MainPosition(t, k) /\ ~t.node[m].dead
      /\ p \in Nodes(t) /\ p \notin Keyed(t) /\ \A x \in Nodes(t) : x > p /\ x < t.free => x \in Keyed(t)
      /\ TableType(u) /\ Nodes(u) = Nodes(t) /\ Len(u.node) = Len(t.node) /\ u.free = p
      /\ \A x : InArray(u, x) <=> InArray(t, x)
      /\ \A x \in Nodes(t) : x # m /\ x # p => u.node[x] = t.node[x]
      /\ u.node[m].key = t.node[m].key /\ ~u.node[m].dead /\ u.node[m].next = p
      /\ u.node[p].key = k /\ ~u.node[p].dead /\ u.node[p].next = t.node[m].next
  BY DEF Entering, LinkedBehind
<1> USE <1>0
<1>1. /\ Keyed(u) = Keyed(t) \cup {p} /\ Keyed(t) \subseteq Nodes(t) /\ m \in Nodes(t) /\ m # p
      /\ \A x \in Nodes(t) : x # m /\ x # p => u.node[x].next = t.node[x].next
  BY LuaTableAssumption DEF Keyed
<1>2. PICK h2, d2 :
        /\ h2 = [h EXCEPT ![p] = h[m]]
        /\ d2 = [x \in Nodes(t) |-> IF x = p THEN d[m] + 1
                                    ELSE IF h[x] = h[m] /\ d[x] > d[m] THEN d[x] + 1 ELSE d[x]]
  OBVIOUS
<1>4. /\ \A x \in Nodes(t) : x # p => h2[x] = h[x] /\ h[x] # h[p]
      /\ h2 \in [Nodes(t) -> Nat] /\ d2 \in [Nodes(t) -> Nat]
      /\ h2[p] = h[m] /\ d2[p] = d[m] + 1 /\ d2[m] = d[m]
      /\ \A x \in Nodes(t) : x # p => d2[x] = IF h[x] = h[m] /\ d[x] > d[m] THEN d[x] + 1 ELSE d[x]
      /\ \A x \in Nodes(t) : d[x] \in Nat
      /\ \A x, y \in Nodes(t) : h[x] = h[y] /\ d[x] = d[y] => x = y
  <2>1. h \in [Nodes(t) -> Nat] /\ d \in [Nodes(t) -> Nat]
        /\ \A x, y \in Nodes(t) : h[x] = h[y] /\ d[x] = d[y] => x = y
    BY DEF Path
  <2>2. \A x \in Nodes(t) : x # p => h[x] # h[p]
    BY FreeAlone
  <2> QED BY SMTT(60), <2>1, <2>2, <1>1, <1>2
<1>3. Path(u, h2, d2)
  <2>1. /\ \A x \in Nodes(t) : x # p => h2[x] = h[x]
        /\ h2[p] = h[m] /\ h2 \in [Nodes(t) -> Nat]
    BY <1>4
  <2>2. /\ \A x \in Nodes(t) : x # p => d2[x] = IF h[x] = h[m] /\ d[x] > d[m] THEN d[x] + 1 ELSE d[x]
        /\ d2[p] = d[m] + 1 /\ d2 \in [Nodes(t) -> Nat]
    BY <1>4
  <2>3. m \in Nodes(t) /\ p # m /\ Keyed(u) = Keyed(t) \cup {p}
    BY <1>1
  <2>4. \A x \in Nodes(t) : x # m /\ x # p => u.node[x].next = t.node[x].next
    BY <1>1
  <2>5. u.node[m].next = p /\ u.node[p].next = t.node[m].next
    OBVIOUS
  <2>6. Behind(t, h, d, u, m, p, h2, d2)
    BY <2>1, <2>2, <2>3, <2>4, <2>5 DEF Behind
  <2> QED BY <2>6, BehindPath
<1>5. /\ \A x \in Nodes(t) : x # p => Home(u, x) = Home(t, x)
      /\ Home(u, p) = m
  BY MainPositionSame DEF Home
<1>6. ASSUME NEW x \in Keyed(u)
      PROVE  /\ ~InArray(u, u.node[x].key)
             /\ Home(u, x) \in Keyed(u) /\ Home(u, Home(u, x)) = Home(u, x)
             /\ h2[Home(u, x)] = h2[x] /\ d2[Home(u, x)] <= d2[x]
             /\ u.node[x].dead => u.node[x].val = Nil /\ u.node[x].key \in Objects
  <2>1. CASE x = p
    BY <2>1, <1>1, <1>4, <1>5
  <2>2. CASE x # p
    <3>1. PICK y : y = Home(t, x)
      OBVIOUS
    <3>2. /\ x \in Keyed(t) /\ x \in Nodes(t) /\ y \in Keyed(t) /\ y \in Nodes(t) /\ y # p
          /\ Home(t, y) = y /\ h[y] = h[x] /\ d[y] <= d[x] /\ ~InArray(t, t.node[x].key)
          /\ t.node[x].dead => t.node[x].val = Nil /\ t.node[x].key \in Objects
      BY <1>1, <2>2, <3>1 DEF Placed
    <3>3. Home(u, x) = y /\ Home(u, y) = y /\ y \in Keyed(u) /\ ~InArray(u, u.node[x].key)
      BY <1>1, <1>5, <2>2, <3>1, <3>2
    <3>4. h2[y] = h2[x] /\ d2[y] <= d2[x]
      <4>1. d[x] \in Nat /\ d[y] \in Nat /\ d[m] \in Nat
        BY <1>1, <1>4, <3>2
      <4>2. /\ h2[y] = h[y] /\ h2[x] = h[x]
            /\ d2[y] = IF h[y] = h[m] /\ d[y] > d[m] THEN d[y] + 1 ELSE d[y]
            /\ d2[x] = IF h[x] = h[m] /\ d[x] > d[m] THEN d[x] + 1 ELSE d[x]
        BY <2>2, <3>2, <1>4
      <4> QED BY <3>2, <4>1, <4>2
    <3>5. u.node[x].dead => u.node[x].val = Nil /\ u.node[x].key \in Objects
      BY <2>2, <3>2
    <3> QED BY <3>3, <3>4, <3>5
  <2> QED BY <2>1, <2>2
<1>7. ASSUME NEW x \in Keyed(u), NEW y \in Keyed(u),
             x # y, u.node[x].key = u.node[y].key, ~u.node[x].dead
      PROVE  u.node[y].dead /\ d2[x] < d2[y]
  <2>1. x \in Nodes(t) /\ y \in Nodes(t) /\ (x # p => x \in Keyed(t)) /\ (y # p => y \in Keyed(t))
    BY <1>1
  <2>2. CASE x = p
    <3>1. y # p /\ y \in Keyed(t) /\ t.node[y].key = k /\ (y # m => u.node[y] = t.node[y])
      BY <1>7, <2>1, <2>2
    <3>2. t.node[y].dead
      BY <3>1, <2>1 DEF Having
    <3>3. y # m /\ Home(t, y) = m /\ h[m] = h[y] /\ d[m] <= d[y]
      BY <3>1, <3>2 DEF Home, Placed
    <3>4. d[m] < d[y]
      BY <3>3, <2>1, <1>1, <1>4
    <3> QED BY <2>1, <2>2, <3>1, <3>2, <3>3, <3>4, <1>1, <1>4
  <2>3. CASE y = p
    <3>1. x # p /\ x \in Nodes(t) /\ t.node[x].key = k /\ ~t.node[x].dead
      BY <1>7, <2>1, <2>3
    <3> QED BY <3>1 DEF Having
  <2>4. CASE x # p /\ y # p
    <3>1. t.node[x].key = t.node[y].key /\ ~t.node[x].dead
      BY <2>1, <2>4, <1>7
    <3>2. t.node[y].dead /\ d[x] < d[y] /\ y # m
      BY <3>1, <2>1, <2>4, <1>7 DEF Placed
    <3>3. h[x] = h[y]
      <4>1. h[Home(t, x)] = h[x] /\ h[Home(t, y)] = h[y] /\ Home(t, x) = Home(t, y)
        BY <3>1, <2>1, <2>4 DEF Placed, Home
      <4> QED BY <4>1
    <3>4. d2[x] < d2[y]
      <4>1. d[x] \in Nat /\ d[y] \in Nat /\ d[m] \in Nat
        BY <1>1, <1>4, <2>1
      <4>2. /\ d2[x] = IF h[x] = h[m] /\ d[x] > d[m] THEN d[x] + 1 ELSE d[x]
            /\ d2[y] = IF h[x] = h[m] /\ d[y] > d[m] THEN d[y] + 1 ELSE d[y]
        BY <1>4, <2>1, <2>4, <3>3
      <4> QED BY <3>2, <4>1, <4>2
    <3> QED BY <3>2, <3>4, <2>1, <2>4
  <2> QED BY <2>2, <2>3, <2>4
<1>8. ASSUME NEW x \in Nodes(u) \ Keyed(u)
      PROVE  u.node[x] = FreeNode /\ x < u.free /\ \A q \in Nodes(u) : h2[q] = h2[x] => q = x
  <2>1. x \in Nodes(t) /\ x # p /\ x \notin Keyed(t) /\ x # m
    BY <1>1, <1>8
  <2>2. u.node[x] = FreeNode /\ x < t.free /\ \A q \in Nodes(t) : h[q] = h[x] => q = x
    BY <2>1 DEF Placed
  <2>3. x < p
    <3>1. x \in Nat /\ p \in Nat
      BY <2>1, TypeFacts DEF Nodes
    <3> QED BY <3>1, <2>1, <2>2
  <2> QED BY <2>1, <2>2, <2>3, <1>1, <1>4
<1>9. u.free <= Len(u.node) + 1
  BY TypeFacts DEF Nodes
<1>10. Placed(u, h2, d2)
  BY <1>6, <1>7, <1>8, <1>9 DEF Placed
<1> QED BY <1>3, <1>10

\* Two nodes change places.
Swapped(t, h, d, u, sw, h2, d2) ==
  /\ TableType(t) /\ Path(t, h, d) /\ TableType(u) /\ Nodes(u) = Nodes(t)
  /\ Cardinality(Keyed(t)) \in Nat /\ Cardinality(Keyed(u)) = Cardinality(Keyed(t)) + 1
  /\ sw \in [Nodes(t) -> Nodes(t)] /\ \A x \in Nodes(t) : sw[sw[x]] = x
  /\ \A x \in Nodes(t) : u.node[x].next \in Nodes(t) \cup {0}
  /\ \A x, y \in Nodes(t) : u.node[x].next = y <=> t.node[sw[x]].next = sw[y]
  /\ h2 \in [Nodes(t) -> Nat] /\ \A x \in Nodes(t) : h2[x] = h[sw[x]]
  /\ d2 \in [Nodes(t) -> Nat] /\ \A x \in Nodes(t) : d2[x] = d[sw[x]]

LEMMA SwappedPath ==
  ASSUME NEW t, NEW h, NEW d, NEW u, NEW sw, NEW h2, NEW d2, Swapped(t, h, d, u, sw, h2, d2)
  PROVE  Path(u, h2, d2)
<1>1. PICK N : N = Nodes(t)
  OBVIOUS
<1>2. /\ TableType(t) /\ Path(t, h, d) /\ TableType(u) /\ Nodes(u) = N
      /\ Cardinality(Keyed(t)) \in Nat /\ Cardinality(Keyed(u)) = Cardinality(Keyed(t)) + 1
      /\ sw \in [N -> N] /\ \A x \in N : sw[sw[x]] = x
      /\ \A x \in N : u.node[x].next \in N \cup {0}
      /\ \A x, y \in N : u.node[x].next = y <=> t.node[sw[x]].next = sw[y]
      /\ h2 \in [N -> Nat] /\ \A x \in N : h2[x] = h[sw[x]]
      /\ d2 \in [N -> Nat] /\ \A x \in N : d2[x] = d[sw[x]]
  BY <1>1 DEF Swapped
<1>3. /\ h \in [N -> Nat] /\ d \in [N -> Nat]
      /\ \A x, y \in N : h[x] = h[y] /\ d[x] = d[y] => x = y
      /\ \A x, y \in N : t.node[x].next = y <=> h[y] = h[x] /\ d[y] = d[x] + 1
      /\ \A x \in N : \A e \in 0 .. d[x] : \E q \in N : h[q] = h[x] /\ d[q] = e
      /\ \A x \in N : d[x] <= Cardinality(Keyed(t))
  BY <1>1, <1>2 DEF Path
<1>4. \A x \in N : sw[x] \in N
  BY <1>2
<1>5. ASSUME NEW x \in N, NEW y \in N, h2[x] = h2[y], d2[x] = d2[y] PROVE x = y
  <2>1. sw[x] = sw[y]
    BY <1>2, <1>3, <1>4, <1>5
  <2>2. sw[sw[x]] = x /\ sw[sw[y]] = y
    BY <1>2
  <2> QED BY <2>1, <2>2
<1>6. ASSUME NEW x \in N, NEW y \in N PROVE u.node[x].next = y <=> h2[y] = h2[x] /\ d2[y] = d2[x] + 1
  <2>1. u.node[x].next = y <=> t.node[sw[x]].next = sw[y]
    BY <1>2
  <2>2. t.node[sw[x]].next = sw[y] <=> h[sw[y]] = h[sw[x]] /\ d[sw[y]] = d[sw[x]] + 1
    BY <1>3, <1>4
  <2> QED BY <2>1, <2>2, <1>2
<1>7. ASSUME NEW x \in N, NEW e \in 0 .. d2[x] PROVE \E q \in N : h2[q] = h2[x] /\ d2[q] = e
  <2>1. sw[x] \in N /\ e \in 0 .. d[sw[x]] /\ h2[x] = h[sw[x]]
    BY <1>2, <1>4
  <2>2. PICK q \in N : h[q] = h[sw[x]] /\ d[q] = e
    BY <2>1, <1>3
  <2>3. sw[q] \in N /\ sw[sw[q]] = q
    BY <1>2, <1>4
  <2>4. h2[sw[q]] = h[sw[sw[q]]] /\ d2[sw[q]] = d[sw[sw[q]]]
    BY <2>3, <1>2
  <2>5. h2[sw[q]] = h2[x] /\ d2[sw[q]] = e
    BY <2>1, <2>2, <2>3, <2>4
  <2> QED BY <2>3, <2>5
<1>8. ASSUME NEW x \in N PROVE d2[x] <= Cardinality(Keyed(u))
  <2>1. d2[x] \in Nat /\ d2[x] <= Cardinality(Keyed(t))
    BY <1>2, <1>3, <1>4
  <2> QED BY <2>1, <1>2
<1> QED BY <1>2, <1>5, <1>6, <1>7, <1>8 DEF Path

\* The node at m, where it does not belong, moves to the free node p, and its predecessor
\* leads there; the key enters at m.
LEMMA MovePlaced ==
  ASSUME NEW t, NEW h, NEW d, NEW k, NEW m, NEW p, NEW u, Entering(t, h, d, k, m, p, u), Home(t, m) # m,
         NEW b, MovedAway(t, k, m, p, b, u)
  PROVE  \E h2, d2 : Path(u, h2, d2) /\ Placed(u, h2, d2)
<1>0. /\ TableType(t) /\ Path(t, h, d) /\ Placed(t, h, d)
      /\ k \in Keys /\ ~InArray(t, k) /\ Having(t, k, FALSE) = {}
      /\ m \in Keyed(t) /\ m = MainPosition(t, k) /\ ~t.node[m].dead
      /\ p \in Nodes(t) /\ p \notin Keyed(t) /\ \A x \in Nodes(t) : x > p /\ x < t.free => x \in Keyed(t)
      /\ TableType(u) /\ Nodes(u) = Nodes(t) /\ Len(u.node) = Len(t.node) /\ u.free = p
      /\ \A x : InArray(u, x) <=> InArray(t, x)
      /\ b \in Nodes(t) /\ t.node[b].next = m
      /\ \A x \in Nodes(t) : x # m /\ x # p /\ x # b => u.node[x] = t.node[x]
      /\ u.node[b].key = t.node[b].key /\ u.node[b].val = t.node[b].val
      /\ u.node[b].dead = t.node[b].dead /\ u.node[b].next = p
      /\ u.node[p] = t.node[m]
      /\ u.node[m].key = k /\ ~u.node[m].dead /\ u.node[m].next = 0
  BY DEF Entering, MovedAway
<1> USE <1>0
<1>1. PICK N : N = Nodes(t) /\ 0 \notin N
  BY DEF Nodes
<1>2. PICK sw : sw = [x \in N |-> IF x = m THEN p ELSE IF x = p THEN m ELSE x]
  OBVIOUS
<1>3. PICK h2 : h2 = [x \in N |-> h[sw[x]]]
  OBVIOUS
<1>4. PICK d2 : d2 = [x \in N |-> d[sw[x]]]
  OBVIOUS
<1>5. /\ h \in [N -> Nat] /\ d \in [N -> Nat]
      /\ \A x, y \in N : t.node[x].next = y <=> h[y] = h[x] /\ d[y] = d[x] + 1
      /\ \A x, y \in N : h[x] = h[y] /\ d[x] = d[y] => x = y
      /\ \A x \in N : t.node[x].next \in N \cup {0}
  BY <1>1 DEF Path
<1>6. m \in N /\ p \in N /\ m # p /\ b \in N /\ Keyed(t) \subseteq N
  BY <1>1 DEF Keyed
<1>7. t.node[p].next = 0 /\ \A x \in N : t.node[x].next # p /\ (h[x] = h[p] => x = p)
  BY <1>1, FreeAlone
<1>8. h[b] = h[m] /\ d[m] = d[b] + 1 /\ b # m /\ b # p
      /\ \A x \in N : t.node[x].next = m => x = b
  <2>1. h[b] = h[m] /\ d[m] = d[b] + 1
    BY SMTT(60), <1>5, <1>6
  <2>2. d[b] \in Nat
    BY <1>5, <1>6
  <2>3. b # m
    BY <2>1, <2>2
  <2>4. b # p
    BY <1>6, <1>7, <1>1
  <2>5. ASSUME NEW x \in N, t.node[x].next = m PROVE x = b
    <3>1. h[x] = h[b] /\ d[m] = d[x] + 1 /\ d[x] \in Nat
      BY <2>1, <2>5, <1>5, <1>6
    <3>2. d[x] = d[b]
      BY <3>1, <2>1, <2>2
    <3> QED BY <3>1, <3>2, <1>5, <1>6
  <2> QED BY <2>1, <2>3, <2>4, <2>5
<1>9. /\ sw[m] = p /\ sw[p] = m /\ \A x \in N : x # m /\ x # p => sw[x] = x
      /\ sw \in [N -> N] /\ \A x \in N : sw[sw[x]] = x
  BY <1>2, <1>6
<1>10. /\ h2 \in [N -> Nat] /\ h2[m] = h[p] /\ h2[p] = h[m] /\ \A x \in N : x # m /\ x # p => h2[x] = h[x]
       /\ d2 \in [N -> Nat] /\ d2[m] = d[p] /\ d2[p] = d[m] /\ \A x \in N : x # m /\ x # p => d2[x] = d[x]
       /\ \A x \in N : h2[x] = h[sw[x]] /\ d2[x] = d[sw[x]]
  BY <1>3, <1>4, <1>5, <1>6, <1>9
<1>11. Keyed(u) = Keyed(t) \cup {p}
  <2>1. \A x \in N : x # p /\ x # m => u.node[x].key = t.node[x].key
    BY <1>1
  <2>2. u.node[p].key # NoKey /\ u.node[m].key # NoKey
    BY LuaTableAssumption DEF Keyed
  <2> QED BY <2>1, <2>2, <1>1, <1>6 DEF Keyed
<1>12. Path(u, h2, d2)
  <2>1. ASSUME NEW x \in N PROVE u.node[x].next \in N \cup {0}
    <3>1. t.node[m].next \in N \cup {0} /\ t.node[x].next \in N \cup {0}
      BY <1>5, <1>6
    <3>2. x # m /\ x # p /\ x # b => u.node[x].next = t.node[x].next
      BY <1>1
    <3> QED BY <3>1, <3>2, <1>6
  <2>2. ASSUME NEW x \in N, NEW y \in N PROVE u.node[x].next = y <=> t.node[sw[x]].next = sw[y]
    <3>0. sw[y] \in N /\ (sw[y] = m <=> y = p) /\ (sw[y] = p <=> y = m) /\ (y # m /\ y # p => sw[y] = y)
      BY <1>6, <1>9
    <3>1. CASE x = m
      BY <3>0, <3>1, <1>1, <1>7, <1>9
    <3>2. CASE x = p
      <4>1. u.node[x].next = t.node[m].next /\ sw[x] = m /\ t.node[m].next # p /\ t.node[m].next # m
        BY <3>2, <1>6, <1>7, <1>8, <1>9
      <4> QED BY <4>1, <3>0
    <3>3. CASE x = b
      <4>1. u.node[x].next = p /\ sw[x] = x /\ t.node[x].next = m
        BY <3>3, <1>6, <1>8, <1>9
      <4> QED BY <4>1, <3>0
    <3>4. CASE x # m /\ x # p /\ x # b
      <4>1. u.node[x].next = t.node[x].next /\ sw[x] = x /\ t.node[x].next # m /\ t.node[x].next # p
        BY <3>4, <1>1, <1>7, <1>8, <1>9
      <4> QED BY <4>1, <3>0
    <3> QED BY <3>1, <3>2, <3>3, <3>4
  <2>3. Cardinality(Keyed(t)) \in Nat /\ Cardinality(Keyed(u)) = Cardinality(Keyed(t)) + 1
    BY <1>11, OneMoreKey
  <2>4. Swapped(t, h, d, u, sw, h2, d2)
    BY <2>1, <2>2, <2>3, <1>1, <1>9, <1>10 DEF Swapped
  <2> QED BY <2>4, SwappedPath
<1>13. PICK c : c = Home(t, m)
  OBVIOUS
<1>14. c \in Keyed(t) /\ c # m /\ c # p /\ c \in N /\ Home(t, c) = c /\ h[c] = h[m] /\ d[c] <= d[m]
  BY <1>6, <1>13 DEF Placed
<1>15. /\ Home(u, m) = m /\ Home(u, p) = c
       /\ \A x \in N : x # p /\ x # m => Home(u, x) = Home(t, x)
  BY <1>1, <1>13, MainPositionSame DEF Home
<1>16. ASSUME NEW x \in Keyed(t), x # m PROVE Home(t, x) \in Keyed(t) /\ Home(t, x) # m /\ Home(t, x) # p
  BY <1>13, <1>14 DEF Placed
<1>17. ASSUME NEW x \in Keyed(u)
       PROVE  /\ ~InArray(u, u.node[x].key)
              /\ Home(u, x) \in Keyed(u) /\ Home(u, Home(u, x)) = Home(u, x)
              /\ h2[Home(u, x)] = h2[x] /\ d2[Home(u, x)] <= d2[x]
              /\ u.node[x].dead => u.node[x].val = Nil /\ u.node[x].key \in Objects
  <2>1. CASE x = m
    BY <2>1, <1>6, <1>10, <1>11, <1>15
  <2>2. CASE x = p
    BY <2>2, <1>6, <1>10, <1>11, <1>14, <1>15 DEF Placed
  <2>3. CASE x # m /\ x # p
    <3>1. PICK y : y = Home(t, x)
      OBVIOUS
    <3>2. /\ x \in Keyed(t) /\ x \in N /\ y \in Keyed(t) /\ y \in N /\ y # p /\ y # m
          /\ Home(t, y) = y /\ h[y] = h[x] /\ d[y] <= d[x] /\ ~InArray(t, t.node[x].key)
          /\ t.node[x].dead => t.node[x].val = Nil /\ t.node[x].key \in Objects
      BY <1>1, <1>6, <1>11, <1>16, <2>3, <3>1 DEF Placed
    <3>3. Home(u, x) = y /\ Home(u, y) = y /\ y \in Keyed(u)
      BY <1>11, <1>15, <2>3, <3>1, <3>2
    <3>4. h2[y] = h2[x] /\ d2[y] <= d2[x]
      BY <2>3, <3>2, <1>10
    <3>5. /\ ~InArray(u, u.node[x].key)
          /\ u.node[x].dead => u.node[x].val = Nil /\ u.node[x].key \in Objects
      BY <2>3, <3>2, <1>1
    <3> QED BY <3>3, <3>4, <3>5
  <2> QED BY <2>1, <2>2, <2>3
<1>18. \A x \in N : x # m /\ x # p => u.node[x].key = t.node[x].key /\ u.node[x].dead = t.node[x].dead
  BY <1>1
<1>19. ASSUME NEW x \in Keyed(t), x # m PROVE t.node[x].key # k
  <2>1. Home(t, x) # m
    BY <1>16, <1>19
  <2> QED BY <2>1 DEF Home
<1>20. t.node[m].key # k
  BY DEF Home
<1>21. ASSUME NEW x \in Keyed(u), NEW y \in Keyed(u),
              x # y, u.node[x].key = u.node[y].key, ~u.node[x].dead
       PROVE  u.node[y].dead /\ d2[x] < d2[y]
  <2>1. \A z \in Keyed(u) : z # m => u.node[z].key # k
    BY <1>6, <1>11, <1>18, <1>19, <1>20
  <2>2. x # m /\ y # m
    BY <2>1, <1>21
  <2>3. sw[x] \in Keyed(t) /\ sw[y] \in Keyed(t) /\ x \in N /\ y \in N
    BY <2>2, <1>6, <1>9, <1>11
  <2>4. sw[x] # sw[y]
    BY <2>3, <1>9, <1>21
  <2>5. \A z \in Keyed(u) : z # m => u.node[z].key = t.node[sw[z]].key /\ u.node[z].dead = t.node[sw[z]].dead
    BY <1>6, <1>9, <1>11, <1>18
  <2>6. t.node[sw[x]].key = t.node[sw[y]].key /\ ~t.node[sw[x]].dead
    BY <2>2, <2>5, <1>21
  <2>7. t.node[sw[y]].dead /\ d[sw[x]] < d[sw[y]]
    BY <2>3, <2>4, <2>6 DEF Placed
  <2> QED BY <2>2, <2>3, <2>5, <2>7, <1>10
<1>22. ASSUME NEW x \in Nodes(u) \ Keyed(u)
       PROVE  u.node[x] = FreeNode /\ x < u.free /\ \A q \in Nodes(u) : h2[q] = h2[x] => q = x
  <2>1. x \in N /\ x # p /\ x \notin Keyed(t) /\ x # m
    BY <1>1, <1>11, <1>22
  <2>2. t.node[x] = FreeNode /\ x < t.free /\ \A q \in N : h[q] = h[x] => q = x
    BY <2>1, <1>1 DEF Placed
  <2>3. x < p
    <3>1. x \in Nat /\ p \in Nat
      BY <2>1, <1>1, TypeFacts DEF Nodes
    <3> QED BY <3>1, <2>1, <2>2, <1>1
  <2>4. u.node[x] = FreeNode
    <3>1. x # b
      BY <2>2, <1>1, <1>6 DEF FreeNode
    <3> QED BY <3>1, <2>1, <2>2, <1>1
  <2>5. ASSUME NEW q \in N, h2[q] = h2[x] PROVE q = x
    <3>1. h[sw[q]] = h[x] /\ sw[q] \in N
      BY <2>1, <2>5, <1>9, <1>10
    <3>2. sw[q] = x
      BY <3>1, <2>2
    <3> QED BY <3>2, <2>1, <1>9
  <2> QED BY <2>3, <2>4, <2>5, <1>1
<1>23. u.free <= Len(u.node) + 1
  BY TypeFacts DEF Nodes
<1>24. Placed(u, h2, d2)
  BY <1>17, <1>21, <1>22, <1>23 DEF Placed
<1> QED BY <1>12, <1>24

-----------------------------------------------------------------------------
(* What a store changes, whichever way it goes.                             *)

KeysOf(t)       == {t.node[p].key : p \in Keyed(t)}
Live(t)         == \A p \in Keyed(t) : t.node[p].val # Nil
HasVal(t, k, v) == \E p \in Nodes(t) : t.node[p].key = k /\ ~t.node[p].dead /\ t.node[p].val = v

LEMMA GetVal ==
  ASSUME NEW t, Good(t), NEW k \in Keys, ~InArray(t, k)
  PROVE  /\ Get(t, k) \in Values \cup {Nil}
         /\ \A v \in Values : Get(t, k) = v <=> HasVal(t, k, v)
         /\ \A v : HasVal(t, k, v) => Get(t, k) = v
<1>1. /\ \A p \in Having(t, k, FALSE) : Get(t, k) = t.node[p].val
      /\ Having(t, k, FALSE) = {} => Get(t, k) = Nil
  BY GetFacts
<1>2. \A v : HasVal(t, k, v) <=> \E p \in Having(t, k, FALSE) : t.node[p].val = v
  BY DEF HasVal, Having
<1>3. \A p \in Having(t, k, FALSE) : t.node[p].val \in Values \cup {Nil}
  BY TypeFacts DEF Good, Having
<1>4. Nil \notin Values
  BY LuaTableAssumption
<1>5. PICK F, g : F = Having(t, k, FALSE) /\ g = Get(t, k)
  OBVIOUS
<1>6. CASE F = {}
  BY <1>1, <1>2, <1>4, <1>5, <1>6
<1>7. CASE F # {}
  <2>1. PICK p \in F : g = t.node[p].val
    BY <1>1, <1>5, <1>7
  <2>2. \A q \in F : g = t.node[q].val
    BY <1>1, <1>5
  <2>3. g \in Values \cup {Nil}
    BY <1>3, <1>5, <2>1
  <2>4. \A v : HasVal(t, k, v) <=> g = v
    BY <1>2, <1>5, <2>1, <2>2
  <2> QED BY <1>5, <2>3, <2>4
<1> QED BY <1>6, <1>7

\* t has become u by an assignment to k.
Changed(t, u, k, v) ==
  /\ Good(u) /\ Len(u.array) = Len(t.array) /\ Len(u.node) = Len(t.node)
  /\ \A x \in Keys : Get(u, x) = IF x = k THEN v ELSE Get(t, x)
  /\ KeysOf(u) \subseteq KeysOf(t) \cup {k}
  /\ Live(t) /\ v # Nil => Live(u)

LEMMA ChangedNodes ==
  ASSUME NEW t, Good(t), NEW u, Good(u), u.array = t.array, Len(u.node) = Len(t.node),
         NEW k \in Keys, ~InArray(t, k), NEW v, HasVal(u, k, v),
         \A x \in Keys \ {k}, w \in Values : HasVal(u, x, w) <=> HasVal(t, x, w),
         KeysOf(u) \subseteq KeysOf(t) \cup {k}, Live(t) /\ v # Nil => Live(u)
  PROVE  Changed(t, u, k, v)
<1>1. ASSUME NEW x \in Keys PROVE Get(u, x) = IF x = k THEN v ELSE Get(t, x)
  <2>1. InArray(u, x) <=> InArray(t, x)
    BY DEF InArray
  <2>2. CASE x = k
    BY <2>1, <2>2, GetVal
  <2>3. CASE x # k /\ InArray(t, x)
    BY <2>1, <2>3 DEF Get
  <2>4. CASE x # k /\ ~InArray(t, x)
    <3>1. /\ Get(u, x) \in Values \cup {Nil} /\ Get(t, x) \in Values \cup {Nil}
          /\ \A w \in Values : Get(u, x) = w <=> HasVal(u, x, w)
          /\ \A w \in Values : Get(t, x) = w <=> HasVal(t, x, w)
      BY <2>1, <2>4, GetVal
    <3>2. \A w \in Values : HasVal(u, x, w) <=> HasVal(t, x, w)
      BY <2>4
    <3> QED BY <3>1, <3>2, <2>4
  <2> QED BY <2>2, <2>3, <2>4
<1> QED BY <1>1 DEF Changed

\* One element of a vector is replaced.
LEMMA Replaced ==
  ASSUME NEW T, NEW s \in Seq(T), NEW i \in 1 .. Len(s), NEW e \in T
  PROVE  /\ [s EXCEPT ![i] = e] \in Seq(T) /\ Len([s EXCEPT ![i] = e]) = Len(s)
         /\ [s EXCEPT ![i] = e][i] = e
         /\ \A j \in 1 .. Len(s) : j # i => [s EXCEPT ![i] = e][j] = s[j]
<1>1. [s EXCEPT ![i] = e] \in Seq(T) /\ Len([s EXCEPT ![i] = e]) = Len(s)
  BY ExceptSeq
<1>2. DOMAIN s = 1 .. Len(s)
  BY LenProperties
<1> QED BY <1>1, <1>2

LEMMA ReuseChanges ==
  ASSUME NEW t, Good(t), NEW k \in Keys, ~InArray(t, k), Having(t, k, FALSE) = {},
         NEW v \in Values \cup {Nil}, NEW m \in Nodes(t), m = MainPosition(t, k), t.node[m].val = Nil
  PROVE  Changed(t, [t EXCEPT !.node[m] = Entry(k, v, t.node[m].next)], k, v)
<1>1. PICK h, d : TableType(t) /\ Path(t, h, d) /\ Placed(t, h, d)
  BY DEF Good
<1>2. PICK e : e = Entry(k, v, t.node[m].next)
  OBVIOUS
<1>3. e \in NodeType /\ e.key = k /\ e.val = v /\ e.next = t.node[m].next /\ e.dead = FALSE
  <2>1. t.node[m].next \in Nat
    BY <1>1, TypeFacts
  <2> QED BY <1>2, <2>1 DEF Entry, NodeType
<1>4. PICK node : node = [t.node EXCEPT ![m] = e]
  OBVIOUS
<1>5. /\ node \in Seq(NodeType) /\ Len(node) = Len(t.node)
      /\ node[m] = e /\ \A x \in Nodes(t) : x # m => node[x] = t.node[x]
  <2>1. t.node \in Seq(NodeType) /\ m \in 1 .. Len(t.node)
    BY <1>1 DEF TableType, Nodes
  <2> QED BY <2>1, <1>3, <1>4, Replaced DEF Nodes
<1>6. t.free \in Nat
  BY <1>1, TypeFacts
<1>7. PICK u : u = Relinked(t, node, t.free)
  OBVIOUS
<1>8. u = [t EXCEPT !.node[m] = Entry(k, v, t.node[m].next)]
  BY <1>1, <1>2, <1>4, <1>7 DEF TableType, Relinked
<1>9. /\ TableType(u) /\ u.node = node /\ u.array = t.array /\ u.free = t.free
      /\ Nodes(u) = Nodes(t) /\ \A x : InArray(u, x) <=> InArray(t, x)
  BY <1>1, <1>5, <1>6, <1>7, RelinkedFacts
<1>10. Path(u, h, d) /\ Placed(u, h, d)
  <2>1. Reused(t, k, m, u)
    BY <1>3, <1>5, <1>9 DEF Reused
  <2> QED BY <2>1, <1>1, ReusePlaced
<1>11. Good(u)
  BY <1>9, <1>10 DEF Good
<1>12. HasVal(u, k, v)
  BY <1>3, <1>5, <1>9 DEF HasVal
<1>13. ASSUME NEW x \in Keys \ {k}, NEW w \in Values PROVE HasVal(u, x, w) <=> HasVal(t, x, w)
  <2>1. w # Nil
    BY LuaTableAssumption
  <2> QED BY <2>1, <1>3, <1>5, <1>9 DEF HasVal
<1>14. KeysOf(u) \subseteq KeysOf(t) \cup {k}
  BY <1>3, <1>5, <1>9 DEF KeysOf, Keyed
<1>15. Live(t) /\ v # Nil => Live(u)
  BY <1>3, <1>5, <1>9 DEF Live, Keyed
<1> QED BY <1>5, <1>8, <1>9, <1>11, <1>12, <1>13, <1>14, <1>15, ChangedNodes

LEMMA BehindChanges ==
  ASSUME NEW t, Good(t), NEW k \in Keys, ~InArray(t, k), Having(t, k, FALSE) = {},
         NEW v \in Values \cup {Nil}, NEW m \in Nodes(t), m = MainPosition(t, k), t.node[m].val # Nil,
         Home(t, m) = m, NEW p, p = FreePos(t), p # 0
  PROVE  Changed(t, [t EXCEPT !.node = [t.node EXCEPT ![p] = Entry(k, v, t.node[m].next), ![m].next = p],
                              !.free = p], k, v)
<1>1. PICK h, d : TableType(t) /\ Path(t, h, d) /\ Placed(t, h, d)
  BY DEF Good
<1>2. /\ p \in Nodes(t) /\ p < t.free /\ p \notin Keyed(t)
      /\ \A x \in Nodes(t) : x > p /\ x < t.free => x \in Keyed(t)
  <2>1. t.free <= Len(t.node) + 1
    BY <1>1 DEF Placed
  <2> QED BY <1>1, <2>1, FreePosFacts DEF Keyed
<1>3. m \in Keyed(t) /\ ~t.node[m].dead /\ m # p
  <2>1. m \in Keyed(t)
    BY <1>1 DEF Placed, FreeNode
  <2> QED BY <1>1, <1>2, <2>1 DEF Placed
<1>4. PICK e : e = Entry(k, v, t.node[m].next)
  OBVIOUS
<1>5. e \in NodeType /\ e.key = k /\ e.val = v /\ e.next = t.node[m].next /\ e.dead = FALSE
  <2>1. t.node[m].next \in Nat
    BY <1>1, TypeFacts
  <2> QED BY <1>4, <2>1 DEF Entry, NodeType
<1>6. PICK f : f = [t.node[m] EXCEPT !.next = p]
  OBVIOUS
<1>7. /\ p \in Nat /\ f \in NodeType /\ f.key = t.node[m].key /\ f.val = t.node[m].val
      /\ f.dead = t.node[m].dead /\ f.next = p
  <2>1. t.node[m] \in NodeType /\ p \in Nat
    BY <1>1, <1>2, TypeFacts DEF Nodes
  <2> QED BY <1>6, <2>1 DEF NodeType
<1>8. PICK node1 : node1 = [t.node EXCEPT ![p] = e]
  OBVIOUS
<1>9. PICK node : node = [node1 EXCEPT ![m] = f]
  OBVIOUS
<1>10. /\ node \in Seq(NodeType) /\ Len(node) = Len(t.node) /\ node[p] = e /\ node[m] = f
       /\ \A x \in Nodes(t) : x # m /\ x # p => node[x] = t.node[x]
  <2>1. t.node \in Seq(NodeType) /\ m \in 1 .. Len(t.node) /\ p \in 1 .. Len(t.node)
    BY <1>1, <1>2 DEF TableType, Nodes
  <2>2. /\ node1 \in Seq(NodeType) /\ Len(node1) = Len(t.node)
        /\ node1[p] = e /\ \A x \in 1 .. Len(t.node) : x # p => node1[x] = t.node[x]
    BY <2>1, <1>5, <1>8, Replaced
  <2>3. m \in 1 .. Len(node1)
    BY <2>1, <2>2
  <2>4. /\ node \in Seq(NodeType) /\ Len(node) = Len(node1)
        /\ node[m] = f /\ \A x \in 1 .. Len(node1) : x # m => node[x] = node1[x]
    BY <2>2, <2>3, <1>7, <1>9, Replaced
  <2> QED BY <2>1, <2>2, <2>4, <1>3 DEF Nodes
<1>11. node = [t.node EXCEPT ![p] = Entry(k, v, t.node[m].next), ![m].next = p]
  <2>1. m \in DOMAIN t.node /\ p \in DOMAIN t.node
    BY <1>1, <1>2, TypeFacts
  <2>2. node1[m] = t.node[m]
    BY <2>1, <1>3, <1>8
  <2>3. node = [node1 EXCEPT ![m] = [node1[m] EXCEPT !.next = p]]
    BY <2>2, <1>6, <1>9
  <2> QED BY <2>3, <1>4, <1>8
<1>12. PICK u : u = Relinked(t, node, p)
  OBVIOUS
<1>13. u = [t EXCEPT !.node = [t.node EXCEPT ![p] = Entry(k, v, t.node[m].next), ![m].next = p], !.free = p]
  BY <1>11, <1>12 DEF Relinked
<1>14. /\ TableType(u) /\ u.node = node /\ u.array = t.array /\ u.free = p
       /\ Nodes(u) = Nodes(t) /\ \A x : InArray(u, x) <=> InArray(t, x)
  BY <1>1, <1>7, <1>10, <1>12, RelinkedFacts
<1>15. \E h2, d2 : Path(u, h2, d2) /\ Placed(u, h2, d2)
  <2>1. /\ \A x \in Nodes(t) : x # m /\ x # p => u.node[x] = t.node[x]
        /\ u.node[m].key = t.node[m].key /\ ~u.node[m].dead /\ u.node[m].next = p
        /\ u.node[p].key = k /\ ~u.node[p].dead /\ u.node[p].next = t.node[m].next
        /\ Len(u.node) = Len(t.node)
    BY <1>3, <1>5, <1>7, <1>10, <1>14
  <2>2. /\ TableType(u) /\ Nodes(u) = Nodes(t) /\ u.free = p
        /\ \A x : InArray(u, x) <=> InArray(t, x)
    BY <1>14
  <2>3. /\ TableType(t) /\ Path(t, h, d) /\ Placed(t, h, d)
        /\ k \in Keys /\ ~InArray(t, k) /\ Having(t, k, FALSE) = {}
        /\ m \in Keyed(t) /\ m = MainPosition(t, k) /\ Home(t, m) = m /\ ~t.node[m].dead
        /\ p \in Nodes(t) /\ p \notin Keyed(t) /\ \A x \in Nodes(t) : x > p /\ x < t.free => x \in Keyed(t)
    BY <1>1, <1>2, <1>3
  <2>4. Entering(t, h, d, k, m, p, u) /\ Home(t, m) = m
    BY <2>1, <2>2, <2>3 DEF Entering
  <2>5. LinkedBehind(t, k, m, p, u)
    BY <2>1 DEF LinkedBehind
  <2> QED BY <2>4, <2>5, BehindPlaced
<1>16. Good(u)
  BY <1>14, <1>15 DEF Good
<1>17. HasVal(u, k, v)
  BY <1>2, <1>5, <1>10, <1>14 DEF HasVal
<1>18. ASSUME NEW x \in Keys \ {k}, NEW w \in Values PROVE HasVal(u, x, w) <=> HasVal(t, x, w)
  <2>1. \A q \in Nodes(t) : q # p =>
          u.node[q].key = t.node[q].key /\ u.node[q].val = t.node[q].val /\ u.node[q].dead = t.node[q].dead
    BY <1>3, <1>7, <1>10, <1>14
  <2>2. u.node[p].key # x /\ t.node[p].key # x
    BY <1>2, <1>5, <1>10, <1>14, LuaTableAssumption DEF Keyed
  <2> QED BY <2>1, <2>2, <1>14 DEF HasVal
<1>19. KeysOf(u) \subseteq KeysOf(t) \cup {k}
  BY <1>3, <1>5, <1>7, <1>10, <1>14 DEF KeysOf, Keyed
<1>20. Live(t) /\ v # Nil => Live(u)
  BY <1>3, <1>5, <1>7, <1>10, <1>14 DEF Live, Keyed
<1> QED BY <1>10, <1>13, <1>14, <1>16, <1>17, <1>18, <1>19, <1>20, ChangedNodes

\* The node that leads to m: the one that Moved finds on the chain m is in.
LEMMA Predecessor ==
  ASSUME NEW t, TableType(t), NEW h, NEW d, Path(t, h, d), Placed(t, h, d),
         NEW m \in Keyed(t), Home(t, m) # m,
         NEW b, b = CHOOSE q \in Range(Chain(t, Home(t, m))) : q # 0 /\ t.node[q].next = m
  PROVE  b \in Nodes(t) /\ t.node[b].next = m
<1>1. PICK c : c = Home(t, m)
  OBVIOUS
<1>2. m \in Nodes(t) /\ c \in Nodes(t) /\ h[c] = h[m] /\ d[c] <= d[m] /\ c # m
  BY <1>1 DEF Placed, Keyed
<1>3. /\ h \in [Nodes(t) -> Nat] /\ d \in [Nodes(t) -> Nat]
      /\ \A x, y \in Nodes(t) : h[x] = h[y] /\ d[x] = d[y] => x = y
      /\ \A x, y \in Nodes(t) : t.node[x].next = y <=> h[y] = h[x] /\ d[y] = d[x] + 1
      /\ \A x \in Nodes(t) : \A e \in 0 .. d[x] : \E q \in Nodes(t) : h[q] = h[x] /\ d[q] = e
  BY DEF Path
<1>4. d[c] < d[m] /\ d[c] \in Nat /\ d[m] \in Nat
  BY <1>2, <1>3
<1>5. PICK q \in Nodes(t) : h[q] = h[m] /\ d[q] = d[m] - 1
  <2>1. d[m] - 1 \in 0 .. d[m]
    BY <1>4
  <2> QED BY <2>1, <1>2, <1>3
<1>6. t.node[q].next = m
  <2>1. d[m] = d[q] + 1
    BY <1>4, <1>5
  <2> QED BY <2>1, <1>2, <1>3, <1>5
<1>7. PICK ch : ch = Chain(t, c)
  OBVIOUS
<1>8. /\ DOMAIN ch = 0 .. Len(t.node)
      /\ \A n \in 0 .. Len(t.node) : ch[n] # 0 => ch[n] \in Nodes(t)
      /\ d[q] - d[c] \in 0 .. Len(t.node) /\ ch[d[q] - d[c]] = q
  <2>1. h[q] = h[c] /\ d[c] <= d[q]
    BY <1>2, <1>4, <1>5
  <2> QED BY <2>1, <1>2, <1>7, ChainFacts
<1>9. q \in Range(ch) /\ q # 0
  BY <1>8 DEF Range, Nodes
<1>10. b \in Range(ch) /\ b # 0 /\ t.node[b].next = m
  BY <1>1, <1>6, <1>7, <1>9
<1>11. b \in Nodes(t)
  BY <1>8, <1>10 DEF Range
<1> QED BY <1>10, <1>11

LEMMA MoveChanges ==
  ASSUME NEW t, Good(t), NEW k \in Keys, ~InArray(t, k), Having(t, k, FALSE) = {},
         NEW v \in Values \cup {Nil}, NEW m \in Nodes(t), m = MainPosition(t, k), t.node[m].val # Nil,
         Home(t, m) # m, NEW p, p = FreePos(t), p # 0
  PROVE  Changed(t, [t EXCEPT !.node = [Moved(t, m, p) EXCEPT ![m] = Entry(k, v, 0)], !.free = p], k, v)
<1>1. PICK h, d : TableType(t) /\ Path(t, h, d) /\ Placed(t, h, d)
  BY DEF Good
<1>2. /\ p \in Nodes(t) /\ p < t.free /\ p \notin Keyed(t)
      /\ \A x \in Nodes(t) : x > p /\ x < t.free => x \in Keyed(t)
  <2>1. t.free <= Len(t.node) + 1
    BY <1>1 DEF Placed
  <2> QED BY <1>1, <2>1, FreePosFacts DEF Keyed
<1>3. m \in Keyed(t) /\ ~t.node[m].dead /\ m # p
  <2>1. m \in Keyed(t)
    BY <1>1 DEF Placed, FreeNode
  <2> QED BY <1>1, <1>2, <2>1 DEF Placed
<1>4. PICK b : b = CHOOSE q \in Range(Chain(t, Home(t, m))) : q # 0 /\ t.node[q].next = m
  OBVIOUS
<1>5. b \in Nodes(t) /\ t.node[b].next = m
  BY <1>1, <1>3, <1>4, Predecessor
<1>6. b # m /\ b # p
  <2>1. \A q \in Nodes(t) : t.node[q].next = m <=> h[m] = h[q] /\ d[m] = d[q] + 1
    BY <1>1 DEF Path
  <2>2. d[m] \in Nat
    BY <1>1 DEF Path
  <2>3. t.node[p].next = 0 /\ m # 0
    BY <1>1, <1>2, FreeAlone DEF Nodes
  <2> QED BY <2>1, <2>2, <2>3, <1>5
<1>7. PICK e : e = Entry(k, v, 0)
  OBVIOUS
<1>8. e \in NodeType /\ e.key = k /\ e.val = v /\ e.next = 0 /\ e.dead = FALSE
  BY <1>7 DEF Entry, NodeType
<1>9. PICK f : f = [t.node[b] EXCEPT !.next = p]
  OBVIOUS
<1>10. /\ p \in Nat /\ f \in NodeType /\ f.key = t.node[b].key /\ f.val = t.node[b].val
       /\ f.dead = t.node[b].dead /\ f.next = p
  <2>1. t.node[b] \in NodeType /\ p \in Nat
    BY <1>1, <1>2, <1>5, TypeFacts DEF Nodes
  <2> QED BY <1>9, <2>1 DEF NodeType
<1>11. PICK node1 : node1 = [t.node EXCEPT ![b] = f]
  OBVIOUS
<1>12. PICK node2 : node2 = [node1 EXCEPT ![p] = t.node[m]]
  OBVIOUS
<1>13. PICK node : node = [node2 EXCEPT ![m] = e]
  OBVIOUS
<1>14. /\ node \in Seq(NodeType) /\ Len(node) = Len(t.node)
       /\ node[b] = f /\ node[p] = t.node[m] /\ node[m] = e
       /\ \A x \in Nodes(t) : x # m /\ x # p /\ x # b => node[x] = t.node[x]
  <2>1. /\ t.node \in Seq(NodeType) /\ m \in 1 .. Len(t.node) /\ p \in 1 .. Len(t.node)
        /\ b \in 1 .. Len(t.node) /\ t.node[m] \in NodeType
    BY <1>1, <1>2, <1>5, TypeFacts DEF TableType, Nodes
  <2>2. /\ node1 \in Seq(NodeType) /\ Len(node1) = Len(t.node)
        /\ node1[b] = f /\ \A x \in 1 .. Len(t.node) : x # b => node1[x] = t.node[x]
    BY <2>1, <1>10, <1>11, Replaced
  <2>3. p \in 1 .. Len(node1)
    BY <2>1, <2>2
  <2>4. /\ node2 \in Seq(NodeType) /\ Len(node2) = Len(node1)
        /\ node2[p] = t.node[m] /\ \A x \in 1 .. Len(node1) : x # p => node2[x] = node1[x]
    BY <2>1, <2>2, <2>3, <1>12, Replaced
  <2>5. m \in 1 .. Len(node2)
    BY <2>1, <2>2, <2>4
  <2>6. /\ node \in Seq(NodeType) /\ Len(node) = Len(node2)
        /\ node[m] = e /\ \A x \in 1 .. Len(node2) : x # m => node[x] = node2[x]
    BY <2>4, <2>5, <1>8, <1>13, Replaced
  <2> QED BY <2>1, <2>2, <2>4, <2>6, <1>3, <1>6 DEF Nodes
<1>15. node = [Moved(t, m, p) EXCEPT ![m] = Entry(k, v, 0)]
  <2>1. /\ DOMAIN t.node = Nodes(t) /\ DOMAIN node1 = Nodes(t) /\ DOMAIN node2 = Nodes(t)
        /\ m \in Nodes(t)
    BY <1>1, <1>11, <1>12, TypeFacts
  <2>2. node1 = [t.node EXCEPT ![b].next = p]
    BY <1>9, <1>11
  <2>3. Moved(t, m, p) = [t.node EXCEPT ![b].next = p, ![p] = t.node[m], ![m] = FreeNode]
    BY <1>4 DEF Moved, Home
  <2>4. Moved(t, m, p) = [node2 EXCEPT ![m] = FreeNode]
    BY <2>2, <2>3, <1>12
  <2>5. [[node2 EXCEPT ![m] = FreeNode] EXCEPT ![m] = e] = [node2 EXCEPT ![m] = e]
    BY <2>1
  <2> QED BY <2>4, <2>5, <1>7, <1>13
<1>16. PICK u : u = Relinked(t, node, p)
  OBVIOUS
<1>17. u = [t EXCEPT !.node = [Moved(t, m, p) EXCEPT ![m] = Entry(k, v, 0)], !.free = p]
  BY <1>15, <1>16 DEF Relinked
<1>18. /\ TableType(u) /\ u.node = node /\ u.array = t.array /\ u.free = p
       /\ Nodes(u) = Nodes(t) /\ \A x : InArray(u, x) <=> InArray(t, x)
  BY <1>1, <1>10, <1>14, <1>16, RelinkedFacts
<1>19. \E h2, d2 : Path(u, h2, d2) /\ Placed(u, h2, d2)
  <2>1. Entering(t, h, d, k, m, p, u)
    BY <1>1, <1>2, <1>3, <1>14, <1>18 DEF Entering
  <2>2. MovedAway(t, k, m, p, b, u)
    BY <1>5, <1>6, <1>8, <1>10, <1>14, <1>18 DEF MovedAway
  <2> QED BY <2>1, <2>2, MovePlaced
<1>20. Good(u)
  BY <1>18, <1>19 DEF Good
<1>21. HasVal(u, k, v)
  BY <1>8, <1>14, <1>18 DEF HasVal
<1>22. t.node[m].key # k
  BY DEF Home
<1>23. \A q \in Nodes(t) : q # m /\ q # p =>
         u.node[q].key = t.node[q].key /\ u.node[q].val = t.node[q].val /\ u.node[q].dead = t.node[q].dead
  BY <1>10, <1>14, <1>18
<1>24. ASSUME NEW x \in Keys \ {k}, NEW w \in Values PROVE HasVal(u, x, w) <=> HasVal(t, x, w)
  <2>1. u.node[m].key # x /\ t.node[p].key # x
    BY <1>2, <1>8, <1>14, <1>18, LuaTableAssumption DEF Keyed
  <2>2. u.node[p] = t.node[m]
    BY <1>14, <1>18
  <2>3. ASSUME HasVal(u, x, w) PROVE HasVal(t, x, w)
    <3>1. PICK q \in Nodes(t) : u.node[q].key = x /\ ~u.node[q].dead /\ u.node[q].val = w
      BY <2>3, <1>18 DEF HasVal
    <3>2. CASE q = p
      BY <3>1, <3>2, <2>2 DEF HasVal
    <3>3. CASE q # p
      BY <3>1, <3>3, <2>1, <1>23 DEF HasVal
    <3> QED BY <3>2, <3>3
  <2>4. ASSUME HasVal(t, x, w) PROVE HasVal(u, x, w)
    <3>1. PICK q \in Nodes(t) : t.node[q].key = x /\ ~t.node[q].dead /\ t.node[q].val = w
      BY <2>4 DEF HasVal
    <3>2. CASE q = m
      <4>1. u.node[p].key = x /\ ~u.node[p].dead /\ u.node[p].val = w /\ p \in Nodes(u)
        BY <3>1, <3>2, <2>2, <1>2, <1>18
      <4> QED BY <4>1 DEF HasVal
    <3>3. CASE q # m
      BY <3>1, <3>3, <2>1, <1>18, <1>23 DEF HasVal
    <3> QED BY <3>2, <3>3
  <2> QED BY <2>3, <2>4
<1>25. KeysOf(u) \subseteq KeysOf(t) \cup {k}
  <2>1. ASSUME NEW q \in Keyed(u) PROVE u.node[q].key \in KeysOf(t) \cup {k}
    <3>1. q \in Nodes(t) /\ u.node[q].key # NoKey
      BY <2>1, <1>18 DEF Keyed
    <3>2. CASE q = m
      BY <3>2, <1>8, <1>14, <1>18
    <3>3. CASE q = p
      BY <3>3, <1>3, <1>14, <1>18 DEF KeysOf
    <3>4. CASE q # m /\ q # p
      BY <3>1, <3>4, <1>23 DEF KeysOf, Keyed
    <3> QED BY <3>2, <3>3, <3>4
  <2> QED BY <2>1 DEF KeysOf
<1>26. Live(t) /\ v # Nil => Live(u)
  <2>1. ASSUME NEW q \in Keyed(u), Live(t), v # Nil PROVE u.node[q].val # Nil
    <3>1. q \in Nodes(t) /\ u.node[q].key # NoKey
      BY <2>1, <1>18 DEF Keyed
    <3>2. CASE q = m
      BY <2>1, <3>2, <1>8, <1>14, <1>18
    <3>3. CASE q = p
      BY <2>1, <3>3, <1>3, <1>14, <1>18 DEF Live
    <3>4. CASE q # m /\ q # p
      BY <2>1, <3>1, <3>4, <1>23 DEF Live, Keyed
    <3> QED BY <3>2, <3>3, <3>4
  <2> QED BY <2>1 DEF Live
<1> QED BY <1>14, <1>17, <1>18, <1>20, <1>21, <1>24, <1>25, <1>26, ChangedNodes

LEMMA NewKeyChanges ==
  ASSUME NEW t, Good(t), NEW k \in Keys, ~InArray(t, k), Having(t, k, FALSE) = {},
         NEW v \in Values \cup {Nil}, HasRoom(t, k)
  PROVE  Changed(t, NewKey(t, k, v), k, v)
<1>1. t.node # <<>> /\ Len(t.node) \in Nat \ {0}
  BY TypeFacts DEF Good, HasRoom
<1>2. PICK m \in Nodes(t) : m = MainPosition(t, k)
  BY <1>1, MainPositionType
<1>3. PICK p : p = FreePos(t)
  OBVIOUS
<1>4. CASE t.node[m].val = Nil
  <2>1. NewKey(t, k, v) = [t EXCEPT !.node[m] = Entry(k, v, t.node[m].next)]
    BY <1>2, <1>4 DEF NewKey
  <2>2. Changed(t, [t EXCEPT !.node[m] = Entry(k, v, t.node[m].next)], k, v)
    BY <1>2, <1>4, ReuseChanges
  <2> QED BY <2>1, <2>2
<1>5. CASE t.node[m].val # Nil /\ Home(t, m) # m
  <2>1. NewKey(t, k, v) = [t EXCEPT !.node = [Moved(t, m, p) EXCEPT ![m] = Entry(k, v, 0)], !.free = p]
    BY <1>2, <1>3, <1>5 DEF NewKey, Home
  <2>2. p # 0
    BY <1>2, <1>3, <1>5 DEF HasRoom
  <2>3. Changed(t, [t EXCEPT !.node = [Moved(t, m, p) EXCEPT ![m] = Entry(k, v, 0)], !.free = p], k, v)
    BY <1>2, <1>3, <1>5, <2>2, MoveChanges
  <2> QED BY <2>1, <2>3
<1>6. CASE t.node[m].val # Nil /\ Home(t, m) = m
  <2> DEFINE u == [t EXCEPT !.node = [t.node EXCEPT ![p] = Entry(k, v, t.node[m].next), ![m].next = p],
                            !.free = p]
  <2>1. NewKey(t, k, v) = u
    BY <1>2, <1>3, <1>6 DEF NewKey, Home
  <2>2. p # 0
    BY <1>2, <1>3, <1>6 DEF HasRoom
  <2>3. Changed(t, u, k, v)
    BY <1>2, <1>3, <1>6, <2>2, BehindChanges
  <2> HIDE DEF u
  <2> QED BY <2>1, <2>3
<1> QED BY <1>4, <1>5, <1>6

\* Two tables have the same keys in the same places.
Alike(t, u) ==
  /\ TableType(t) /\ TableType(u) /\ Len(u.array) = Len(t.array) /\ Len(u.node) = Len(t.node)
  /\ \A p \in Nodes(t) : u.node[p].key = t.node[p].key
  /\ \E h, d : Path(t, h, d) /\ Placed(t, h, d) /\ Path(u, h, d) /\ Placed(u, h, d)

LEMMA AssignChanges ==
  ASSUME NEW t, Good(t), NEW k \in Keys, NEW p \in Having(t, k, FALSE), NEW v \in Values \cup {Nil}
  PROVE  /\ Changed(t, [t EXCEPT !.node[p].val = v], k, v)
         /\ Alike(t, [t EXCEPT !.node[p].val = v])
<1>1. PICK h, d : TableType(t) /\ Path(t, h, d) /\ Placed(t, h, d)
  BY DEF Good
<1>2. p \in Nodes(t) /\ t.node[p].key = k /\ ~t.node[p].dead /\ ~InArray(t, k)
  BY GetFacts DEF Having
<1>3. PICK f : f = [t.node[p] EXCEPT !.val = v]
  OBVIOUS
<1>4. /\ f \in NodeType /\ f.key = k /\ f.val = v
      /\ f.dead = t.node[p].dead /\ f.next = t.node[p].next
  <2>1. t.node[p] \in NodeType
    BY <1>1, <1>2, TypeFacts
  <2> QED BY <1>2, <1>3, <2>1 DEF NodeType
<1>5. PICK node : node = [t.node EXCEPT ![p] = f]
  OBVIOUS
<1>6. /\ node \in Seq(NodeType) /\ Len(node) = Len(t.node)
      /\ node[p] = f /\ \A x \in Nodes(t) : x # p => node[x] = t.node[x]
  <2>1. t.node \in Seq(NodeType) /\ p \in 1 .. Len(t.node)
    BY <1>1, <1>2 DEF TableType, Nodes
  <2> QED BY <2>1, <1>4, <1>5, Replaced DEF Nodes
<1>7. t.free \in Nat
  BY <1>1, TypeFacts
<1>8. PICK u : u = Relinked(t, node, t.free)
  OBVIOUS
<1>9. u = [t EXCEPT !.node[p].val = v]
  BY <1>1, <1>3, <1>5, <1>8 DEF TableType, Relinked
<1>10. /\ TableType(u) /\ u.node = node /\ u.array = t.array /\ u.free = t.free
       /\ Nodes(u) = Nodes(t) /\ \A x : InArray(u, x) <=> InArray(t, x)
  BY <1>1, <1>6, <1>7, <1>8, RelinkedFacts
<1>11. p \in Keyed(t) /\ t.node[p].key # NoKey
  BY <1>2, LuaTableAssumption DEF Keyed
<1>12. ASSUME NEW x \in Nodes(t)
       PROVE  /\ u.node[x].key = t.node[x].key /\ u.node[x].next = t.node[x].next
              /\ t.node[x].dead => u.node[x].dead
              /\ x \notin Keyed(t) => u.node[x] = t.node[x]
              /\ x \in Keyed(t) /\ u.node[x].dead => u.node[x].val = Nil /\ u.node[x].key \in Objects
  <2>1. CASE x = p
    BY <2>1, <1>2, <1>4, <1>6, <1>10, <1>11
  <2>2. CASE x # p
    BY <2>2, <1>1, <1>6, <1>10 DEF Placed
  <2> QED BY <2>1, <2>2
<1>13. Path(u, h, d) /\ Placed(u, h, d)
  <2>1. Len(u.node) = Len(t.node) /\ \A x : InArray(u, x) => InArray(t, x)
    BY <1>6, <1>10
  <2> QED BY <1>1, <1>10, <1>12, <2>1, ValuesPlaced
<1>14. Good(u)
  BY <1>10, <1>13 DEF Good
<1>15. HasVal(u, k, v)
  BY <1>2, <1>4, <1>6, <1>10 DEF HasVal
<1>16. ASSUME NEW x \in Keys \ {k}, NEW w \in Values PROVE HasVal(u, x, w) <=> HasVal(t, x, w)
  <2>1. \A q \in Nodes(t) : q # p => u.node[q] = t.node[q]
    BY <1>6, <1>10
  <2>2. u.node[p].key # x /\ t.node[p].key # x
    BY <1>2, <1>12
  <2> QED BY <2>1, <2>2, <1>10 DEF HasVal
<1>17. KeysOf(u) \subseteq KeysOf(t) \cup {k}
  BY <1>10, <1>12 DEF KeysOf, Keyed
<1>18. Live(t) /\ v # Nil => Live(u)
  <2>1. Keyed(u) = Keyed(t)
    BY <1>10, <1>12 DEF Keyed
  <2>2. \A x \in Nodes(t) : u.node[x].val = IF x = p THEN v ELSE t.node[x].val
    BY <1>4, <1>6, <1>10
  <2>3. Keyed(t) \subseteq Nodes(t)
    BY DEF Keyed
  <2> QED BY <2>1, <2>2, <2>3 DEF Live
<1>19. Changed(t, u, k, v)
  BY <1>2, <1>6, <1>10, <1>14, <1>15, <1>16, <1>17, <1>18, ChangedNodes
<1>20. Alike(t, u)
  BY <1>1, <1>6, <1>10, <1>12, <1>13 DEF Alike
<1> QED BY <1>9, <1>19, <1>20

LEMMA IndexFacts ==
  /\ IsFiniteSet(Indices) /\ Cardinality(Indices) \in Nat /\ Indices = 1 .. Cardinality(Indices)
  /\ \A k \in Indices : k \in Nat /\ k >= 1
<1>1. IsFiniteSet(Keys) /\ Indices \in SUBSET Keys
  BY LuaTableAssumption DEF Keys
<1>2. IsFiniteSet(Indices)
  BY <1>1, FS_Subset
<1>3. Cardinality(Indices) \in Nat
  BY <1>2, FS_CardinalityType
<1>4. Indices = 1 .. Cardinality(Indices)
  BY LuaTableAssumption
<1>5. PICK n \in Nat : n = Cardinality(Indices)
  BY <1>3
<1>6. \A k \in Indices : k \in Nat /\ k >= 1
  BY <1>4, <1>5
<1> QED BY <1>2, <1>3, <1>4, <1>6

LEMMA InArrayFacts ==
  ASSUME NEW t, t.array \in Seq(Values \cup {Nil}), NEW k, InArray(t, k)
  PROVE  k \in Indices /\ k \in 1 .. Len(t.array)
<1>1. k \in Indices /\ k <= Len(t.array)
  BY DEF InArray
<1>2. k \in Nat /\ k >= 1
  BY <1>1, IndexFacts
<1>3. Len(t.array) \in Nat
  BY LenProperties
<1> QED BY <1>1, <1>2, <1>3

LEMMA ArrayChanges ==
  ASSUME NEW t, Good(t), NEW k \in Keys, InArray(t, k), NEW v \in Values \cup {Nil}
  PROVE  Changed(t, [t EXCEPT !.array[k] = v], k, v) /\ Alike(t, [t EXCEPT !.array[k] = v])
<1>1. PICK h, d : TableType(t) /\ Path(t, h, d) /\ Placed(t, h, d)
  BY DEF Good
<1>2. k \in Indices /\ k \in 1 .. Len(t.array)
  <2>1. t.array \in Seq(Values \cup {Nil})
    BY <1>1 DEF TableType
  <2> QED BY <2>1, InArrayFacts
<1>3. PICK u : u = [t EXCEPT !.array[k] = v]
  OBVIOUS
<1>4. /\ u.node = t.node /\ u.free = t.free /\ u.array = [t.array EXCEPT ![k] = v]
      /\ u \in [array : {u.array}, node : {u.node}, free : {u.free}]
  BY <1>1, <1>3 DEF TableType
<1>5. /\ u.array \in Seq(Values \cup {Nil}) /\ Len(u.array) = Len(t.array) /\ u.array[k] = v
      /\ \A n \in 1 .. Len(t.array) : n # k => u.array[n] = t.array[n]
  <2>1. t.array \in Seq(Values \cup {Nil})
    BY <1>1 DEF TableType
  <2> QED BY <2>1, <1>2, <1>4, Replaced
<1>6. TableType(u)
  BY <1>1, <1>2, <1>4, <1>5 DEF TableType
<1>7. Nodes(u) = Nodes(t) /\ Keyed(u) = Keyed(t) /\ \A x : InArray(u, x) <=> InArray(t, x)
  BY <1>4, <1>5 DEF Nodes, Keyed, InArray
<1>8. Path(u, h, d) /\ Placed(u, h, d)
  <2>1. /\ \A p \in Nodes(t) : u.node[p] = t.node[p]
        /\ Keyed(t) \subseteq Nodes(t)
    BY <1>4 DEF Keyed
  <2>2. Path(u, h, d)
    BY <1>1, <1>6, <1>7, <2>1, PathSame
  <2>3. \A p : Home(u, p) = Home(t, p)
    BY <1>4, MainPositionSame DEF Home
  <2>4. Placed(u, h, d)
    BY <1>1, <1>4, <1>7, <2>3 DEF Placed
  <2> QED BY <2>2, <2>4
<1>9. Good(u)
  BY <1>6, <1>8 DEF Good
<1>10. ASSUME NEW x \in Keys PROVE Get(u, x) = IF x = k THEN v ELSE Get(t, x)
  <2>1. CASE InArray(t, x)
    <3>1. Get(u, x) = u.array[x] /\ Get(t, x) = t.array[x]
      BY <2>1, <1>7 DEF Get
    <3>2. x \in 1 .. Len(t.array)
      <4>1. t.array \in Seq(Values \cup {Nil})
        BY <1>1 DEF TableType
      <4> QED BY <2>1, <4>1, InArrayFacts
    <3> QED BY <3>1, <3>2, <1>5
  <2>2. CASE ~InArray(t, x)
    <3>1. /\ Get(u, x) \in Values \cup {Nil} /\ Get(t, x) \in Values \cup {Nil}
          /\ \A w \in Values : Get(u, x) = w <=> HasVal(u, x, w)
          /\ \A w \in Values : Get(t, x) = w <=> HasVal(t, x, w)
      BY <2>2, <1>7, <1>9, GetVal
    <3>2. \A w \in Values : HasVal(u, x, w) <=> HasVal(t, x, w)
      BY <1>4, <1>7 DEF HasVal
    <3>3. x # k
      BY <2>2
    <3> QED BY <3>1, <3>2, <3>3
  <2> QED BY <2>1, <2>2
<1>11. KeysOf(u) = KeysOf(t) /\ (Live(t) => Live(u))
  BY <1>4, <1>7 DEF KeysOf, Live
<1>12. Changed(t, u, k, v)
  BY <1>4, <1>5, <1>9, <1>10, <1>11 DEF Changed
<1>13. Alike(t, u)
  BY <1>1, <1>4, <1>5, <1>6, <1>8 DEF Alike
<1> QED BY <1>3, <1>12, <1>13

\* luaH_set and the assignment, where newkey does not rehash.
LEMMA StoredChanges ==
  ASSUME NEW t, Good(t), NEW k \in Keys, NEW v \in Values \cup {Nil},
         InArray(t, k) \/ NodeOf(t, k, FALSE) # 0 \/ HasRoom(t, k)
  PROVE  Changed(t, Stored(t, k, v), k, v) /\ (Get(t, k) # Nil => Alike(t, Stored(t, k, v)))
<1>1. CASE InArray(t, k)
  <2>1. Stored(t, k, v) = [t EXCEPT !.array[k] = v]
    BY <1>1 DEF Stored
  <2> QED BY <1>1, <2>1, ArrayChanges
<1>2. CASE ~InArray(t, k) /\ Having(t, k, FALSE) # {}
  <2>1. PICK p \in Having(t, k, FALSE) : TRUE
    BY <1>2
  <2>2. NodeOf(t, k, FALSE) = p /\ p # 0
    <3>1. NodeOf(t, k, FALSE) = p
      BY <2>1, GetFacts
    <3>2. Len(t.node) \in Nat /\ p \in 1 .. Len(t.node)
      BY <2>1, TypeFacts DEF Good, Having, Nodes
    <3>3. p # 0
      BY <3>2
    <3> QED BY <3>1, <3>3
  <2>3. Stored(t, k, v) = [t EXCEPT !.node[p].val = v]
    BY <1>2, <2>2 DEF Stored
  <2>4. Changed(t, [t EXCEPT !.node[p].val = v], k, v) /\ Alike(t, [t EXCEPT !.node[p].val = v])
    BY <2>1, AssignChanges
  <2> QED BY <2>3, <2>4
<1>3. CASE ~InArray(t, k) /\ Having(t, k, FALSE) = {}
  <2>1. NodeOf(t, k, FALSE) = 0
    BY <1>3, GetFacts
  <2>2. HasRoom(t, k) /\ Stored(t, k, v) = NewKey(t, k, v)
    BY <1>3, <2>1 DEF Stored
  <2>3. Get(t, k) = Nil
    BY <1>3, GetFacts
  <2>4. Changed(t, NewKey(t, k, v), k, v)
    BY <1>3, <2>2, NewKeyChanges
  <2> QED BY <2>2, <2>3, <2>4
<1> QED BY <1>1, <1>2, <1>3

-----------------------------------------------------------------------------
(* Resizing.  The nodes of a new table all have a value while the old       *)
(* entries are stored in it, so that there is one for each key.             *)

Fresh(a, size) == [array |-> a, node |-> NodeVector(size), free |-> Len(NodeVector(size)) + 1]
Unfilled(u, a, size) ==
  /\ Good(u) /\ u.array = a /\ Keyed(u) = {} /\ size <= Len(u.node)
  /\ \A x \in Keys : Get(u, x) = IF InArray(u, x) THEN a[x] ELSE Nil

LEMMA NewGood ==
  ASSUME NEW size \in 0 .. twoto[MaxBits], NEW a \in Seq(Values \cup {Nil}),
         \A n \in 1 .. Len(a) : n \notin Indices => a[n] = Nil
  PROVE  Unfilled(Fresh(a, size), a, size)
<1>0. PICK u : u = Fresh(a, size) /\ u = [array |-> a, node |-> NodeVector(size), free |-> Len(NodeVector(size)) + 1]
  BY DEF Fresh
<1>1. /\ u.array = a /\ u.node \in Seq(NodeType) /\ u.free = Len(u.node) + 1
      /\ size <= Len(u.node) /\ Len(u.node) <= twoto[MaxBits]
      /\ \A p \in Nodes(u) : u.node[p] = FreeNode
  BY <1>0, NewNodes DEF Nodes
<1>2. Len(u.node) \in Nat
  BY <1>1, LenProperties
<1>3. TableType(u)
  BY <1>0, <1>1, <1>2 DEF TableType
<1>4. Keyed(u) = {}
  BY <1>1 DEF Keyed, FreeNode
<1>5. PICK N : N = Nodes(u) /\ \A p \in N : p \in Nat /\ p # 0 /\ p < u.free
  BY <1>1, <1>2 DEF Nodes
<1>6. PICK h : h = [p \in N |-> p]
  OBVIOUS
<1>7. PICK d : d = [p \in N |-> 0]
  OBVIOUS
<1>8. /\ h \in [N -> Nat] /\ d \in [N -> Nat] /\ \A p \in N : h[p] = p /\ d[p] = 0 /\ u.node[p].next = 0
  BY <1>1, <1>5, <1>6, <1>7 DEF FreeNode
<1>9. Path(u, h, d)
  <2>1. \A p \in N : \A e \in 0 .. d[p] : \E q \in N : h[q] = h[p] /\ d[q] = e
    BY <1>8
  <2>2. Cardinality(Keyed(u)) \in Nat
    BY <1>2, KeyedFinite
  <2>3. \A p, q \in N : u.node[p].next = q <=> h[q] = h[p] /\ d[q] = d[p] + 1
    BY <1>5, <1>8
  <2> QED BY <2>1, <2>2, <2>3, <1>5, <1>8 DEF Path
<1>10. Placed(u, h, d)
  BY <1>1, <1>2, <1>4, <1>5, <1>8 DEF Placed
<1>11. Good(u)
  BY <1>3, <1>9, <1>10 DEF Good
<1>12. ASSUME NEW x \in Keys PROVE Get(u, x) = IF InArray(u, x) THEN a[x] ELSE Nil
  <2>1. Having(u, x, FALSE) = {}
    BY <1>4, LuaTableAssumption DEF Having, Keyed
  <2>2. NodeOf(u, x, FALSE) = 0
    BY <2>1, <1>11, GetFacts
  <2> QED BY <2>2, <1>1 DEF Get
<1> QED BY <1>0, <1>1, <1>4, <1>11, <1>12 DEF Unfilled

\* A key that is not in a table whose nodes have a value finds room, if the keys in question
\* are no more than the nodes.
LEMMA RoomFor ==
  ASSUME NEW u, Good(u), Live(u), NEW U, IsFiniteSet(U), Cardinality(U) <= Len(u.node), KeysOf(u) \subseteq U,
         NEW k \in Keys, k \in U
  PROVE  NodeOf(u, k, FALSE) # 0 \/ HasRoom(u, k)
<1>1. PICK h, d : TableType(u) /\ Path(u, h, d) /\ Placed(u, h, d)
  BY DEF Good
<1>2. SUFFICES ASSUME NodeOf(u, k, FALSE) = 0 PROVE HasRoom(u, k)
  OBVIOUS
<1>3. PICK N \in Nat : N = Len(u.node)
  BY <1>1, TypeFacts
<1>4. Cardinality(U) \in Nat \ {0} /\ IsFiniteSet(U \ {k}) /\ Cardinality(U \ {k}) = Cardinality(U) - 1
  <2>1. Cardinality(U) \in Nat
    BY FS_CardinalityType
  <2>2. IsFiniteSet(U \ {k}) /\ Cardinality(U \ {k}) = Cardinality(U) - 1
    BY FS_RemoveElement
  <2>3. Cardinality(U \ {k}) \in Nat
    BY <2>2, FS_CardinalityType
  <2> QED BY <2>1, <2>2, <2>3
<1>5. \A p \in Keyed(u) : ~u.node[p].dead
  BY <1>1 DEF Placed, Live
<1>6. \A p \in Keyed(u) : u.node[p].key # k
  <2>1. Having(u, k, FALSE) = {}
    <3>1. \A p \in Having(u, k, FALSE) : p \in Nodes(u) /\ NodeOf(u, k, FALSE) = p
      BY GetFacts DEF Having
    <3>2. 0 \notin Nodes(u)
      BY DEF Nodes
    <3> QED BY <3>1, <3>2, <1>2
  <2> QED BY <2>1, <1>5 DEF Having, Keyed
<1>7. PICK p \in Nodes(u) : p \notin Keyed(u)
  <2>1. SUFFICES ASSUME Nodes(u) \subseteq Keyed(u) PROVE FALSE
    OBVIOUS
  <2>2. PICK S : S = Keyed(u)
    OBVIOUS
  <2>3. S = Nodes(u) /\ IsFiniteSet(S) /\ Cardinality(S) = N
    <3>1. S = Nodes(u) /\ Nodes(u) = 1 .. N
      BY <2>1, <2>2, <1>3 DEF Keyed, Nodes
    <3>2. IsFiniteSet(1 .. N) /\ Cardinality(1 .. N) = N
      BY FS_Interval
    <3> QED BY <3>1, <3>2
  <2>4. PICK T : T = U \ {k}
    OBVIOUS
  <2>5. PICK f : f = [x \in S |-> u.node[x].key]
    OBVIOUS
  <2>6. f \in [S -> T]
    BY <2>2, <2>4, <2>5, <1>6 DEF KeysOf
  <2>7. IsFiniteSet(T) /\ Cardinality(T) < Cardinality(S)
    BY <2>3, <2>4, <1>3, <1>4
  <2>8. PICK x \in S, y \in S : x # y /\ f[x] = f[y]
    BY <2>3, <2>6, <2>7, FS_PigeonHole
  <2>9. u.node[x].key = u.node[y].key
    BY <2>5, <2>8
  <2> QED BY <2>2, <2>8, <2>9, <1>1, <1>5 DEF Placed
<1>8. FreePos(u) # 0
  <2>1. p < u.free /\ u.node[p].key = NoKey
    BY <1>1, <1>7 DEF Placed, Keyed
  <2>2. u.free <= Len(u.node) + 1
    BY <1>1 DEF Placed
  <2>3. p \in Nat /\ p > 0
    BY <1>3 DEF Nodes
  <2> QED BY <1>1, <2>1, <2>2, <2>3, <1>7, FreePosFacts
<1>9. u.node # <<>>
  BY <1>1, <1>7, TypeFacts
<1> QED BY <1>8, <1>9 DEF HasRoom

LEMMA PowersGrow == \A n \in 0 .. MaxBits : twoto[n] <= twoto[MaxBits]
<1> DEFINE S == {m \in 0 .. MaxBits : \A n \in 0 .. m : twoto[n] <= twoto[m]}
<1>1. MaxBits \in Nat
  BY LuaTableAssumption
<1>2. 0 \in S
  BY <1>1, PowersPositive
<1>3. ASSUME NEW m \in 0 .. MaxBits - 1, m \in S PROVE m + 1 \in S
  <2>1. m + 1 \in 0 .. MaxBits /\ m + 1 # 0 /\ (m + 1) - 1 = m /\ m \in Nat /\ m \in 0 .. MaxBits
    BY <1>1
  <2>2. twoto[m + 1] = 2 * twoto[m] /\ twoto[m] \in Nat
    BY <2>1, PowerRule, PowersPositive
  <2>3. ASSUME NEW n \in 0 .. m + 1 PROVE twoto[n] <= twoto[m + 1]
    <3>1. CASE n = m + 1
      BY <2>2, <3>1
    <3>2. CASE n # m + 1
      <4>1. n \in 0 .. m /\ n \in 0 .. MaxBits
        BY <2>1, <3>2, <1>1
      <4>2. twoto[n] <= twoto[m] /\ twoto[n] \in Nat
        BY <4>1, <1>3, PowersPositive
      <4> QED BY <4>2, <2>2
    <3> QED BY <3>1, <3>2
  <2> QED BY <2>1, <2>3
<1>4. MaxBits \in S
  <2> HIDE DEF S
  <2>1. MaxBits \in 0 .. MaxBits
    BY <1>1
  <2> QED BY <1>1, <1>2, <1>3, <2>1, Induct
<1> QED BY <1>4

LEMMA ArraySizeType == ASSUME NEW ints PROVE ArraySize(ints) \in Nat
<1> DEFINE S == {0} \cup {s \in {twoto[n] : n \in 0 .. MaxBits} :
                  s \div 2 < Cardinality(ints) /\ Cardinality({k \in ints : k <= s}) > s \div 2}
<1>1. MaxBits \in Nat
  BY LuaTableAssumption
<1>2. twoto[MaxBits] \in Nat /\ \A n \in 0 .. MaxBits : twoto[n] \in Nat /\ twoto[n] <= twoto[MaxBits]
  BY <1>1, PowersPositive, PowersGrow
<1>3. S \subseteq Nat /\ S # {} /\ \A s \in S : s <= twoto[MaxBits]
  BY <1>2
<1>4. ArraySize(ints) = Max(S)
  BY DEF ArraySize
<1> HIDE DEF S
<1>5. Max(S) \in S
  BY <1>2, <1>3, MaxIsGreatest
<1> QED BY <1>3, <1>4, <1>5

\* The entries that resize stores again: those of the old table, except for the ones that
\* stay in the array part.
Stays(t, narray, k) == InArray(t, k) /\ k <= narray

Leaves(t, narray, old) ==
  /\ Len(old) \in Nat
  /\ \A i \in 1 .. Len(old) : old[i].val # Nil =>
       /\ old[i].key \in Keys /\ old[i].val \in Values
       /\ ~Stays(t, narray, old[i].key) /\ Get(t, old[i].key) = old[i].val
  /\ \A x \in Keys : Get(t, x) # Nil /\ ~Stays(t, narray, x) =>
       \E i \in 1 .. Len(old) : old[i].key = x /\ old[i].val # Nil

LEMMA LeavingFacts ==
  ASSUME NEW t, Good(t), NEW narray \in Nat
  PROVE  Leaves(t, narray, Leaving(t, narray))
<1>0. PICK old : old = Leaving(t, narray)
  OBVIOUS
<1>1. PICK h, d : TableType(t) /\ Path(t, h, d) /\ Placed(t, h, d)
  BY DEF Good
<1>2. PICK n \in Nat : n = Len(t.array)
  BY <1>1, TypeFacts
<1>3. PICK size \in Nat : size = Len(t.node)
  BY <1>1, TypeFacts
<1>4. old = [i \in 1 .. n + size |-> IF i <= n THEN Entry(i, IF i <= narray THEN Nil ELSE t.array[i], 0)
                                     ELSE t.node[n + size + 1 - i]]
  BY <1>0, <1>2, <1>3 DEF Leaving
<1>5. Len(old) = n + size
  BY <1>4
<1>6. ASSUME NEW i \in 1 .. n + size, old[i].val # Nil
      PROVE  /\ old[i].key \in Keys /\ old[i].val \in Values
             /\ ~Stays(t, narray, old[i].key) /\ Get(t, old[i].key) = old[i].val
  <2>1. CASE i <= n
    <3>1. old[i] = Entry(i, IF i <= narray THEN Nil ELSE t.array[i], 0)
      BY <1>4, <2>1
    <3>2. i > narray /\ old[i].key = i /\ old[i].val = t.array[i]
      BY <1>6, <3>1 DEF Entry
    <3>3. i \in 1 .. n
      BY <2>1
    <3>4. i \in Indices /\ t.array[i] \in Values
      BY <1>1, <1>2, <1>6, <3>2, <3>3, TypeFacts DEF TableType
    <3>5. Get(t, i) = t.array[i] /\ i \in Keys
      <4>1. i \in Keys
        BY <3>4 DEF Keys
      <4>2. InArray(t, i)
        BY <3>3, <3>4, <1>2 DEF InArray
      <4> QED BY <4>1, <4>2 DEF Get
    <3> QED BY <3>2, <3>3, <3>4, <3>5 DEF Stays
  <2>2. CASE i > n
    <3>1. PICK p : p = n + size + 1 - i
      OBVIOUS
    <3>2. p \in Nodes(t) /\ old[i] = t.node[p]
      <4>1. p \in 1 .. size
        BY <3>1, <2>2
      <4> QED BY <4>1, <3>1, <2>2, <1>3, <1>4 DEF Nodes
    <3>3. t.node[p].val \in Values /\ t.node[p].key \in Keys \cup {NoKey}
      BY <3>2, <1>1, <1>6, TypeFacts
    <3>4. p \in Keyed(t)
      BY <3>2, <1>1, <1>6 DEF Placed, FreeNode
    <3>5. ~t.node[p].dead /\ t.node[p].key \in Keys /\ ~InArray(t, t.node[p].key)
      BY <3>2, <3>3, <3>4, <1>1, <1>6 DEF Placed, Keyed
    <3>6. HasVal(t, t.node[p].key, t.node[p].val)
      BY <3>2, <3>5 DEF HasVal
    <3>7. Get(t, t.node[p].key) = t.node[p].val
      BY <3>5, <3>6, GetVal
    <3> QED BY <3>2, <3>3, <3>5, <3>7 DEF Stays
  <2> QED BY <2>1, <2>2
<1>7. ASSUME NEW x \in Keys, Get(t, x) # Nil, ~Stays(t, narray, x)
      PROVE  \E i \in 1 .. n + size : old[i].key = x /\ old[i].val # Nil
  <2>1. CASE InArray(t, x)
    <3>1. x \in 1 .. n /\ Get(t, x) = t.array[x]
      <4>1. t.array \in Seq(Values \cup {Nil})
        BY <1>1 DEF TableType
      <4> QED BY <2>1, <4>1, <1>2, InArrayFacts DEF Get
    <3>2. ~(x <= narray) /\ x \in 1 .. n + size /\ x <= n
      BY <2>1, <3>1, <1>7 DEF Stays
    <3>3. old[x] = Entry(x, t.array[x], 0)
      BY <3>2, <1>4
    <3>4. old[x].key = x /\ old[x].val # Nil
      BY <3>1, <3>3, <1>7 DEF Entry
    <3> QED BY <3>2, <3>4
  <2>2. CASE ~InArray(t, x)
    <3>0. Having(t, x, FALSE) # {}
      BY <2>2, <1>7, GetFacts
    <3>9. PICK p : p \in Having(t, x, FALSE)
      BY <3>0
    <3>1. p \in Having(t, x, FALSE) /\ Get(t, x) = t.node[p].val
      BY <3>9, GetFacts
    <3>2. p \in 1 .. size /\ t.node[p].key = x /\ t.node[p].val # Nil
      BY <3>1, <1>3, <1>7 DEF Having, Nodes
    <3>3. PICK i : i = n + size + 1 - p
      OBVIOUS
    <3>4. i \in 1 .. n + size /\ ~(i <= n) /\ n + size + 1 - i = p
      BY <3>2, <3>3
    <3>5. old[i] = t.node[p]
      BY <3>4, <1>4
    <3> QED BY <3>2, <3>4, <3>5
  <2> QED BY <2>1, <2>2
<1>8. Len(old) \in Nat /\ 1 .. Len(old) = 1 .. n + size
  BY <1>5
<1>9. \A i \in 1 .. Len(old) : old[i].val # Nil =>
        /\ old[i].key \in Keys /\ old[i].val \in Values
        /\ ~Stays(t, narray, old[i].key) /\ Get(t, old[i].key) = old[i].val
  BY <1>6, <1>8
<1>10. \A x \in Keys : Get(t, x) # Nil /\ ~Stays(t, narray, x) =>
         \E i \in 1 .. Len(old) : old[i].key = x /\ old[i].val # Nil
  BY <1>7, <1>8
<1> QED BY <1>0, <1>8, <1>9, <1>10 DEF Leaves

\* The recursive function of resize.
Folded(t, narray, nhash, old, N, f, u) ==
  /\ u = f[N]
  /\ f[0] = [New(0, nhash) EXCEPT !.array =
               [i \in 1 .. narray |-> IF i <= Len(t.array) THEN t.array[i] ELSE Nil]]
  /\ \A n \in 1 .. N : f[n] = IF old[n].val = Nil THEN f[n - 1]
                              ELSE Stored(f[n - 1], old[n].key, old[n].val)

LEMMA ResizeRule ==
  ASSUME NEW t, NEW narray, NEW nhash, NEW N \in Nat, N = Len(Leaving(t, narray))
  PROVE  \E f : Folded(t, narray, nhash, Leaving(t, narray), N, f, Resize(t, narray, nhash))
<1>0. PICK old : old = Leaving(t, narray) /\ N = Len(old)
  OBVIOUS
<1>1. PICK first : first = [New(0, nhash) EXCEPT !.array =
                              [i \in 1 .. narray |-> IF i <= Len(t.array) THEN t.array[i] ELSE Nil]]
  OBVIOUS
<1> DEFINE After(u, n) == IF old[n].val = Nil THEN u ELSE Stored(u, old[n].key, old[n].val)
           Rule(f, m) == \A n \in 0 .. m : f[n] = IF n = 0 THEN first ELSE After(f[n - 1], n)
           S == {m \in Nat : \E f : Rule(f, m)}
<1>2. 0 \in S
  <2>1. Rule([n \in {0} |-> first], 0)
    OBVIOUS
  <2> QED BY <2>1
<1>3. ASSUME NEW m \in 0 .. N - 1, m \in S PROVE m + 1 \in S
  <2>1. PICK f : Rule(f, m)
    BY <1>3
  <2> DEFINE g == [n \in 0 .. m + 1 |-> IF n = m + 1 THEN After(f[m], m + 1) ELSE f[n]]
  <2>2. ASSUME NEW n \in 0 .. m + 1 PROVE g[n] = IF n = 0 THEN first ELSE After(g[n - 1], n)
    <3>1. m \in Nat /\ n \in Nat /\ (n # 0 => n - 1 \in 0 .. m) /\ (n # m + 1 => n \in 0 .. m)
      OBVIOUS
    <3> HIDE DEF After
    <3>2. CASE n = m + 1
      <4>1. g[n] = After(f[m], m + 1) /\ g[n - 1] = f[m] /\ n # 0
        BY <3>1, <3>2
      <4> QED BY <4>1, <3>2
    <3>3. CASE n # m + 1
      <4>1. g[n] = f[n] /\ (n # 0 => g[n - 1] = f[n - 1])
        BY <3>1, <3>3
      <4> QED BY <4>1, <3>1, <3>3, <2>1
    <3> QED BY <3>2, <3>3
  <2> HIDE DEF g, After
  <2> QED BY <2>2
<1>4. N \in S
  <2> HIDE DEF S
  <2>1. N \in 0 .. N
    OBVIOUS
  <2> QED BY <1>2, <1>3, <2>1, Induct
<1>5. PICK f : Rule(f, N)
  BY <1>4
<1> DEFINE g == [n \in 0 .. N |-> f[n]]
<1>6. g = [n \in 0 .. N |-> IF n = 0 THEN first ELSE IF old[n].val = Nil THEN g[n - 1]
                                                     ELSE Stored(g[n - 1], old[n].key, old[n].val)]
  <2> HIDE DEF After
  <2>1. \A n \in 0 .. N : f[n] = IF n = 0 THEN first ELSE After(f[n - 1], n)
    BY <1>5
  <2>2. \A n \in 0 .. N : g[n] = f[n] /\ (n # 0 => g[n - 1] = f[n - 1])
    OBVIOUS
  <2>3. \A n \in 0 .. N : g[n] = IF n = 0 THEN first ELSE After(g[n - 1], n)
    BY <2>1, <2>2
  <2>4. g = [n \in 0 .. N |-> IF n = 0 THEN first ELSE After(g[n - 1], n)]
    BY <2>3
  <2> HIDE DEF g
  <2> QED BY <2>4 DEF After
<1> HIDE DEF g
<1>7. PICK c : c = CHOOSE i : i = [n \in 0 .. N |-> IF n = 0 THEN first
                                     ELSE IF old[n].val = Nil THEN i[n - 1]
                                     ELSE Stored(i[n - 1], old[n].key, old[n].val)]
  OBVIOUS
<1>8. c = [n \in 0 .. N |-> IF n = 0 THEN first ELSE IF old[n].val = Nil THEN c[n - 1]
                            ELSE Stored(c[n - 1], old[n].key, old[n].val)]
  BY <1>6, <1>7
<1>9. Resize(t, narray, nhash) = c[N]
  BY <1>0, <1>1, <1>7 DEF Resize
<1>10. c[0] = first /\ \A n \in 1 .. N : c[n] = IF old[n].val = Nil THEN c[n - 1]
                                                ELSE Stored(c[n - 1], old[n].key, old[n].val)
  BY <1>8
<1> WITNESS c
<1> QED BY <1>0, <1>1, <1>9, <1>10 DEF Folded

LEMMA KeysOutside ==
  ASSUME NEW u, Good(u), NEW x \in KeysOf(u)
  PROVE  x \in Keys /\ ~InArray(u, x)
<1>1. PICK h, d : TableType(u) /\ Path(u, h, d) /\ Placed(u, h, d)
  BY DEF Good
<1>2. PICK p \in Keyed(u) : x = u.node[p].key
  BY DEF KeysOf
<1>3. p \in Nodes(u) /\ u.node[p].key # NoKey /\ ~InArray(u, u.node[p].key)
  BY <1>1, <1>2 DEF Keyed, Placed
<1>4. u.node[p].key \in Keys \cup {NoKey}
  BY <1>1, <1>3, TypeFacts
<1> QED BY <1>2, <1>3, <1>4

\* The keys that need a node when the array part has narray slots.
Hashed(t, narray) == {k \in Keys : Get(t, k) # Nil /\ ~(k \in Indices /\ k <= narray)}
\* What resize has stored after n of the old entries.
Done(old, n) == {k \in Keys : \E i \in 1 .. n : old[i].key = k /\ old[i].val # Nil}
Resizing(t, narray, nhash, old, n, u) ==
  /\ Good(u) /\ Live(u) /\ Len(u.array) = narray /\ nhash <= Len(u.node)
  /\ KeysOf(u) \subseteq Hashed(t, narray)
  /\ \A x \in Keys : Get(u, x) = IF Stays(t, narray, x) \/ x \in Done(old, n) THEN Get(t, x) ELSE Nil

LEMMA ResizeBegins ==
  ASSUME NEW t, Good(t), NEW narray \in Nat, NEW nhash \in 0 .. twoto[MaxBits], NEW old,
         NEW u, u = [New(0, nhash) EXCEPT !.array =
                       [i \in 1 .. narray |-> IF i <= Len(t.array) THEN t.array[i] ELSE Nil]]
  PROVE  Resizing(t, narray, nhash, old, 0, u)
<1>1. TableType(t)
  BY DEF Good
<1>2. PICK n \in Nat : n = Len(t.array)
  BY <1>1, TypeFacts
<1>3. PICK a : a = [i \in 1 .. narray |-> IF i <= n THEN t.array[i] ELSE Nil]
  OBVIOUS
<1>4. \A i \in 1 .. narray : a[i] \in Values \cup {Nil} /\ (i \notin Indices => a[i] = Nil)
  <2>1. \A i \in 1 .. n : t.array[i] \in Values \cup {Nil} /\ (i \notin Indices => t.array[i] = Nil)
    BY <1>1, <1>2, TypeFacts DEF TableType
  <2>2. \A i \in 1 .. narray : i <= n => i \in 1 .. n
    BY <1>2
  <2> QED BY <2>1, <2>2, <1>3
<1>5. a \in Seq(Values \cup {Nil}) /\ Len(a) = narray
  <2>1. a \in [1 .. narray -> Values \cup {Nil}]
    BY <1>3, <1>4
  <2> QED BY <2>1, <1>3
<1>6. u = Fresh(a, nhash)
  BY <1>2, <1>3 DEF New, Fresh
<1>7. /\ Good(u) /\ Keyed(u) = {} /\ nhash <= Len(u.node)
      /\ \A x \in Keys : Get(u, x) = IF InArray(u, x) THEN a[x] ELSE Nil
  <2>1. Unfilled(Fresh(a, nhash), a, nhash)
    BY <1>4, <1>5, NewGood
  <2> QED BY <2>1, <1>6 DEF Unfilled
<1>8. u.array = a
  BY <1>6 DEF Fresh
<1>9. Done(old, 0) = {}
  BY DEF Done
<1>10. ASSUME NEW x \in Keys PROVE Get(u, x) = IF Stays(t, narray, x) THEN Get(t, x) ELSE Nil
  <2>1. CASE InArray(u, x)
    <3>1. x \in Indices /\ x \in 1 .. narray /\ Get(u, x) = a[x]
      BY <2>1, <1>5, <1>7, <1>8, InArrayFacts
    <3>2. CASE x <= n
      <4>1. a[x] = t.array[x] /\ InArray(t, x)
        BY <3>1, <3>2, <1>2, <1>3 DEF InArray
      <4>2. Stays(t, narray, x) /\ Get(t, x) = t.array[x]
        BY <4>1, <3>1 DEF Stays, Get
      <4> QED BY <3>1, <4>1, <4>2
    <3>3. CASE ~(x <= n)
      <4>1. a[x] = Nil /\ ~InArray(t, x)
        BY <3>1, <3>3, <1>2, <1>3 DEF InArray
      <4> QED BY <3>1, <4>1 DEF Stays
    <3> QED BY <3>2, <3>3
  <2>2. CASE ~InArray(u, x)
    <3>1. ~Stays(t, narray, x)
      BY <2>2, <1>5, <1>8 DEF Stays, InArray
    <3> QED BY <2>2, <3>1, <1>7
  <2> QED BY <2>1, <2>2
<1>11. Live(u) /\ KeysOf(u) = {}
  BY <1>7 DEF Live, KeysOf
<1> QED BY <1>5, <1>7, <1>8, <1>9, <1>10, <1>11 DEF Resizing

LEMMA ResizeGoesOn ==
  ASSUME NEW t, Good(t), NEW narray \in Nat, NEW nhash \in Nat, NEW old,
         Leaves(t, narray, old), Cardinality(Hashed(t, narray)) <= nhash, NEW n \in 1 .. Len(old), NEW u,
         Resizing(t, narray, nhash, old, n - 1, u), old[n].val # Nil
  PROVE  Resizing(t, narray, nhash, old, n, Stored(u, old[n].key, old[n].val))
<1>1. PICK k, v : k = old[n].key /\ v = old[n].val
  OBVIOUS
<1>2. k \in Keys /\ v \in Values /\ v # Nil /\ ~Stays(t, narray, k) /\ Get(t, k) = v
  BY <1>1, LuaTableAssumption DEF Leaves
<1>3. Len(old) \in Nat
  BY DEF Leaves
<1>4. Done(old, n) = Done(old, n - 1) \cup {k}
  <2>1. 1 .. n = (1 .. n - 1) \cup {n}
    BY <1>3
  <2> QED BY <2>1, <1>1, <1>2 DEF Done
<1>5. /\ Good(u) /\ Live(u) /\ Len(u.array) = narray /\ nhash <= Len(u.node)
      /\ KeysOf(u) \subseteq Hashed(t, narray)
      /\ \A x \in Keys : Get(u, x) = IF Stays(t, narray, x) \/ x \in Done(old, n - 1) THEN Get(t, x) ELSE Nil
  BY DEF Resizing
<1>6. InArray(u, k) \/ k \in Hashed(t, narray)
  BY <1>2, <1>5 DEF InArray, Hashed
<1>7. InArray(u, k) \/ NodeOf(u, k, FALSE) # 0 \/ HasRoom(u, k)
  <2>1. SUFFICES ASSUME k \in Hashed(t, narray) PROVE NodeOf(u, k, FALSE) # 0 \/ HasRoom(u, k)
    BY <1>6
  <2>2. PICK U : U = Hashed(t, narray)
    OBVIOUS
  <2>3. U \in SUBSET Keys /\ IsFiniteSet(Keys)
    BY <2>2, LuaTableAssumption DEF Hashed
  <2>4. IsFiniteSet(U)
    BY <2>3, FS_Subset
  <2>5. Cardinality(U) <= Len(u.node)
    <3>1. Cardinality(U) \in Nat /\ Cardinality(U) <= nhash
      BY <2>2, <2>4, FS_CardinalityType
    <3>2. Len(u.node) \in Nat
      BY <1>5, TypeFacts DEF Good
    <3> QED BY <3>1, <3>2, <1>5
  <2> QED BY <2>1, <2>2, <2>4, <2>5, <1>2, <1>5, RoomFor
<1>8. PICK w : w = Stored(u, k, v)
  OBVIOUS
<1>9. Changed(u, w, k, v)
  BY <1>2, <1>5, <1>7, <1>8, StoredChanges
<1>10. /\ Good(w) /\ Len(w.array) = narray /\ Len(w.node) = Len(u.node) /\ Live(w)
       /\ \A x \in Keys : Get(w, x) = IF x = k THEN v ELSE Get(u, x)
       /\ KeysOf(w) \subseteq KeysOf(u) \cup {k}
  BY <1>2, <1>5, <1>9 DEF Changed
<1>11. ASSUME NEW x \in KeysOf(w) PROVE x \in Hashed(t, narray)
  <2>1. x \in KeysOf(u) \/ x = k
    BY <1>10
  <2>2. ~InArray(w, k) => ~(k \in Indices /\ k <= narray)
    BY <1>10 DEF InArray
  <2>3. ~InArray(w, x)
    BY <1>10, KeysOutside
  <2> QED BY <2>1, <2>2, <2>3, <1>2, <1>5 DEF Hashed
<1>12. ASSUME NEW x \in Keys
       PROVE  Get(w, x) = IF Stays(t, narray, x) \/ x \in Done(old, n) THEN Get(t, x) ELSE Nil
  BY <1>2, <1>4, <1>5, <1>10
<1>13. Resizing(t, narray, nhash, old, n, w)
  BY <1>5, <1>10, <1>11, <1>12 DEF Resizing
<1> QED BY <1>1, <1>8, <1>13

\* A resized table has the fields of the old one, if the hash part is large enough.
LEMMA ResizeGood ==
  ASSUME NEW t, Good(t), NEW narray \in Nat, NEW nhash \in 0 .. twoto[MaxBits],
         Cardinality(Hashed(t, narray)) <= nhash, NEW u, u = Resize(t, narray, nhash)
  PROVE  /\ Good(u) /\ Live(u) /\ Len(u.array) = narray /\ nhash <= Len(u.node)
         /\ KeysOf(u) \subseteq Hashed(t, narray)
         /\ \A x \in Keys : Get(u, x) = Get(t, x)
<1>1. PICK old : old = Leaving(t, narray)
  OBVIOUS
<1>9. Leaves(t, narray, old)
  BY <1>1, LeavingFacts
<1>2. PICK N \in Nat : N = Len(old)
  BY <1>9 DEF Leaves
<1>3. PICK f : /\ u = f[N]
               /\ f[0] = [New(0, nhash) EXCEPT !.array =
                            [i \in 1 .. narray |-> IF i <= Len(t.array) THEN t.array[i] ELSE Nil]]
               /\ \A n \in 1 .. N : f[n] = IF old[n].val = Nil THEN f[n - 1]
                                           ELSE Stored(f[n - 1], old[n].key, old[n].val)
  <2>1. PICK f : Folded(t, narray, nhash, Leaving(t, narray), N, f, Resize(t, narray, nhash))
    BY <1>1, <1>2, ResizeRule
  <2> QED BY <2>1, <1>1 DEF Folded
<1> DEFINE S == {n \in Nat : Resizing(t, narray, nhash, old, n, f[n])}
<1>4. 0 \in S
  BY <1>3, ResizeBegins
<1>5. ASSUME NEW m \in 0 .. N - 1, m \in S PROVE m + 1 \in S
  <2>1. PICK n \in 1 .. N : n = m + 1 /\ n - 1 = m
    OBVIOUS
  <2>2. Resizing(t, narray, nhash, old, n - 1, f[n - 1])
    BY <2>1, <1>5
  <2>3. CASE old[n].val = Nil
    <3>1. f[n] = f[n - 1]
      BY <2>3, <1>3
    <3>2. Done(old, n) = Done(old, n - 1)
      <4>1. 1 .. n = (1 .. n - 1) \cup {n}
        BY <2>1
      <4> QED BY <4>1, <2>3 DEF Done
    <3>3. Resizing(t, narray, nhash, old, n, f[n])
      BY <2>2, <3>1, <3>2 DEF Resizing
    <3> QED BY <3>3, <2>1
  <2>4. CASE old[n].val # Nil
    <3>1. f[n] = Stored(f[n - 1], old[n].key, old[n].val)
      BY <2>4, <1>3
    <3>2. PICK w : w = f[n - 1]
      OBVIOUS
    <3>3. Resizing(t, narray, nhash, old, n - 1, w) /\ n \in 1 .. Len(old) /\ nhash \in Nat
      <4>1. twoto[MaxBits] \in Nat
        BY PowersPositive, LuaTableAssumption
      <4> QED BY <2>2, <3>2, <4>1, <1>2
    <3>4. Resizing(t, narray, nhash, old, n, Stored(w, old[n].key, old[n].val))
      BY <3>3, <2>4, <1>9, ResizeGoesOn
    <3>5. Resizing(t, narray, nhash, old, n, f[n])
      BY <3>1, <3>2, <3>4
    <3> QED BY <3>5, <2>1
  <2> QED BY <2>3, <2>4
<1> HIDE DEF S
<1>6. N \in S
  <2>1. N \in 0 .. N
    OBVIOUS
  <2> QED BY <2>1, <1>4, <1>5, Induct
<1>7. Resizing(t, narray, nhash, old, N, u)
  BY <1>3, <1>6 DEF S
<1>8. ASSUME NEW x \in Keys PROVE Get(u, x) = Get(t, x)
  <2>1. Get(t, x) # Nil /\ ~Stays(t, narray, x) => x \in Done(old, N)
    BY <1>2, <1>9 DEF Leaves, Done
  <2> QED BY <2>1, <1>7 DEF Resizing
<1> QED BY <1>7, <1>8 DEF Resizing

-----------------------------------------------------------------------------
(* The operations.                                                          *)

LEMMA RehashGood ==
  ASSUME NEW t, Good(t), NEW k \in Keys, NEW u, u = Rehash(t, k),
         Cardinality(ForHash(t, k)) <= twoto[MaxBits]
  PROVE  /\ Good(u) /\ \A x \in Keys : Get(u, x) = Get(t, x)
         /\ InArray(u, k) \/ NodeOf(u, k, FALSE) # 0 \/ HasRoom(u, k)
<1>1. PICK used : used = {x \in Keys : Get(t, x) # Nil} \cup {k}
  OBVIOUS
<1>2. PICK size \in Nat : size = ArraySize(used \cap Indices)
  BY ArraySizeType
<1>3. PICK U : U = {x \in used : x \notin 1 .. size}
  OBVIOUS
<1>4. u = Resize(t, size, Cardinality(U))
  BY <1>1, <1>2, <1>3 DEF Rehash, ForHash, Used
<1>5. U \in SUBSET Keys /\ IsFiniteSet(Keys)
  BY <1>1, <1>3, LuaTableAssumption
<1>6. IsFiniteSet(U)
  BY <1>5, FS_Subset
<1>7. Cardinality(U) \in 0 .. twoto[MaxBits]
  <2>1. Cardinality(U) \in Nat
    BY <1>6, FS_CardinalityType
  <2>2. twoto[MaxBits] \in Nat
    BY LuaTableAssumption, PowersPositive
  <2>3. U = ForHash(t, k)
    BY <1>1, <1>2, <1>3 DEF ForHash, Used
  <2> QED BY <2>1, <2>2, <2>3
<1>8. Hashed(t, size) \in SUBSET U
  <2>1. ASSUME NEW x \in Hashed(t, size) PROVE x \in used /\ x \notin 1 .. size
    <3>1. x \in Keys /\ Get(t, x) # Nil /\ ~(x \in Indices /\ x <= size)
      BY <2>1 DEF Hashed
    <3>2. x \in 1 .. size => x \in Indices
      BY <3>1, LuaTableAssumption DEF Keys
    <3> QED BY <3>1, <3>2, <1>1
  <2> QED BY <2>1, <1>3
<1>9. Cardinality(Hashed(t, size)) <= Cardinality(U)
  BY <1>6, <1>8, FS_Subset
<1>10. PICK n \in 0 .. twoto[MaxBits] : n = Cardinality(U)
  BY <1>7
<1>11. /\ Good(u) /\ Live(u) /\ Len(u.array) = size /\ n <= Len(u.node)
       /\ KeysOf(u) \subseteq Hashed(t, size)
       /\ \A x \in Keys : Get(u, x) = Get(t, x)
  <2>1. u = Resize(t, size, n) /\ Cardinality(Hashed(t, size)) <= n
    BY <1>4, <1>9, <1>10
  <2> QED BY <2>1, ResizeGood
<1>12. CASE InArray(u, k)
  BY <1>11, <1>12
<1>13. CASE ~InArray(u, k)
  <2>1. k \in U
    <3>1. ~(k \in Indices /\ k <= size)
      BY <1>11, <1>13 DEF InArray
    <3>2. k \in 1 .. size => k \in Indices
      BY LuaTableAssumption DEF Keys
    <3> QED BY <3>1, <3>2, <1>1, <1>3
  <2>2. KeysOf(u) \subseteq U /\ Cardinality(U) <= Len(u.node)
    BY <1>8, <1>10, <1>11
  <2>3. NodeOf(u, k, FALSE) # 0 \/ HasRoom(u, k)
    BY <2>1, <2>2, <1>6, <1>11, RoomFor
  <2> QED BY <2>3, <1>11
<1> QED BY <1>12, <1>13

LEMMA SetGood ==
  ASSUME NEW t, Good(t), NEW k \in Keys, NEW v \in Values \cup {Nil},
         MustRehash(t, k) => Cardinality(ForHash(t, k)) <= twoto[MaxBits]
  PROVE  /\ Good(Set(t, k, v))
         /\ \A x \in Keys : Get(Set(t, k, v), x) = IF x = k THEN v ELSE Get(t, x)
         /\ Get(t, k) # Nil => Alike(t, Set(t, k, v))
<1>1. CASE InArray(t, k) \/ NodeOf(t, k, FALSE) # 0 \/ HasRoom(t, k)
  <2>1. Set(t, k, v) = Stored(t, k, v)
    BY <1>1 DEF Set, MustRehash
  <2>2. Changed(t, Stored(t, k, v), k, v) /\ (Get(t, k) # Nil => Alike(t, Stored(t, k, v)))
    BY <1>1, StoredChanges
  <2> QED BY <2>1, <2>2 DEF Changed
<1>2. CASE ~(InArray(t, k) \/ NodeOf(t, k, FALSE) # 0 \/ HasRoom(t, k))
  <2>1. PICK u : u = Rehash(t, k)
    OBVIOUS
  <2>2. Set(t, k, v) = Stored(u, k, v)
    BY <1>2, <2>1 DEF Set, MustRehash
  <2>3. /\ Good(u) /\ \A x \in Keys : Get(u, x) = Get(t, x)
        /\ InArray(u, k) \/ NodeOf(u, k, FALSE) # 0 \/ HasRoom(u, k)
    BY <1>2, <2>1, RehashGood DEF MustRehash
  <2>4. Changed(u, Stored(u, k, v), k, v)
    BY <2>3, StoredChanges
  <2>5. Get(t, k) = Nil
    BY <1>2 DEF Get
  <2> QED BY <2>2, <2>3, <2>4, <2>5 DEF Changed
<1> QED BY <1>1, <1>2

\* luaH_resizearray: the hash part is as large as it was.
LEMMA ResizeArrayGood ==
  ASSUME NEW t, Good(t), NEW n \in Nat, n > Len(t.array)
  PROVE  /\ Good(Resize(t, n, Len(t.node)))
         /\ \A x \in Keys : Get(Resize(t, n, Len(t.node)), x) = Get(t, x)
<1>1. PICK N \in 0 .. twoto[MaxBits] : N = Len(t.node)
  BY TypeFacts, LuaTableAssumption, PowersPositive DEF Good, TableType
<1>2. Cardinality(Hashed(t, n)) <= N
  <2>1. PICK S : S = Hashed(t, n)
    OBVIOUS
  <2>2. S \in SUBSET Keys /\ IsFiniteSet(Keys)
    BY <2>1, LuaTableAssumption DEF Hashed
  <2>3. IsFiniteSet(S)
    BY <2>2, FS_Subset
  <2>4. IsFiniteSet(1 .. N) /\ Cardinality(1 .. N) = N
    BY <1>1, FS_Interval
  <2>5. PICK f : f = [k \in S |-> NodeOf(t, k, FALSE)]
    OBVIOUS
  <2>6. ASSUME NEW k \in S PROVE f[k] \in 1 .. N /\ t.node[f[k]].key = k
    <3>1. k \in Keys /\ Get(t, k) # Nil /\ ~(k \in Indices /\ k <= n)
      BY <2>1 DEF Hashed
    <3>2. ~InArray(t, k)
      <4>1. Len(t.array) \in Nat
        BY TypeFacts DEF Good
      <4> QED BY <3>1, <4>1, IndexFacts DEF InArray
    <3>3. Having(t, k, FALSE) # {}
      BY <3>1, <3>2, GetFacts
    <3>4. PICK p : p \in Having(t, k, FALSE)
      BY <3>3
    <3>5. NodeOf(t, k, FALSE) = p
      BY ZenonT(60), <3>1, <3>4, GetFacts
    <3> QED BY <3>4, <3>5, <2>5, <1>1 DEF Having, Nodes
  <2>7. f \in [S -> 1 .. N]
    BY <2>5, <2>6
  <2>8. \A x, y \in S : f[x] = f[y] => x = y
    BY <2>6
  <2>9. ~(Cardinality(1 .. N) < Cardinality(S))
    BY <2>3, <2>4, <2>7, <2>8, FS_PigeonHole
  <2>10. Cardinality(S) \in Nat
    BY <2>3, FS_CardinalityType
  <2> QED BY <2>1, <2>4, <2>9, <2>10, <1>1
<1>3. PICK u : u = Resize(t, n, N)
  OBVIOUS
<1>4. Good(u) /\ \A x \in Keys : Get(u, x) = Get(t, x)
  BY <1>2, <1>3, ResizeGood
<1> QED BY <1>1, <1>3, <1>4

\* traversetable: what dies has no value.
Dying(node, p) == node[p].val = Nil /\ node[p].key \in Objects
Collected(t) == [t EXCEPT !.node = [p \in DOMAIN t.node |->
                  [t.node[p] EXCEPT !.dead = t.node[p].dead \/ Dying(t.node, p)]]]

LEMMA CollectedGood ==
  ASSUME NEW t, Good(t)
  PROVE  /\ Good(Collected(t)) /\ Alike(t, Collected(t))
         /\ \A x \in Keys : Get(Collected(t), x) = Get(t, x)
         /\ Collected(t).array = t.array
         /\ \A p \in Nodes(t) : Collected(t).node[p].val = t.node[p].val
<1>1. PICK h, d : TableType(t) /\ Path(t, h, d) /\ Placed(t, h, d)
  BY DEF Good
<1>2. PICK N \in Nat : N = Len(t.node) /\ DOMAIN t.node = 1 .. N /\ Nodes(t) = 1 .. N
  BY <1>1, TypeFacts DEF Nodes
<1>3. PICK node : node = [p \in 1 .. N |->
         [t.node[p] EXCEPT !.dead = t.node[p].dead \/ Dying(t.node, p)]]
  OBVIOUS
<1>4. ASSUME NEW p \in 1 .. N
      PROVE  /\ node[p] \in NodeType
             /\ node[p].key = t.node[p].key /\ node[p].val = t.node[p].val /\ node[p].next = t.node[p].next
             /\ node[p].dead <=> t.node[p].dead \/ (t.node[p].val = Nil /\ t.node[p].key \in Objects)
             /\ p \notin Keyed(t) => node[p] = t.node[p]
  <2>1. t.node[p] \in NodeType
    BY <1>1, <1>2, TypeFacts
  <2>2. node[p] = [t.node[p] EXCEPT !.dead = t.node[p].dead \/ Dying(t.node, p)]
    BY <1>3
  <2>3. /\ node[p] \in NodeType
        /\ node[p].key = t.node[p].key /\ node[p].val = t.node[p].val /\ node[p].next = t.node[p].next
        /\ node[p].dead = (t.node[p].dead \/ Dying(t.node, p))
    BY <2>1, <2>2 DEF NodeType, Dying
  <2>4. ASSUME p \notin Keyed(t) PROVE node[p] = t.node[p]
    <3>1. t.node[p].key \notin Objects
      BY <2>4, <1>2, LuaTableAssumption DEF Keyed, Keys
    <3>2. PICK r \in NodeType : r = t.node[p]
      BY <2>1
    <3>3. r.dead \in BOOLEAN /\ r.key \notin Objects
      BY <3>1, <3>2 DEF NodeType
    <3>4. (r.dead \/ (r.val = Nil /\ r.key \in Objects)) = r.dead
      BY <3>3
    <3>5. node[p] = [r EXCEPT !.dead = r.dead]
      BY <2>2, <3>2, <3>4 DEF Dying
    <3>6. [r EXCEPT !.dead = r.dead] = r
      BY DEF NodeType
    <3> QED BY <3>2, <3>5, <3>6
  <2> QED BY <2>3, <2>4 DEF Dying
<1>5. node \in Seq(NodeType) /\ Len(node) = N
  <2>1. node \in [1 .. N -> NodeType]
    BY <1>3, <1>4
  <2> QED BY <2>1, <1>3
<1>6. PICK u : u = Relinked(t, node, t.free)
  OBVIOUS
<1>7. u = Collected(t)
  <2>1. Collected(t) = [t EXCEPT !.node = node]
    BY <1>2, <1>3 DEF Collected
  <2>2. [t EXCEPT !.node = node] = [t EXCEPT !.node = node, !.free = t.free]
    BY <1>1 DEF TableType
  <2> QED BY <2>1, <2>2, <1>6 DEF Relinked
<1>8. /\ TableType(u) /\ u.node = node /\ u.array = t.array /\ u.free = t.free
      /\ Nodes(u) = Nodes(t) /\ \A x : InArray(u, x) <=> InArray(t, x)
  <2>1. t.free \in Nat /\ Len(node) = Len(t.node)
    BY <1>1, <1>2, <1>5, TypeFacts
  <2>2. PICK free \in Nat : free = t.free
    BY <2>1
  <2>3. u = Relinked(t, node, free)
    BY <2>2, <1>6
  <2>4. TableType(t) /\ node \in Seq(NodeType)
    BY <1>1, <1>5
  <2> QED BY <2>1, <2>2, <2>3, <2>4, RelinkedFacts
<1>9. Path(u, h, d) /\ Placed(u, h, d)
  <2>1. ASSUME NEW p \in Nodes(t)
        PROVE  /\ u.node[p].key = t.node[p].key /\ u.node[p].next = t.node[p].next
               /\ t.node[p].dead => u.node[p].dead
               /\ p \notin Keyed(t) => u.node[p] = t.node[p]
               /\ p \in Keyed(t) /\ u.node[p].dead => u.node[p].val = Nil /\ u.node[p].key \in Objects
    BY <1>1, <1>2, <1>4, <1>8 DEF Placed
  <2>2. Len(u.node) = Len(t.node) /\ \A x : InArray(u, x) => InArray(t, x)
    BY <1>2, <1>5, <1>8
  <2> QED BY <2>1, <2>2, <1>1, <1>8, ValuesPlaced
<1>10. Good(u)
  BY <1>8, <1>9 DEF Good
<1>11. Alike(t, u)
  BY <1>1, <1>2, <1>4, <1>5, <1>8, <1>9 DEF Alike
<1>12. ASSUME NEW x \in Keys PROVE Get(u, x) = Get(t, x)
  <2>1. CASE InArray(t, x)
    BY <2>1, <1>8 DEF Get
  <2>2. CASE ~InArray(t, x)
    <3>1. /\ Get(u, x) \in Values \cup {Nil} /\ Get(t, x) \in Values \cup {Nil}
          /\ \A w \in Values : Get(u, x) = w <=> HasVal(u, x, w)
          /\ \A w \in Values : Get(t, x) = w <=> HasVal(t, x, w)
      BY <2>2, <1>8, <1>10, GetVal
    <3>2. ASSUME NEW w \in Values PROVE HasVal(u, x, w) <=> HasVal(t, x, w)
      <4>1. w # Nil
        BY LuaTableAssumption
      <4> QED BY <4>1, <1>2, <1>4, <1>8 DEF HasVal
    <3> QED BY <3>1, <3>2
  <2> QED BY <2>1, <2>2
<1>13. \A p \in Nodes(t) : u.node[p].val = t.node[p].val
  BY <1>2, <1>4, <1>8
<1> QED BY <1>7, <1>8, <1>10, <1>11, <1>12, <1>13

-----------------------------------------------------------------------------
(* Traversals.  The places of a table are in an order that only a rehash    *)
(* changes; a traversal has returned the keys up to the place of its last   *)
(* one.                                                                     *)

Places(t) == 1 .. Len(t.array) + Len(t.node)

LEMMA KeyAtFacts ==
  ASSUME NEW t, Good(t), NEW i \in Places(t), NEW x, x = KeyAt(t, i), x # NoKey
  PROVE  x \in Keys /\ FindIndex(t, x) = i /\ Get(t, x) # Nil
<1>1. PICK h, d : TableType(t) /\ Path(t, h, d) /\ Placed(t, h, d)
  BY DEF Good
<1>2. PICK n \in Nat, N \in Nat : n = Len(t.array) /\ N = Len(t.node) /\ i \in 1 .. n + N
  BY <1>1, TypeFacts DEF Places
<1>3. CASE i <= n
  <2>1. t.array[i] # Nil /\ x = i /\ i \in 1 .. n
    BY <1>2, <1>3 DEF KeyAt
  <2>2. i \in Indices
    BY <1>1, <1>2, <2>1 DEF TableType
  <2>3. InArray(t, i) /\ i \in Keys
    BY <2>2, <1>2, <1>3 DEF InArray, Keys
  <2>4. FindIndex(t, i) = i
    BY <2>1, <2>3 DEF FindIndex
  <2>5. Get(t, i) = t.array[i]
    BY <2>3 DEF Get
  <2> QED BY <2>1, <2>3, <2>4, <2>5
<1>4. CASE ~(i <= n)
  <2>1. PICK p : p = i - n
    OBVIOUS
  <2>2. p \in Nodes(t) /\ i = n + p
    <3>0. i \in 1 .. n + N
      BY <1>2
    <3>1. p \in 1 .. N /\ i = n + p
      BY <3>0, <1>4, <2>1
    <3> QED BY <3>1, <1>2 DEF Nodes
  <2>3. t.node[p].val # Nil /\ x = t.node[p].key
    BY <1>2, <1>4, <2>1 DEF KeyAt
  <2>4. p \in Keyed(t)
    BY <2>2, <2>3 DEF Keyed
  <2>5. x \in Keys
    BY <2>2, <2>3, <1>1, TypeFacts
  <2>6. ~t.node[p].dead /\ ~InArray(t, x)
    BY <2>3, <2>4, <1>1 DEF Placed
  <2>7. p \in Having(t, x, FALSE) /\ p \in Having(t, x, TRUE)
    BY <2>2, <2>3, <2>6 DEF Having
  <2>8. Get(t, x) = t.node[p].val
    BY <2>5, <2>7, GetFacts
  <2>9. PICK q : q = NodeOf(t, x, TRUE)
    OBVIOUS
  <2>10. q \in Having(t, x, TRUE) /\ d[q] <= d[p]
    BY <2>5, <2>7, <2>9, <1>1, NodeOfFirst
  <2>11. q = p
    <3>1. q \in Keyed(t) /\ t.node[q].key = t.node[p].key /\ q \in Nodes(t)
      BY <2>3, <2>10 DEF Having, Keyed
    <3>2. q # p => d[p] < d[q]
      BY <3>1, <2>4, <2>6, <1>1 DEF Placed
    <3>3. d[p] \in Nat /\ d[q] \in Nat
      BY <3>1, <2>2, <1>1 DEF Path
    <3> QED BY <3>2, <3>3, <2>10
  <2>12. p # 0
    <3>1. p \in 1 .. N
      BY <2>2, <1>2 DEF Nodes
    <3> QED BY <3>1
  <2>13. FindIndex(t, x) = n + p
    BY <2>6, <2>9, <2>11, <2>12, <1>2 DEF FindIndex
  <2> QED BY <2>2, <2>3, <2>5, <2>8, <2>13
<1> QED BY <1>3, <1>4

LEMMA KeyAtSome ==
  ASSUME NEW t, Good(t), NEW x \in Keys, Get(t, x) # Nil
  PROVE  \E i \in Places(t) : KeyAt(t, i) = x
<1>1. TableType(t)
  BY DEF Good
<1>2. PICK n \in Nat, N \in Nat : n = Len(t.array) /\ N = Len(t.node)
  BY <1>1, TypeFacts
<1>3. CASE InArray(t, x)
  <2>1. x \in 1 .. n /\ t.array[x] # Nil
    <3>1. t.array \in Seq(Values \cup {Nil})
      BY <1>1 DEF TableType
    <3> QED BY <3>1, <1>2, <1>3, InArrayFacts DEF Get
  <2>2. KeyAt(t, x) = x
    BY <2>1, <1>2 DEF KeyAt
  <2>3. x \in Places(t)
    <3>1. x \in 1 .. n + N
      BY <2>1
    <3> QED BY <3>1, <1>2 DEF Places
  <2> QED BY <2>2, <2>3
<1>4. CASE ~InArray(t, x)
  <2>0. Having(t, x, FALSE) # {}
    BY <1>4, GetFacts
  <2>1. PICK p : p \in Having(t, x, FALSE)
    BY <2>0
  <2>2. Get(t, x) = t.node[p].val
    BY ZenonT(60), <2>1, GetFacts
  <2>3. p \in 1 .. N /\ t.node[p].key = x /\ t.node[p].val # Nil
    BY <2>1, <2>2, <1>2 DEF Having, Nodes
  <2>4. n + p \in Places(t) /\ ~(n + p <= n) /\ (n + p) - n = p
    <3>1. n + p \in 1 .. n + N /\ ~(n + p <= n) /\ (n + p) - n = p
      BY <2>3
    <3> QED BY <3>1, <1>2 DEF Places
  <2>5. KeyAt(t, n + p) = x
    BY <2>3, <2>4, <1>2 DEF KeyAt
  <2> QED BY <2>4, <2>5
<1> QED BY <1>3, <1>4

\* Keys in the same places are found at the same indices.
LEMMA SameIndex ==
  ASSUME NEW t, NEW u, Alike(t, u), NEW x \in Keys \cup {NoKey}
  PROVE  FindIndex(u, x) = FindIndex(t, x)
<1>1. PICK h, d : /\ TableType(t) /\ TableType(u) /\ Path(t, h, d) /\ Placed(t, h, d)
                  /\ Path(u, h, d) /\ Placed(u, h, d)
  BY DEF Alike
<1>2. /\ Len(u.array) = Len(t.array) /\ Len(u.node) = Len(t.node) /\ Nodes(u) = Nodes(t)
      /\ \A p \in Nodes(t) : u.node[p].key = t.node[p].key
  BY DEF Alike, Nodes
<1>3. CASE x = NoKey
  BY <1>3 DEF FindIndex
<1>4. CASE x \in Keys
  <2>1. Having(u, x, TRUE) = Having(t, x, TRUE)
    BY <1>2 DEF Having
  <2>2. NodeOf(u, x, TRUE) = NodeOf(t, x, TRUE)
    <3>1. PICK p, q : p = NodeOf(t, x, TRUE) /\ q = NodeOf(u, x, TRUE)
      OBVIOUS
    <3>2. PICK F : F = Having(t, x, TRUE)
      OBVIOUS
    <3>3. CASE F = {}
      BY <3>1, <3>2, <3>3, <2>1, <1>1, <1>4, NodeOfFirst
    <3>4. CASE F # {}
      <4>1. p \in F /\ q \in F
        BY <3>1, <3>2, <3>4, <2>1, <1>1, <1>4, NodeOfFirst
      <4>2. d[p] <= d[q] /\ d[q] <= d[p]
        BY <3>1, <3>2, <3>4, <4>1, <2>1, <1>1, <1>4, NodeOfFirst
      <4>3. /\ p \in Keyed(t) /\ q \in Keyed(t) /\ p \in Nodes(t) /\ q \in Nodes(t)
            /\ t.node[p].key = x /\ t.node[q].key = x
        BY <3>2, <4>1, <1>4, LuaTableAssumption DEF Having, Keyed
      <4>4. h[p] = h[Home(t, p)] /\ h[q] = h[Home(t, q)] /\ Home(t, p) = Home(t, q)
        BY <4>3, <1>1 DEF Placed, Home
      <4>5. d[p] \in Nat /\ d[q] \in Nat
        BY <4>3, <1>1 DEF Path
      <4>6. d[p] = d[q] /\ h[p] = h[q]
        BY <4>2, <4>4, <4>5
      <4>7. p = q
        BY <4>3, <4>6, <1>1 DEF Path
      <4> QED BY <3>1, <4>7
    <3> QED BY <3>3, <3>4
  <2>3. InArray(u, x) <=> InArray(t, x)
    BY <1>2 DEF InArray
  <2> QED BY <2>2, <2>3, <1>2 DEF FindIndex
<1> QED BY <1>3, <1>4

\* A traversal that is under way.
Walking(t, last, visited) ==
  /\ visited \subseteq Keys /\ last \in {NoKey} \cup visited
  /\ \A k \in visited : FindIndex(t, k) \in 1 .. FindIndex(t, last)
  /\ \A i \in Places(t) : KeyAt(t, i) # NoKey => (KeyAt(t, i) \in visited <=> i <= FindIndex(t, last))

LEMMA WalkingSame ==
  ASSUME NEW t, Good(t), NEW u, Good(u), Alike(t, u), \A x \in Keys : Get(u, x) # Nil => Get(t, x) # Nil,
         NEW last, NEW visited, Walking(t, last, visited)
  PROVE  Walking(u, last, visited)
<1>1. \A x \in Keys \cup {NoKey} : FindIndex(u, x) = FindIndex(t, x)
  BY SameIndex
<1>2. Places(u) = Places(t)
  BY DEF Places, Alike
<1>3. ASSUME NEW i \in Places(u), KeyAt(u, i) # NoKey PROVE KeyAt(t, i) = KeyAt(u, i)
  <2>1. PICK x : x = KeyAt(u, i)
    OBVIOUS
  <2>2. x \in Keys /\ FindIndex(u, x) = i /\ Get(u, x) # Nil
    BY <2>1, <1>3, KeyAtFacts
  <2>3. PICK j \in Places(t) : KeyAt(t, j) = x
    BY <2>2, KeyAtSome
  <2>4. FindIndex(t, x) = j
    BY <2>2, <2>3, KeyAtFacts, LuaTableAssumption
  <2> QED BY <2>1, <2>2, <2>3, <2>4, <1>1
<1> QED BY <1>1, <1>2, <1>3 DEF Walking

LEMMA WalkingFound ==
  ASSUME NEW t, NEW last, NEW visited, Walking(t, last, visited)
  PROVE  FindIndex(t, last) \in Nat
<1>1. CASE last = NoKey
  BY <1>1 DEF FindIndex
<1>2. CASE last \in visited
  BY <1>2 DEF Walking
<1> QED BY <1>1, <1>2 DEF Walking

LEMMA WalkingNext ==
  ASSUME NEW t, Good(t), NEW last, NEW visited, Walking(t, last, visited), Ahead(t, last) # {},
         NEW k, k = KeyAt(t, Min(Ahead(t, last)))
  PROVE  k \in Keys /\ k \notin visited /\ Get(t, k) # Nil /\ Walking(t, k, visited \cup {k})
<1>1. PICK a \in Nat : a = FindIndex(t, last)
  BY WalkingFound
<1>2. PICK n \in Nat : n = Len(t.array) + Len(t.node)
  <2>1. Len(t.array) \in Nat /\ Len(t.node) \in Nat
    BY TypeFacts DEF Good
  <2>2. \A a1, a2 \in Nat : a1 + a2 \in Nat
    OBVIOUS
  <2> QED BY <2>1, <2>2
<1>3. PICK S : S = Ahead(t, last)
  OBVIOUS
<1>4. S = {i \in a + 1 .. n : KeyAt(t, i) # NoKey} /\ S \subseteq Nat /\ Places(t) = 1 .. n
  <2>1. S = {i \in a + 1 .. n : KeyAt(t, i) # NoKey} /\ Places(t) = 1 .. n
    BY <1>1, <1>2, <1>3 DEF Ahead, Places
  <2> QED BY <2>1
<1>5. PICK i \in S : k = KeyAt(t, i) /\ \A j \in S : i <= j
  BY <1>3, <1>4, MinIsLeast
<1>6. i \in a + 1 .. n /\ i \in Places(t) /\ k # NoKey
  BY <1>4, <1>5
<1>7. k \in Keys /\ FindIndex(t, k) = i /\ Get(t, k) # Nil
  BY <1>5, <1>6, KeyAtFacts
<1>8. /\ visited \subseteq Keys /\ \A x \in visited : FindIndex(t, x) \in 1 .. a
      /\ \A j \in Places(t) : KeyAt(t, j) # NoKey => (KeyAt(t, j) \in visited <=> j <= a)
  BY <1>1 DEF Walking
<1>9. k \notin visited
  BY <1>5, <1>6, <1>8
<1>10. ASSUME NEW x \in visited \cup {k} PROVE FindIndex(t, x) \in 1 .. i
  BY <1>6, <1>7, <1>8
<1>11. ASSUME NEW j \in Places(t), KeyAt(t, j) # NoKey PROVE KeyAt(t, j) \in visited \cup {k} <=> j <= i
  <2>1. KeyAt(t, j) = k => j = i
    BY <1>7, <1>11, KeyAtFacts
  <2>2. j \in 1 .. n
    BY <1>4
  <2>3. j > a => j \in S
    BY <2>2, <1>4, <1>11
  <2>4. CASE j <= a
    BY <2>2, <2>4, <1>6, <1>8, <1>11
  <2>5. CASE j > a
    <3>1. i <= j
      BY <2>3, <2>5, <1>5
    <3>2. KeyAt(t, j) \notin visited
      BY <2>2, <2>5, <1>8, <1>11
    <3>3. j = i => KeyAt(t, j) = k
      BY <1>5
    <3> QED BY <2>1, <2>2, <3>1, <3>2, <3>3, <1>6
  <2> QED BY <2>2, <2>4, <2>5
<1>12. Walking(t, k, visited \cup {k})
  BY <1>7, <1>8, <1>10, <1>11 DEF Walking
<1> QED BY <1>7, <1>9, <1>12

LEMMA WalkingEnd ==
  ASSUME NEW t, Good(t), NEW last, NEW visited, Walking(t, last, visited), Ahead(t, last) = {},
         NEW x \in Keys, Get(t, x) # Nil
  PROVE  x \in visited
<1>1. PICK a \in Nat : a = FindIndex(t, last)
  BY WalkingFound
<1>2. PICK n \in Nat : n = Len(t.array) + Len(t.node)
  <2>1. Len(t.array) \in Nat /\ Len(t.node) \in Nat
    BY TypeFacts DEF Good
  <2>2. \A a1, a2 \in Nat : a1 + a2 \in Nat
    OBVIOUS
  <2> QED BY <2>1, <2>2
<1>3. PICK i \in Places(t) : KeyAt(t, i) = x
  BY KeyAtSome
<1>4. i \in 1 .. n /\ x # NoKey
  BY <1>2, <1>3, LuaTableAssumption DEF Places
<1>5. i \notin a + 1 .. n
  BY <1>1, <1>2, <1>3, <1>4 DEF Ahead
<1>6. i <= a
  BY <1>4, <1>5
<1> QED BY <1>1, <1>3, <1>4, <1>6 DEF Walking

-----------------------------------------------------------------------------
(* The invariant, and the steps.                                            *)

TableInv ==
  /\ Good(table) /\ fields = Read(table) /\ walk \in BOOLEAN
  /\ walk => Walking(table, at, seen)

LEMMA ReadFacts ==
  ASSUME NEW t, NEW u
  PROVE  /\ \A k \in Keys : Read(t)[k] = Get(t, k)
         /\ (\A k \in Keys : Get(u, k) = Get(t, k)) => Read(u) = Read(t)
         /\ \A k \in Keys : \A v : (\A x \in Keys : Get(u, x) = IF x = k THEN v ELSE Get(t, x)) =>
              Read(u) = [Read(t) EXCEPT ![k] = v]
BY DEF Read

LEMMA NewTable ==
  ASSUME NEW narray \in Sizes, NEW nhash \in Sizes
  PROVE  Good(New(narray, nhash)) /\ Read(New(narray, nhash)) = [k \in Keys |-> Nil]
<1>1. twoto[MaxBits] \in Nat
  BY LuaTableAssumption, PowersPositive
<1>2. narray \in Nat /\ nhash \in 0 .. twoto[MaxBits]
  BY <1>1, LuaTableAssumption
<1>3. PICK a : a = [i \in 1 .. narray |-> Nil]
  OBVIOUS
<1>4. a \in Seq(Values \cup {Nil}) /\ Len(a) = narray /\ \A n \in 1 .. Len(a) : a[n] = Nil
  BY <1>2, <1>3
<1>5. New(narray, nhash) = Fresh(a, nhash)
  BY <1>3 DEF New, Fresh
<1>6. PICK u : u = Fresh(a, nhash)
  OBVIOUS
<1>7. Unfilled(u, a, nhash)
  BY <1>2, <1>4, <1>6, NewGood
<1>8. ASSUME NEW x \in Keys PROVE Get(u, x) = Nil
  <2>1. InArray(u, x) => x \in 1 .. Len(a)
    BY <1>4, <1>7, InArrayFacts DEF Unfilled
  <2> QED BY <2>1, <1>4, <1>7, <1>8 DEF Unfilled
<1> QED BY <1>5, <1>6, <1>7, <1>8 DEF Unfilled, Read

LEMMA InvInit == TableInit => TableInv
<1> SUFFICES ASSUME TableInit PROVE TableInv
  OBVIOUS
<1>1. PICK narray \in Sizes, nhash \in Sizes : table = New(narray, nhash)
  BY DEF TableInit
<1> QED BY <1>1, NewTable DEF TableInit, TableInv

LEMMA SetFieldStep ==
  ASSUME TableInv, NEW k \in Keys, NEW v \in Values \cup {Nil}, SetField(k, v)
  PROVE  TableInv' /\ fields' = [fields EXCEPT ![k] = v]
<1>1. PICK t, u : t = table /\ u = table'
  OBVIOUS
<1>2. Good(t) /\ fields = Read(t) /\ u = Set(t, k, v) /\ fields' = Read(u)
  BY <1>1 DEF TableInv, SetField
<1>3. /\ Good(u) /\ \A x \in Keys : Get(u, x) = IF x = k THEN v ELSE Get(t, x)
      /\ Get(t, k) # Nil => Alike(t, u)
  <2>1. MustRehash(t, k) => Cardinality(ForHash(t, k)) <= twoto[MaxBits]
    BY <1>1 DEF SetField
  <2> QED BY <1>2, <2>1, SetGood
<1>4. fields' = [fields EXCEPT ![k] = v]
  BY <1>2, <1>3, ReadFacts
<1>5. fields[k] = Get(t, k)
  BY <1>2, ReadFacts
<1>6. walk' = (walk /\ fields[k] # Nil)
  BY DEF SetField
<1>7. ASSUME walk' PROVE Walking(u, at', seen')
  <2>1. walk /\ Get(t, k) # Nil /\ at' = at /\ seen' = seen
    BY <1>5, <1>6, <1>7 DEF SetField
  <2>2. PICK last, visited : last = at /\ visited = seen
    OBVIOUS
  <2>3. Walking(t, last, visited)
    BY <2>1, <2>2, <1>1 DEF TableInv
  <2>4. \A x \in Keys : Get(u, x) # Nil => Get(t, x) # Nil
    BY <2>1, <1>3
  <2>5. Walking(u, last, visited)
    BY <2>1, <2>3, <2>4, <1>2, <1>3, WalkingSame
  <2> QED BY <2>1, <2>2, <2>5
<1>8. walk' \in BOOLEAN
  BY <1>6
<1> QED BY <1>1, <1>2, <1>3, <1>4, <1>7, <1>8 DEF TableInv

LEMMA ResizeArrayStep ==
  ASSUME TableInv, NEW n \in Sizes, ResizeArray(n)
  PROVE  TableInv' /\ UNCHANGED <<fields, walk, seen>>
<1>1. PICK t, u : t = table /\ u = table'
  OBVIOUS
<1>2. /\ Good(t) /\ fields = Read(t) /\ u = Resize(t, n, Len(t.node)) /\ fields' = Read(u)
      /\ n > Len(t.array) /\ ~walk /\ UNCHANGED <<walk, at, seen>>
  BY <1>1 DEF TableInv, ResizeArray
<1>3. n \in Nat
  BY LuaTableAssumption, PowersPositive
<1>4. Good(u) /\ \A x \in Keys : Get(u, x) = Get(t, x)
  BY <1>2, <1>3, ResizeArrayGood
<1>5. fields' = fields
  BY <1>2, <1>4, ReadFacts
<1> QED BY <1>1, <1>2, <1>4, <1>5 DEF TableInv

LEMMA CollectKeysStep ==
  ASSUME TableInv, CollectKeys
  PROVE  TableInv' /\ UNCHANGED <<fields, walk, seen>>
<1>1. PICK t, u : t = table /\ u = table'
  OBVIOUS
<1>2. Good(t) /\ fields = Read(t) /\ fields' = Read(u) /\ UNCHANGED <<walk, at, seen>>
  BY <1>1 DEF TableInv, CollectKeys
<1>3. u = Collected(t)
  BY <1>1 DEF CollectKeys, Collected, Dying
<1>4. Good(u) /\ Alike(t, u) /\ \A x \in Keys : Get(u, x) = Get(t, x)
  BY <1>2, <1>3, CollectedGood
<1>5. fields' = fields
  BY <1>2, <1>4, ReadFacts
<1>6. ASSUME walk PROVE Walking(u, at', seen')
  <2>1. PICK last, visited : last = at /\ visited = seen
    OBVIOUS
  <2>2. Walking(t, last, visited)
    BY <2>1, <1>1, <1>6 DEF TableInv
  <2>3. Walking(u, last, visited)
    BY <2>2, <1>2, <1>4, WalkingSame
  <2> QED BY <2>1, <2>3, <1>2
<1> QED BY <1>1, <1>2, <1>4, <1>5, <1>6 DEF TableInv

LEMMA BeginWalkStep ==
  ASSUME TableInv, BeginWalk
  PROVE  TableInv'
<1>1. PICK t : t = table /\ t = table'
  BY DEF BeginWalk
<1>2. Good(t) /\ fields' = Read(t) /\ walk' = TRUE /\ at' = NoKey /\ seen' = {}
  BY <1>1 DEF TableInv, BeginWalk
<1>3. FindIndex(t, NoKey) = 0
  BY DEF FindIndex
<1>4. \A i \in Places(t) : ~(i <= 0)
  BY DEF Places
<1>5. Walking(t, NoKey, {})
  BY <1>3, <1>4 DEF Walking
<1> QED BY <1>1, <1>2, <1>5 DEF TableInv

LEMMA NextKeyStep ==
  ASSUME TableInv, NextKey
  PROVE  TableInv' /\ \E k \in Keys : /\ k \notin seen /\ fields[k] # Nil
                                      /\ seen' = seen \cup {k}
<1>1. PICK t, last, visited : t = table /\ t = table' /\ last = at /\ visited = seen
  BY DEF NextKey
<1>2. /\ Good(t) /\ fields = Read(t) /\ fields' = fields /\ walk /\ walk' = walk
      /\ Walking(t, last, visited) /\ Ahead(t, last) # {}
  BY <1>1 DEF TableInv, NextKey
<1>3. PICK k : k = KeyAt(t, Min(Ahead(t, last)))
  OBVIOUS
<1>4. at' = k /\ seen' = visited \cup {k}
  BY <1>1, <1>3 DEF NextKey
<1>5. k \in Keys /\ k \notin visited /\ Get(t, k) # Nil /\ Walking(t, k, visited \cup {k})
  BY <1>2, <1>3, WalkingNext
<1>6. fields[k] # Nil
  BY <1>2, <1>5, ReadFacts
<1>7. TableInv'
  BY <1>1, <1>2, <1>4, <1>5 DEF TableInv
<1> QED BY <1>1, <1>4, <1>5, <1>6, <1>7

LEMMA EndWalkStep ==
  ASSUME TableInv, EndWalk
  PROVE  TableInv' /\ \A k \in Keys : fields[k] # Nil => k \in seen
<1>1. PICK t, last, visited : t = table /\ t = table' /\ last = at /\ visited = seen
  BY DEF EndWalk
<1>2. /\ Good(t) /\ fields = Read(t) /\ fields' = fields /\ walk /\ walk' = FALSE
      /\ Walking(t, last, visited) /\ Ahead(t, last) = {}
  BY <1>1 DEF TableInv, EndWalk
<1>3. ASSUME NEW k \in Keys, fields[k] # Nil PROVE k \in visited
  <2>1. Get(t, k) # Nil
    BY <1>2, <1>3, ReadFacts
  <2> QED BY <2>1, <1>2, WalkingEnd
<1> QED BY <1>1, <1>2, <1>3 DEF TableInv

LEMMA StutterStep ==
  ASSUME TableInv, UNCHANGED tableVars
  PROVE  TableInv'
<1>1. table' = table /\ walk' = walk /\ at' = at /\ seen' = seen /\ fields' = fields
  BY DEF tableVars
<1> QED BY <1>1 DEF TableInv

LEMMA InvStep == TableInv /\ [TableNext]_tableVars => TableInv'
<1> SUFFICES ASSUME TableInv, [TableNext]_tableVars PROVE TableInv'
  OBVIOUS
<1>1. CASE \E k \in Keys, v \in Values \cup {Nil} : SetField(k, v)
  BY <1>1, SetFieldStep
<1>2. CASE \E n \in Sizes : ResizeArray(n)
  BY <1>2, ResizeArrayStep
<1>3. CASE CollectKeys
  BY <1>3, CollectKeysStep
<1>4. CASE BeginWalk
  BY <1>4, BeginWalkStep
<1>5. CASE NextKey
  BY <1>5, NextKeyStep
<1>6. CASE EndWalk
  BY <1>6, EndWalkStep
<1>7. CASE UNCHANGED tableVars
  BY <1>7, StutterStep
<1> QED BY <1>1, <1>2, <1>3, <1>4, <1>5, <1>6, <1>7 DEF TableNext

\* Every node is on a path of its main position, every field is read from the one place
\* that has its key, and a traversal has returned the keys up to its last one, whatever the
\* keys, their hash and the sizes of the table (luaH_set, resize, luaH_next).
THEOREM TableInvariant == TableSpec => []TableInv
<1>1. TableInit => TableInv
  BY InvInit
<1>2. TableInv /\ [TableNext]_tableVars => TableInv'
  BY InvStep
<1> QED BY <1>1, <1>2, PTL DEF TableSpec

\* `next' finds the last key of a traversal, cleared and collected or not (findindex).
THEOREM KeysAreFound == TableSpec => []KeyFound
<1>1. TableInv => KeyFound
  <2> SUFFICES ASSUME TableInv, walk PROVE FindIndex(table, at) >= 0
    BY DEF KeyFound
  <2>1. PICK t, last, visited : t = table /\ last = at /\ visited = seen
    OBVIOUS
  <2>2. Walking(t, last, visited)
    BY <2>1 DEF TableInv
  <2>3. FindIndex(t, last) \in Nat
    BY <2>2, WalkingFound
  <2> QED BY <2>1, <2>3
<1> QED BY <1>1, TableInvariant, PTL

LEMMA MapInitially == TableInit => AsMap!MapInit
<1> SUFFICES ASSUME TableInit PROVE AsMap!MapInit
  OBVIOUS
<1>1. PICK narray \in Sizes, nhash \in Sizes : table = New(narray, nhash)
  BY DEF TableInit
<1> QED BY <1>1, NewTable DEF TableInit, AsMap!MapInit

LEMMA MapStep == TableInv /\ [TableNext]_tableVars => [AsMap!MapNext]_(AsMap!mapVars)
<1> SUFFICES ASSUME TableInv, [TableNext]_tableVars PROVE [AsMap!MapNext]_(AsMap!mapVars)
  OBVIOUS
<1>0. \A k \in Keys : k \in AsMap!Fields <=> fields[k] # Nil
  BY DEF AsMap!Fields
<1>1. ASSUME NEW k \in Keys, NEW v \in Values \cup {Nil}, SetField(k, v) PROVE AsMap!MapNext
  <2>1. fields' = [fields EXCEPT ![k] = v]
    BY <1>1, SetFieldStep
  <2>2. walk' = (walk /\ k \in AsMap!Fields) /\ seen' = (IF walk' THEN seen ELSE {})
    BY <1>0, <1>1 DEF SetField
  <2>3. AsMap!Assign(k, v)
    BY <2>1, <2>2 DEF AsMap!Assign
  <2> QED BY <2>3 DEF AsMap!MapNext
<1>2. ASSUME NEW n \in Sizes, ResizeArray(n) PROVE UNCHANGED AsMap!mapVars
  BY <1>2, ResizeArrayStep DEF AsMap!mapVars
<1>3. CASE CollectKeys
  BY <1>3, CollectKeysStep DEF AsMap!mapVars
<1>4. CASE BeginWalk
  BY <1>4 DEF BeginWalk, AsMap!Begin, AsMap!MapNext
<1>5. CASE NextKey
  <2>1. PICK k \in Keys : k \notin seen /\ fields[k] # Nil /\ seen' = seen \cup {k}
    BY <1>5, NextKeyStep
  <2>2. walk /\ UNCHANGED <<walk, fields>>
    BY <1>5 DEF NextKey
  <2>3. AsMap!Visit(k)
    BY <1>0, <2>1, <2>2 DEF AsMap!Visit
  <2> QED BY <2>3 DEF AsMap!MapNext
<1>6. CASE EndWalk
  <2>1. AsMap!Fields \subseteq seen
    BY <1>6, EndWalkStep DEF AsMap!Fields
  <2>2. AsMap!Finish
    BY <2>1, <1>6 DEF EndWalk, AsMap!Finish
  <2> QED BY <2>2 DEF AsMap!MapNext
<1>7. CASE UNCHANGED tableVars
  BY <1>7 DEF tableVars, AsMap!mapVars
<1> QED BY <1>1, <1>2, <1>3, <1>4, <1>5, <1>6, <1>7 DEF TableNext

\* A table implements a map: an assignment changes the field it names and no other, through
\* every rehash, move and reuse of a node, and a traversal returns each field once and all
\* of them before it ends (luaH_set, luaH_next).
THEOREM TableIsMap == TableSpec => IsMap
<1>1. TableInit => AsMap!MapInit
  BY MapInitially
<1>2. TableInv /\ [TableNext]_tableVars => [AsMap!MapNext]_(AsMap!mapVars)
  BY MapStep
<1>3. TableSpec => AsMap!MapSpec
  BY <1>1, <1>2, TableInvariant, PTL DEF TableSpec, AsMap!MapSpec
<1> QED BY <1>3 DEF IsMap

-----------------------------------------------------------------------------
(* The length.  What follows is true of any numbers of the code's searches: *)
(* the pairs that a recursive function is applied to lie in a finite square.*)

Pairs(i, j) == (i .. j) \X (i .. j)

LEMMA PairFacts ==
  ASSUME NEW i \in Nat, NEW j \in Nat
  PROVE  /\ \A w \in Pairs(i, j) : w[1] \in i .. j /\ w[2] \in i .. j
         /\ \A a, b \in i .. j : <<a, b>> \in Pairs(i, j)
BY DEF Pairs

\* One step of the binary search, with f for what the steps after it return.
Probe(t, f, w) ==
  LET lo == w[1]  hi == w[2]  m == (lo + hi) \div 2 IN
  IF hi - lo <= 1 THEN lo ELSE IF Get(t, m) = Nil THEN f[<<lo, m>>] ELSE f[<<m, hi>>]
Gap(w) == w[2] - w[1]

LEMMA Middle ==
  ASSUME NEW a \in Nat, NEW b \in Nat, ~(b - a <= 1)
  PROVE  /\ (a + b) \div 2 \in Nat /\ a < (a + b) \div 2 /\ (a + b) \div 2 < b
         /\ (a + b) \div 2 - a < b - a /\ b - (a + b) \div 2 < b - a
OBVIOUS

\* The step needs f only where the gap is smaller.
LEMMA ProbeNarrows ==
  ASSUME NEW t, NEW i \in Nat, NEW j \in Nat, NEW f, NEW g, NEW w \in Pairs(i, j),
         \A v \in Pairs(i, j) : Gap(v) < Gap(w) => f[v] = g[v]
  PROVE  Probe(t, f, w) = Probe(t, g, w)
<1>1. PICK a, b : a = w[1] /\ b = w[2] /\ a \in i .. j /\ b \in i .. j
  BY PairFacts
<1>2. CASE b - a <= 1
  BY <1>1, <1>2 DEF Probe
<1>3. CASE ~(b - a <= 1)
  <2>1. PICK m : m = (a + b) \div 2
    OBVIOUS
  <2>2. a \in Nat /\ b \in Nat
    BY <1>1
  <2>3. m \in Nat /\ a < m /\ m < b /\ m - a < b - a /\ b - m < b - a
    BY <1>3, <2>1, <2>2, Middle
  <2>4. m \in i .. j
    BY <1>1, <2>2, <2>3
  <2>5. <<a, m>> \in Pairs(i, j) /\ <<m, b>> \in Pairs(i, j)
    BY <1>1, <2>4, PairFacts
  <2>6. Gap(<<a, m>>) < Gap(w) /\ Gap(<<m, b>>) < Gap(w)
    BY <1>1, <2>3 DEF Gap
  <2>7. f[<<a, m>>] = g[<<a, m>>] /\ f[<<m, b>>] = g[<<m, b>>]
    BY <2>5, <2>6
  <2> QED BY <1>1, <2>1, <2>7 DEF Probe
<1> QED BY <1>2, <1>3

\* The binary search is defined by its steps.
Searching(t, i, j, f) == \A w \in Pairs(i, j) : f[w] = Probe(t, f, w)

LEMMA SearchRule ==
  ASSUME NEW t, NEW i \in Nat, NEW j \in Nat, i < j
  PROVE  \E f : Searching(t, i, j, f) /\ Search(t, i, j) = f[<<i, j>>]
<1> DEFINE Rule(f, m) == \A w \in Pairs(i, j) : Gap(w) <= m => f[w] = Probe(t, f, w)
           S == {m \in Nat : \E f : Rule(f, m)}
<1>0. PICK N \in Nat : N = j - i
  OBVIOUS
<1>1. \A w \in Pairs(i, j) : Gap(w) \in Int /\ Gap(w) <= N
  BY <1>0, PairFacts DEF Gap
<1>2. 0 \in S
  <2> DEFINE f == [w \in Pairs(i, j) |-> w[1]]
  <2>1. ASSUME NEW w \in Pairs(i, j), Gap(w) <= 0 PROVE f[w] = Probe(t, f, w)
    <3>1. w[2] - w[1] <= 1
      BY <1>1, <2>1 DEF Gap
    <3> QED BY <3>1 DEF Probe
  <2>2. Rule(f, 0)
    BY <2>1
  <2> HIDE DEF f
  <2> QED BY <2>2
<1>3. ASSUME NEW m \in 0 .. N - 1, m \in S PROVE m + 1 \in S
  <2>1. PICK f : Rule(f, m)
    BY <1>3
  <2> DEFINE g == [w \in Pairs(i, j) |-> IF Gap(w) <= m THEN f[w] ELSE Probe(t, f, w)]
  <2>2. ASSUME NEW w \in Pairs(i, j), Gap(w) <= m + 1 PROVE g[w] = Probe(t, g, w)
    <3>1. \A v \in Pairs(i, j) : Gap(v) < Gap(w) => f[v] = g[v]
      BY <1>0, <1>1, <2>2
    <3>2. Probe(t, f, w) = Probe(t, g, w)
      <4> HIDE DEF g
      <4> QED BY <3>1, ProbeNarrows
    <3>3. g[w] = Probe(t, f, w)
      BY <2>1
    <3> QED BY <3>2, <3>3
  <2>3. Rule(g, m + 1)
    BY <2>2
  <2> HIDE DEF g
  <2> QED BY <2>3, <1>0
<1>4. N \in S
  <2> HIDE DEF S
  <2> QED BY <1>0, <1>2, <1>3, Induct
<1>5. PICK f : Rule(f, N)
  BY <1>4
<1> DEFINE g == [w \in Pairs(i, j) |-> f[w]]
<1>6. \A w \in Pairs(i, j) : g[w] = Probe(t, g, w)
  <2>1. ASSUME NEW w \in Pairs(i, j) PROVE g[w] = Probe(t, g, w)
    <3>1. f[w] = Probe(t, f, w)
      BY <1>1, <1>5
    <3>2. \A v \in Pairs(i, j) : f[v] = g[v]
      OBVIOUS
    <3> HIDE DEF g
    <3>3. Probe(t, f, w) = Probe(t, g, w)
      BY <3>2, ProbeNarrows
    <3> QED BY <3>1, <3>2, <3>3
  <2> QED BY <2>1
<1>7. g = [w \in Pairs(i, j) |-> Probe(t, g, w)]
  BY <1>6
<1> HIDE DEF g
<1> DEFINE border[w \in (i .. j) \X (i .. j)] ==
        LET lo == w[1]  hi == w[2]  m == (lo + hi) \div 2 IN
        IF hi - lo <= 1 THEN lo ELSE IF Get(t, m) = Nil THEN border[<<lo, m>>] ELSE border[<<m, hi>>]
<1>8. border = [w \in Pairs(i, j) |-> Probe(t, border, w)]
  BY <1>7 DEF Probe, Pairs
<1>9. Search(t, i, j) = border[<<i, j>>]
  BY DEF Search
<1> HIDE DEF border
<1> QED BY <1>8, <1>9 DEF Searching


\* 0, or an index that has a value, with one behind it that has none.
Present(t, n)  == n = 0 \/ Get(t, n) # Nil
IsBorder(t, n) == n \in Nat /\ Present(t, n) /\ Get(t, n + 1) = Nil

\* The binary search returns a border.
LEMMA SearchBorder ==
  ASSUME NEW t, NEW i \in Nat, NEW j \in Nat, i < j, Present(t, i), Get(t, j) = Nil
  PROVE  IsBorder(t, Search(t, i, j))
<1>1. PICK f : Searching(t, i, j, f) /\ Search(t, i, j) = f[<<i, j>>]
  BY SearchRule
<1> DEFINE Ends(w) == Gap(w) > 0 /\ Present(t, w[1]) /\ Get(t, w[2]) = Nil
           S == {m \in Nat : \A w \in Pairs(i, j) : Gap(w) <= m /\ Ends(w) => IsBorder(t, f[w])}
<1>2. PICK N \in Nat : N = j - i /\ N > 0
  OBVIOUS
<1>3. \A w \in Pairs(i, j) : Gap(w) \in Int
  BY PairFacts DEF Gap
<1>4. 0 \in S
  BY <1>3
<1>5. ASSUME NEW m \in 0 .. N - 1, m \in S PROVE m + 1 \in S
  <2>1. ASSUME NEW w \in Pairs(i, j), Gap(w) <= m + 1, Ends(w) PROVE IsBorder(t, f[w])
    <3>1. PICK a, b : a = w[1] /\ b = w[2] /\ a \in i .. j /\ b \in i .. j
      BY PairFacts
    <3>2. a \in Nat /\ b \in Nat /\ a < b /\ b - a <= m + 1 /\ Present(t, a) /\ Get(t, b) = Nil
      BY <2>1, <3>1 DEF Gap
    <3>3. f[w] = Probe(t, f, w)
      BY <1>1 DEF Searching
    <3>4. CASE b - a <= 1
      <4>1. f[w] = a /\ a + 1 = b
        BY <3>1, <3>2, <3>3, <3>4 DEF Probe
      <4> QED BY <4>1, <3>2 DEF IsBorder
    <3>5. CASE ~(b - a <= 1)
      <4>1. PICK c : c = (a + b) \div 2
        OBVIOUS
      <4>2. c \in Nat /\ a < c /\ c < b /\ c - a < b - a /\ b - c < b - a
        BY <3>2, <3>5, <4>1, Middle
      <4>3. c \in i .. j
        BY <3>1, <3>2, <4>2
      <4>4. <<a, c>> \in Pairs(i, j) /\ <<c, b>> \in Pairs(i, j)
        BY <3>1, <4>3, PairFacts
      <4>5. f[w] = IF Get(t, c) = Nil THEN f[<<a, c>>] ELSE f[<<c, b>>]
        BY <3>1, <3>3, <3>5, <4>1 DEF Probe
      <4>6. /\ Gap(<<a, c>>) <= m /\ Gap(<<a, c>>) > 0
            /\ Gap(<<c, b>>) <= m /\ Gap(<<c, b>>) > 0
        BY <3>2, <4>2, <1>2 DEF Gap
      <4>7. Get(t, c) = Nil => Ends(<<a, c>>)
        BY <4>6, <3>2
      <4>8. Get(t, c) # Nil => Ends(<<c, b>>)
        BY <4>6, <3>2 DEF Present
      <4> HIDE DEF Ends
      <4>9. \A v \in Pairs(i, j) : Gap(v) <= m /\ Ends(v) => IsBorder(t, f[v])
        BY <1>5
      <4> QED BY <4>4, <4>5, <4>6, <4>7, <4>8, <4>9
    <3> QED BY <3>4, <3>5
  <2> QED BY <2>1, <1>2
<1>6. N \in S
  <2> HIDE DEF S
  <2> QED BY <1>2, <1>4, <1>5, Induct
<1>7. <<i, j>> \in Pairs(i, j) /\ Gap(<<i, j>>) = N
  BY <1>2, PairFacts DEF Gap
<1>8. Ends(<<i, j>>)
  BY <1>2, <1>7
<1>9. \A w \in Pairs(i, j) : Gap(w) <= N /\ Ends(w) => IsBorder(t, f[w])
  BY <1>6
<1> HIDE DEF Ends
<1> QED BY <1>1, <1>2, <1>7, <1>8, <1>9

LEMMA NotAKey ==
  ASSUME NEW t
  PROVE  /\ \A n : n \notin Keys => Get(t, n) = Nil
         /\ Get(t, 0) = Nil /\ Get(t, Cardinality(Indices) + 1) = Nil
         /\ \A n \in Nat : n \in Keys => n \in Indices
<1>1. \A n : n \notin Keys => Get(t, n) = Nil
  BY DEF Get
<1>2. \A n \in Nat : n \in Keys => n \in Indices
  BY LuaTableAssumption DEF Keys
<1>3. PICK n \in Nat : n = Cardinality(Indices) /\ Indices = 1 .. n
  BY IndexFacts
<1>4. 0 \notin Indices /\ n + 1 \notin Indices /\ n + 1 \in Nat
  <2>1. 0 \notin 1 .. n /\ n + 1 \notin 1 .. n /\ n + 1 \in Nat
    OBVIOUS
  <2> QED BY <2>1, <1>3
<1> QED BY <1>1, <1>2, <1>3, <1>4

\* Where the doubling would pass MAX_INT the indices are tried one after the other.
Tried(t) == Min({n \in 0 .. Cardinality(Indices) : Get(t, n + 1) = Nil})

LEMMA TriedBorder == ASSUME NEW t PROVE IsBorder(t, Tried(t))
<1>1. PICK N \in Nat : N = Cardinality(Indices) /\ Get(t, N + 1) = Nil
  BY IndexFacts, NotAKey
<1> DEFINE S == {n \in 0 .. N : Get(t, n + 1) = Nil}
<1>2. S \subseteq Nat /\ N \in S
  BY <1>1
<1>3. PICK m \in Nat : m = Min(S) /\ m \in S /\ \A n \in S : m <= n
  <2> HIDE DEF S
  <2> QED BY <1>2, MinIsLeast
<1>4. Tried(t) = m
  BY <1>1, <1>3 DEF Tried
<1>5. ASSUME m # 0 PROVE Get(t, m) # Nil
  <2>1. m - 1 \in 0 .. N /\ (m - 1) + 1 = m /\ ~(m <= m - 1)
    BY <1>3, <1>5
  <2> QED BY <2>1, <1>3
<1> QED BY <1>3, <1>4, <1>5 DEF IsBorder, Present

\* One step of the doubling, with f for what the steps after it return.
Double(t, f, w) ==
  LET lo == w[1]  hi == w[2] IN
  IF Get(t, hi) = Nil THEN Search(t, lo, hi)
  ELSE IF 2 * hi <= MaxInt THEN f[<<hi, 2 * hi>>] ELSE Tried(t)

LEMMA DoubleClimbs ==
  ASSUME NEW t, NEW N \in Nat, MaxInt <= N, NEW f, NEW g, NEW w \in Pairs(0, N),
         \A v \in Pairs(0, N) : w[2] < v[2] => f[v] = g[v]
  PROVE  Double(t, f, w) = Double(t, g, w)
<1>1. PICK a, b : a = w[1] /\ b = w[2] /\ a \in 0 .. N /\ b \in 0 .. N
  BY PairFacts
<1>2. CASE Get(t, b) = Nil \/ ~(2 * b <= MaxInt)
  BY <1>1, <1>2 DEF Double
<1>3. CASE Get(t, b) # Nil /\ 2 * b <= MaxInt
  <2>1. b # 0
    BY <1>3, NotAKey
  <2>2. MaxInt \in Nat
    BY LuaTableAssumption
  <2>3. 2 * b \in 0 .. N /\ b < 2 * b
    BY <1>1, <1>3, <2>1, <2>2
  <2>4. <<b, 2 * b>> \in Pairs(0, N)
    BY <1>1, <2>3, PairFacts
  <2>5. f[<<b, 2 * b>>] = g[<<b, 2 * b>>]
    BY <1>1, <2>3, <2>4
  <2> QED BY <1>1, <2>5 DEF Double
<1> QED BY <1>2, <1>3

Doubling(t, N, f) == \A w \in Pairs(0, N) : f[w] = Double(t, f, w)

LEMMA DoublingRule ==
  ASSUME NEW t, NEW j \in Nat, NEW N \in Nat, N = j + 1 + MaxInt
  PROVE  \E f : Doubling(t, N, f) /\ UnboundSearch(t, j) = f[<<j, j + 1>>]
<1> DEFINE Rule(f, m) == \A w \in Pairs(0, N) : N - w[2] < m => f[w] = Double(t, f, w)
           S == {m \in Nat : \E f : Rule(f, m)}
<1>0. MaxInt \in Nat /\ MaxInt <= N
  <2>1. MaxInt \in Nat
    BY LuaTableAssumption
  <2> QED BY <2>1
<1>1. \A w \in Pairs(0, N) : w[2] \in 0 .. N /\ N - w[2] \in 0 .. N
  BY PairFacts
<1>2. 0 \in S
  BY <1>1
<1>3. ASSUME NEW m \in 0 .. N, m \in S PROVE m + 1 \in S
  <2>1. PICK f : Rule(f, m)
    BY <1>3
  <2> DEFINE g == [w \in Pairs(0, N) |-> IF N - w[2] < m THEN f[w] ELSE Double(t, f, w)]
  <2>2. ASSUME NEW w \in Pairs(0, N), N - w[2] < m + 1 PROVE g[w] = Double(t, g, w)
    <3>1. ASSUME NEW v \in Pairs(0, N), w[2] < v[2] PROVE f[v] = g[v]
      <4>1. N - v[2] < m
        BY <1>1, <2>2, <3>1
      <4> QED BY <4>1
    <3>2. Double(t, f, w) = Double(t, g, w)
      <4> HIDE DEF g
      <4> QED BY <1>0, <3>1, DoubleClimbs
    <3>3. g[w] = Double(t, f, w)
      BY <2>1
    <3> QED BY <3>2, <3>3
  <2>3. Rule(g, m + 1)
    BY <2>2
  <2> HIDE DEF g
  <2> QED BY <2>3
<1>4. N + 1 \in S
  <2> HIDE DEF S
  <2>1. N + 1 \in Nat /\ (N + 1) - 1 = N /\ N + 1 \in 0 .. N + 1
    OBVIOUS
  <2>2. \A n \in 0 .. N + 1 : n \in S
    BY <2>1, <1>2, <1>3, Induct
  <2> QED BY <2>1, <2>2
<1>5. PICK f : Rule(f, N + 1)
  BY <1>4
<1> DEFINE g == [w \in Pairs(0, N) |-> f[w]]
<1>6. ASSUME NEW w \in Pairs(0, N) PROVE g[w] = Double(t, g, w)
  <2>1. f[w] = Double(t, f, w)
    BY <1>1, <1>5
  <2>2. \A v \in Pairs(0, N) : f[v] = g[v]
    OBVIOUS
  <2>3. g[w] = f[w]
    OBVIOUS
  <2> HIDE DEF g
  <2>4. Double(t, f, w) = Double(t, g, w)
    BY <1>0, <2>2, DoubleClimbs
  <2> QED BY <2>1, <2>3, <2>4
<1>7. g = [w \in Pairs(0, N) |-> Double(t, g, w)]
  BY <1>6
<1> HIDE DEF g
<1> DEFINE up[w \in (0 .. j + 1 + MaxInt) \X (0 .. j + 1 + MaxInt)] ==
        LET lo == w[1]  hi == w[2] IN
        IF Get(t, hi) = Nil THEN Search(t, lo, hi)
        ELSE IF 2 * hi <= MaxInt THEN up[<<hi, 2 * hi>>]
        ELSE Min({n \in 0 .. Cardinality(Indices) : Get(t, n + 1) = Nil})
<1>8. up = [w \in Pairs(0, N) |-> Double(t, up, w)]
  BY <1>7 DEF Double, Pairs, Tried
<1>9. UnboundSearch(t, j) = up[<<j, j + 1>>]
  BY DEF UnboundSearch
<1> HIDE DEF up
<1> QED BY <1>8, <1>9 DEF Doubling

\* The doubling finds a border behind the last slot of the array part, which is in use.
LEMMA UnboundSearchBorder ==
  ASSUME NEW t, NEW j \in Nat, Present(t, j)
  PROVE  IsBorder(t, UnboundSearch(t, j))
<1>0. MaxInt \in Nat
  BY LuaTableAssumption
<1>1. PICK N \in Nat : N = j + 1 + MaxInt /\ MaxInt <= N /\ j \in 0 .. N /\ j + 1 \in 0 .. N
  BY <1>0
<1>2. PICK f : Doubling(t, N, f) /\ UnboundSearch(t, j) = f[<<j, j + 1>>]
  BY <1>1, DoublingRule
<1> DEFINE Ends(w) == w[1] < w[2] /\ Present(t, w[1])
           S == {m \in Nat : \A w \in Pairs(0, N) : N - w[2] < m /\ Ends(w) => IsBorder(t, f[w])}
<1>3. \A w \in Pairs(0, N) : w[2] \in 0 .. N /\ N - w[2] \in 0 .. N
  BY PairFacts
<1>4. 0 \in S
  BY <1>3
<1>5. ASSUME NEW m \in 0 .. N, m \in S PROVE m + 1 \in S
  <2>1. ASSUME NEW w \in Pairs(0, N), N - w[2] < m + 1, Ends(w) PROVE IsBorder(t, f[w])
    <3>1. PICK a, b : a = w[1] /\ b = w[2] /\ a \in 0 .. N /\ b \in 0 .. N
      BY PairFacts
    <3>2. a < b /\ N - b < m + 1 /\ Present(t, a) /\ a \in Nat /\ b \in Nat
      BY <2>1, <3>1
    <3>3. f[w] = Double(t, f, w)
      BY <1>2 DEF Doubling
    <3>4. CASE Get(t, b) = Nil
      <4>1. f[w] = Search(t, a, b)
        BY <3>1, <3>3, <3>4 DEF Double
      <4> QED BY <4>1, <3>2, <3>4, SearchBorder
    <3>5. CASE Get(t, b) # Nil /\ 2 * b <= MaxInt
      <4>1. f[w] = f[<<b, 2 * b>>]
        BY <3>1, <3>3, <3>5 DEF Double
      <4>2. 2 * b \in 0 .. N /\ b < 2 * b /\ N - 2 * b < m
        BY <1>0, <1>1, <3>2, <3>5
      <4>3. <<b, 2 * b>> \in Pairs(0, N)
        BY <3>1, <4>2, PairFacts
      <4>4. Ends(<<b, 2 * b>>)
        BY <3>5, <4>2 DEF Present
      <4>5. N - <<b, 2 * b>>[2] < m
        BY <4>2
      <4> HIDE DEF Ends
      <4>6. \A v \in Pairs(0, N) : N - v[2] < m /\ Ends(v) => IsBorder(t, f[v])
        BY <1>5
      <4> QED BY <4>1, <4>3, <4>4, <4>5, <4>6
    <3>6. CASE Get(t, b) # Nil /\ ~(2 * b <= MaxInt)
      <4>1. f[w] = Tried(t)
        BY <3>1, <3>3, <3>6 DEF Double
      <4> QED BY <4>1, TriedBorder
    <3> QED BY <3>4, <3>5, <3>6
  <2> QED BY <2>1
<1>6. N + 1 \in S
  <2> HIDE DEF S
  <2>1. N + 1 \in Nat /\ (N + 1) - 1 = N /\ N + 1 \in 0 .. N + 1
    OBVIOUS
  <2>2. \A n \in 0 .. N + 1 : n \in S
    BY <2>1, <1>4, <1>5, Induct
  <2> QED BY <2>1, <2>2
<1>7. <<j, j + 1>> \in Pairs(0, N)
  BY <1>1, PairFacts
<1>8. Ends(<<j, j + 1>>) /\ N - <<j, j + 1>>[2] < N + 1
  OBVIOUS
<1>9. \A w \in Pairs(0, N) : N - w[2] < N + 1 /\ Ends(w) => IsBorder(t, f[w])
  BY <1>6
<1> HIDE DEF Ends
<1> QED BY <1>2, <1>7, <1>8, <1>9

LEMMA GetnBorder == ASSUME NEW t, Good(t) PROVE IsBorder(t, Getn(t))
<1>1. PICK j \in Nat : j = Len(t.array) /\ TableType(t)
  BY TypeFacts DEF Good
<1>2. ASSUME j > 0 PROVE Get(t, j) = t.array[j]
  <2>1. j \in 1 .. Len(t.array)
    BY <1>1, <1>2
  <2>2. CASE j \in Indices
    <3>1. InArray(t, j) /\ j \in Keys
      BY <1>1, <2>2 DEF InArray, Keys
    <3> QED BY <3>1 DEF Get
  <2>3. CASE j \notin Indices
    <3>1. t.array[j] = Nil
      BY <1>1, <2>1, <2>3 DEF TableType
    <3>2. j \notin Keys
      BY <2>3, NotAKey
    <3> QED BY <3>1, <3>2, NotAKey
  <2> QED BY <2>2, <2>3
<1>3. CASE j > 0 /\ t.array[j] = Nil
  <2>1. Getn(t) = Search(t, 0, j)
    BY <1>1, <1>3 DEF Getn
  <2>2. 0 < j /\ Present(t, 0) /\ Get(t, j) = Nil
    BY <1>2, <1>3 DEF Present
  <2> QED BY <2>1, <2>2, SearchBorder
<1>4. CASE ~(j > 0 /\ t.array[j] = Nil)
  <2>1. Present(t, j)
    BY <1>2, <1>4 DEF Present
  <2>2. CASE t.node = <<>>
    <3>1. Getn(t) = j
      BY <1>1, <1>4, <2>2 DEF Getn
    <3>2. ~InArray(t, j + 1)
      BY <1>1 DEF InArray
    <3>3. NodeOf(t, j + 1, FALSE) = 0
      BY <2>2 DEF NodeOf
    <3>4. Get(t, j + 1) = Nil
      BY <3>2, <3>3 DEF Get
    <3> QED BY <2>1, <3>1, <3>4 DEF IsBorder
  <2>3. CASE t.node # <<>>
    <3>1. Getn(t) = UnboundSearch(t, j)
      BY <1>1, <1>4, <2>3 DEF Getn
    <3> QED BY <2>1, <3>1, UnboundSearchBorder
  <2> QED BY <2>2, <2>3
<1> QED BY <1>3, <1>4

\* The length of a table is a border: 0 or an index that has a value, with one behind it that
\* has none, wherever the indices are kept and however far the doubling goes (luaH_getn).
THEOREM LengthAlwaysBorder == TableSpec => []LengthIsBorder
<1>1. TableInv => LengthIsBorder
  <2> SUFFICES ASSUME TableInv PROVE LengthIsBorder
    OBVIOUS
  <2>1. PICK t, n : t = table /\ n = Getn(table)
    OBVIOUS
  <2>2. Good(t) /\ fields = Read(t) /\ IsBorder(t, n)
    BY <2>1, GetnBorder DEF TableInv
  <2>3. n \in Nat /\ (n = 0 \/ Get(t, n) # Nil) /\ Get(t, n + 1) = Nil
    BY <2>2 DEF IsBorder, Present
  <2>4. n = 0 \/ fields[n] # Nil
    BY <2>2, <2>3, NotAKey, ReadFacts
  <2>5. n + 1 \in Indices => fields[n + 1] = Nil
    BY <2>2, <2>3, ReadFacts DEF Keys
  <2> QED BY <2>1, <2>4, <2>5 DEF LengthIsBorder
<1> QED BY <1>1, TableInvariant, PTL
=============================================================================
