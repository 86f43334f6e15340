------------------------------- MODULE LuaTable -------------------------------
(***************************************************************************)
(* Tables (ltable.c): an array part, and a hash part whose nodes are linked*)
(* into chains, with Brent's variation: a node that is not in its main     *)
(* position yields it to a key that belongs there.  An integer is its own  *)
(* key; the hash of a key is a constant.  Node 0 is the end of a chain.    *)
(***************************************************************************)
EXTENDS Integers, Sequences, SequencesExt, FiniteSetsExt

CONSTANTS
  Indices,   \* the integers that are used as keys, 1 .. n
  Objects,   \* the other keys: strings, which can be collected
  HashOf,    \* the hash of each key
  Values, Nil, NoKey,
  Sizes,     \* bound: sizes of the parts a table is created with
  MaxBits, MaxInt  \* MAXBITS and MAX_INT, small

Keys == Indices \cup Objects
twoto[n \in 0 .. MaxBits] == IF n = 0 THEN 1 ELSE 2 * twoto[n - 1]

ASSUME LuaTableAssumption ==
  /\ Indices = 1 .. Cardinality(Indices) /\ Objects \cap Nat = {} /\ IsFiniteSet(Keys)
  /\ HashOf \in [Keys -> Nat] /\ MaxInt \in Nat /\ MaxBits \in Nat
  /\ Nil \notin Values /\ NoKey \notin Keys
  /\ Sizes \subseteq 0 .. twoto[MaxBits]

VARIABLES
  table,     \* [array, node, free]: the parts and lastfree, past the highest free node
  walk,      \* whether a traversal is under way whose order is still defined
  at,        \* the key its last `next' returned, NoKey at its beginning
  \* For the properties:
  seen,      \* the keys it has returned
  fields     \* what luaH_get returns for each key

tableVars == <<table, walk, at, seen, fields>>

-----------------------------------------------------------------------------

\* setnodevector: a hash part of no node is the dummy node.
FreeNode == [key |-> NoKey, val |-> Nil, next |-> 0, dead |-> FALSE]
NodeVector(size) ==
  IF size = 0 THEN <<>>
  ELSE [i \in 1 .. Min({s \in {twoto[n] : n \in 0 .. MaxBits} : s >= size}) |-> FreeNode]
New(narray, nhash) ==
  [array |-> [i \in 1 .. narray |-> Nil], node |-> NodeVector(nhash), free |-> Len(NodeVector(nhash)) + 1]

\* Strings are hashed modulo the size, which is a power of two, others modulo an odd number.
MainPosition(t, k) ==
  LET size == Len(t.node) IN
  1 + (HashOf[k] % (IF k \in Objects \/ size = 1 THEN size ELSE size - 1))

\* The nodes from p on along the chain, and the first of them that has k; with a key that
\* is dead or not.
Chain(t, p) ==
  LET link[n \in 0 .. Len(t.node)] ==
        IF n = 0 THEN p ELSE LET q == link[n - 1] IN IF q = 0 THEN 0 ELSE t.node[q].next
  IN  link
NodeOf(t, k, orDead) ==
  IF t.node = <<>> THEN 0
  ELSE LET chain == Chain(t, MainPosition(t, k))
           hits == {n \in DOMAIN chain : /\ chain[n] # 0 /\ t.node[chain[n]].key = k
                                         /\ orDead \/ ~t.node[chain[n]].dead}
       IN  IF hits = {} THEN 0 ELSE chain[Min(hits)]

InArray(t, k) == k \in Indices /\ k <= Len(t.array)
Get(t, k) ==
  IF k \notin Keys THEN Nil
  ELSE IF InArray(t, k) THEN t.array[k]
  ELSE LET p == NodeOf(t, k, FALSE) IN IF p = 0 THEN Nil ELSE t.node[p].val

\* getfreepos: the highest node below lastfree that never had a key.
FreePos(t) == Max({0} \cup {p \in 1 .. t.free - 1 : t.node[p].key = NoKey})

\* The nodes when the one at mp moves to p.
\* Mutant: the chain it was in still leads to mp.
MovedUnlinked(t, mp, p) == [t.node EXCEPT ![p] = t.node[mp], ![mp] = FreeNode]
Moved(t, mp, p) ==
  LET chain == Chain(t, MainPosition(t, t.node[mp].key))
      prev  == CHOOSE q \in Range(chain) : q # 0 /\ t.node[q].next = mp
  IN  [t.node EXCEPT ![prev].next = p, ![p] = t.node[mp], ![mp] = FreeNode]

\* newkey where there is room: in the main position, whatever key it had; in that position
\* when the node there moves; or behind the node there.
Entry(k, v, next) == [key |-> k, val |-> v, next |-> next, dead |-> FALSE]
HasRoom(t, k) == t.node # <<>> /\ (t.node[MainPosition(t, k)].val = Nil \/ FreePos(t) # 0)
NewKey(t, k, v) ==
  LET mp == MainPosition(t, k)  node == t.node[mp]  p == FreePos(t) IN
  IF node.val = Nil THEN [t EXCEPT !.node[mp] = Entry(k, v, node.next)]
  ELSE IF MainPosition(t, node.key) # mp
  THEN [t EXCEPT !.node = [Moved(t, mp, p) EXCEPT ![mp] = Entry(k, v, 0)], !.free = p]
  ELSE [t EXCEPT !.node = [t.node EXCEPT ![p] = Entry(k, v, node.next), ![mp].next = p], !.free = p]

\* luaH_set and the assignment to what it returns, where newkey need not rehash.
Stored(t, k, v) ==
  IF InArray(t, k) THEN [t EXCEPT !.array[k] = v]
  ELSE LET p == NodeOf(t, k, FALSE) IN
       IF p # 0 THEN [t EXCEPT !.node[p].val = v]
       ELSE IF HasRoom(t, k) THEN NewKey(t, k, v) ELSE t

\* resize: the entries of the array part that vanishes go into the new parts, upwards, and
\* then those of the old hash part, downwards.
Leaving(t, narray) ==
  LET n == Len(t.array)  size == Len(t.node) IN
  [i \in 1 .. n + size |-> IF i <= n THEN Entry(i, IF i <= narray THEN Nil ELSE t.array[i], 0)
                           ELSE t.node[n + size + 1 - i]]
Resize(t, narray, nhash) ==
  LET old  == Leaving(t, narray)
      kept == [i \in 1 .. narray |-> IF i <= Len(t.array) THEN t.array[i] ELSE Nil]
      into[n \in 0 .. Len(old)] ==
        IF n = 0 THEN [New(0, nhash) EXCEPT !.array = kept]
        ELSE IF old[n].val = Nil THEN into[n - 1] ELSE Stored(into[n - 1], old[n].key, old[n].val)
  IN  into[Len(old)]

\* computesizes: the largest power of two such that more than half of the slots up to it
\* would be in use.
ArraySize(ints) ==
  Max({0} \cup {s \in {twoto[n] : n \in 0 .. MaxBits} :
                  s \div 2 < Cardinality(ints) /\ Cardinality({k \in ints : k <= s}) > s \div 2})
\* rehash, for one more key: the keys that stay, and those of them the hash part is to hold.
Used(t, extra) == {k \in Keys : Get(t, k) # Nil} \cup {extra}
ForHash(t, extra) ==
  {k \in Used(t, extra) : k \notin 1 .. ArraySize(Used(t, extra) \cap Indices)}
Rehash(t, extra) ==
  Resize(t, ArraySize(Used(t, extra) \cap Indices), Cardinality(ForHash(t, extra)))

MustRehash(t, k) == ~(InArray(t, k) \/ NodeOf(t, k, FALSE) # 0 \/ HasRoom(t, k))
Set(t, k, v) == Stored(IF MustRehash(t, k) THEN Rehash(t, k) ELSE t, k, v)

\* Mutant: a dead key is not found.
FindIndexAlive(t, k) ==
  IF k = NoKey THEN 0
  ELSE IF InArray(t, k) THEN k
  ELSE LET p == NodeOf(t, k, FALSE) IN IF p = 0 THEN -1 ELSE Len(t.array) + p
\* findindex: the place of a key in the order of the traversal, its key dead or not; -1
\* where it is not found.
FindIndex(t, k) ==
  IF k = NoKey THEN 0
  ELSE IF InArray(t, k) THEN k
  ELSE LET p == NodeOf(t, k, TRUE) IN IF p = 0 THEN -1 ELSE Len(t.array) + p
\* The key at a place that has a value, NoKey at one that has none.
KeyAt(t, i) ==
  LET n == Len(t.array) IN
  IF i <= n THEN (IF t.array[i] = Nil THEN NoKey ELSE i)
  ELSE IF t.node[i - n].val = Nil THEN NoKey ELSE t.node[i - n].key
\* luaH_next: the places that are left.
Ahead(t, k) == {i \in FindIndex(t, k) + 1 .. Len(t.array) + Len(t.node) : KeyAt(t, i) # NoKey}

\* The binary search for a border between i, which is 0 or present, and j, which is absent.
Search(t, i, j) ==
  LET border[w \in (i .. j) \X (i .. j)] ==
        LET lo == w[1]  hi == w[2]  m == (lo + hi) \div 2 IN
        IF hi - lo <= 1 THEN lo ELSE IF Get(t, m) = Nil THEN border[<<lo, m>>] ELSE border[<<m, hi>>]
  IN  border[<<i, j>>]
\* Mutant: the search goes on with the first index that was not probed.
UnboundSearchNext(t, j) == Search(t, 0, j + 2)
\* unbound_search: doubling; past MAX_INT one after the other.
UnboundSearch(t, j) ==
  LET up[w \in (0 .. j + 1 + MaxInt) \X (0 .. j + 1 + MaxInt)] ==
        LET lo == w[1]  hi == w[2] IN
        IF Get(t, hi) = Nil THEN Search(t, lo, hi)
        ELSE IF 2 * hi <= MaxInt THEN up[<<hi, 2 * hi>>]
        ELSE Min({n \in 0 .. Cardinality(Indices) : Get(t, n + 1) = Nil})
  IN  up[<<j, j + 1>>]
Getn(t) ==
  LET j == Len(t.array) IN
  IF j > 0 /\ t.array[j] = Nil THEN Search(t, 0, j)
  ELSE IF t.node = <<>> THEN j ELSE UnboundSearch(t, j)

-----------------------------------------------------------------------------

Read(t) == [k \in Keys |-> Get(t, k)]

\* A table is created, by the constructor or lua_createtable.
TableInit ==
  /\ \E narray, nhash \in Sizes : table = New(narray, nhash)
  /\ walk = FALSE /\ at = NoKey /\ seen = {} /\ fields = Read(table)

\* The order of a traversal is undefined once a field that does not exist is assigned.
\* Bound: no hash part is asked to hold more than 2 ^ MAXBITS nodes ("table overflow").
SetField(k, v) ==
  /\ MustRehash(table, k) => Cardinality(ForHash(table, k)) <= twoto[MaxBits]
  /\ table' = Set(table, k, v) /\ fields' = Read(table')
  /\ walk' = (walk /\ fields[k] # Nil)
  /\ at' = (IF walk' THEN at ELSE NoKey) /\ seen' = (IF walk' THEN seen ELSE {})

\* luaH_resizearray, by OP_SETLIST for the values it is about to store.
ResizeArray(n) ==
  /\ n > Len(table.array) /\ ~walk
  /\ table' = Resize(table, n, Len(table.node)) /\ fields' = Read(table')
  /\ UNCHANGED <<walk, at, seen>>

\* The collector meets the table (traversetable): keys without a value die.
CollectKeys ==
  /\ LET node == table.node  dies(p) == node[p].val = Nil /\ node[p].key \in Objects IN
     table' = [table EXCEPT !.node = [p \in DOMAIN node |->
                 [node[p] EXCEPT !.dead = node[p].dead \/ dies(p)]]]
  /\ fields' = Read(table')
  /\ UNCHANGED <<walk, at, seen>>

BeginWalk == walk' = TRUE /\ at' = NoKey /\ seen' = {} /\ UNCHANGED <<table, fields>>
NextKey ==
  /\ walk /\ FindIndex(table, at) >= 0 /\ Ahead(table, at) # {}
  /\ at' = KeyAt(table, Min(Ahead(table, at)))
  /\ seen' = seen \cup {at'}
  /\ UNCHANGED <<table, walk, fields>>
EndWalk ==
  /\ walk /\ FindIndex(table, at) >= 0 /\ Ahead(table, at) = {}
  /\ walk' = FALSE /\ at' = NoKey /\ seen' = {}
  /\ UNCHANGED <<table, fields>>

TableNext ==
  \/ \E k \in Keys, v \in Values \cup {Nil} : SetField(k, v)
  \/ \E n \in Sizes : ResizeArray(n)
  \/ CollectKeys \/ BeginWalk \/ NextKey \/ EndWalk
TableSpec == TableInit /\ [][TableNext]_tableVars

-----------------------------------------------------------------------------
(* Properties.                                                              *)

\* A table is a map, whatever its parts have been resized to and whichever nodes have been
\* moved, reused or left dead; and its traversal visits every field once (luaH_set, luaH_next).
AsMap == INSTANCE TableMap WITH map <- fields, walking <- walk, visited <- seen
IsMap == AsMap!MapSpec

\* A traversal can go on after its last key was cleared, and collected: it is always found
\* (the comment at ltable.c:147), so that `next' raises no error.
KeyFound == walk => FindIndex(table, at) >= 0

\* The length of a table is a border: 0 or a present index, with an absent one behind it
\* (luaH_getn), also where the doubling would pass MAX_INT.
LengthIsBorder ==
  LET n == Getn(table) IN
  (n = 0 \/ fields[n] # Nil) /\ (n + 1 \in Indices => fields[n + 1] = Nil)
=============================================================================
