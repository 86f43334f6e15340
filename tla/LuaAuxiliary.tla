----------------------------- MODULE LuaAuxiliary -----------------------------
(***************************************************************************)
(* The references and the string buffers of the auxiliary library          *)
(* (lauxlib.c).  References are indices of a table whose index 0 begins a  *)
(* list of the free ones, kept in the table itself.  A buffer keeps what   *)
(* it cannot hold as strings on the Lua stack, which it joins so that they *)
(* stay few.                                                               *)
(***************************************************************************)
EXTENDS Integers, Sequences, SequencesExt, FiniteSetsExt

CONSTANTS
  RefValues,          \* what references are made to, nil aside
  MaxRefs,            \* bound: references at a time
  BufferSize, Limit,  \* LUAL_BUFFERSIZE and LIMIT
  MaxAdded,           \* bound: characters added to a buffer
  Lengths             \* lengths of the strings that are added as values

ASSUME LuaAuxiliaryAssumption ==
  /\ 0 \notin RefValues
  /\ MaxRefs \in Nat /\ BufferSize \in Nat \ {0} /\ Limit \in Nat \ {0, 1} /\ MaxAdded \in Nat /\ Lengths \subseteq Nat

VARIABLES
  t,       \* the table of the references; an absent index reads as 0
  refs,    \* what the program holds: the references it made, [ref, val]
  buffer,  \* characters in the array of the buffer
  stack,   \* lvl: its strings on the stack, topmost first
  added    \* how many characters were added, the numbers 1, 2, ...

auxVars == <<t, refs, buffer, stack, added>>

FreeListRef == 0
FirstFree   == t[FreeListRef]
\* What lua_objlen may answer (luaH_getn).
Borders == {n \in DOMAIN t : (n = 0 \/ t[n] # 0) /\ (n = MaxRefs \/ t[n + 1] = 0)}

AuxInit ==
  /\ t = [k \in 0 .. MaxRefs |-> 0] /\ refs = <<>>
  /\ buffer = <<>> /\ stack = <<>> /\ added = 0

\* Mutant: the index stays in the list.
TakenStill(ref, v) == [t EXCEPT ![ref] = v]
Taken(ref, v) == [t EXCEPT ![FreeListRef] = t[FirstFree], ![ref] = v]
\* luaL_ref, of a value that is not nil: a free index, which leaves the list, or a new one.
Ref(v) ==
  /\ \E ref \in IF FirstFree # 0 THEN {FirstFree} ELSE {n + 1 : n \in Borders} :
       /\ ref <= MaxRefs
       /\ t' = Taken(ref, v)
       /\ refs' = Append(refs, [ref |-> ref, val |-> v])
  /\ UNCHANGED <<buffer, stack, added>>

\* luaL_unref, of a reference the program holds.
Unref(k) ==
  /\ t' = [t EXCEPT ![refs[k].ref] = FirstFree, ![FreeListRef] = refs[k].ref]
  /\ refs' = RemoveAt(refs, k)
  /\ UNCHANGED <<buffer, stack, added>>

-----------------------------------------------------------------------------

\* adjuststack: of the strings on the stack, the topmost are joined while there are too
\* many, or while they are longer than the next.
TopLength(strings, n) == Len(FlattenSeq(SubSeq(strings, 1, n)))
AdjustStack(strings) ==
  LET lvl == Len(strings)
      enough(n) == n = lvl \/ (lvl - n + 1 < Limit /\ TopLength(strings, n) <= Len(strings[n + 1]))
      toget == Min({n \in 1 .. lvl : enough(n)})
  IN  IF lvl <= 1 THEN strings
      ELSE <<FlattenSeq(Reverse(SubSeq(strings, 1, toget)))>> \o SubSeq(strings, toget + 1, lvl)
EmptyBuffer == IF buffer = <<>> THEN stack ELSE <<buffer>> \o stack

\* luaL_addchar, which luaL_prepbuffer makes room for.
AddChar ==
  /\ added < MaxAdded /\ added' = added + 1
  /\ IF Len(buffer) < BufferSize
     THEN buffer' = Append(buffer, added') /\ UNCHANGED stack
     ELSE stack' = AdjustStack(EmptyBuffer) /\ buffer' = <<added'>>
  /\ UNCHANGED <<t, refs>>

\* Mutant: the value stays below what was in the buffer.
WithValueBelow(v) == IF buffer = <<>> THEN <<v>> \o stack ELSE <<buffer, v>> \o stack
WithValue(v) == <<v>> \o EmptyBuffer
\* luaL_addvalue.
AddValue(n) ==
  LET v == [k \in 1 .. n |-> added + k] IN
  /\ added + n <= MaxAdded /\ added' = added + n
  /\ IF n <= BufferSize - Len(buffer)
     THEN buffer' = buffer \o v /\ UNCHANGED stack
     ELSE stack' = AdjustStack(WithValue(v)) /\ buffer' = <<>>
  /\ UNCHANGED <<t, refs>>

AuxNext ==
  \/ \E v \in RefValues : Ref(v)
  \/ \E k \in DOMAIN refs : Unref(k)
  \/ AddChar \/ \E n \in Lengths : AddValue(n)
AuxSpec == AuxInit /\ [][AuxNext]_auxVars

-----------------------------------------------------------------------------
(* Properties.                                                              *)

\* Every reference that is held refers to its value, and no two are the same, although the
\* free ones are linked within the same table, in the order they were given back in, and
\* its length is only asked for where there are no holes (luaL_ref, luaL_unref).
RefsKept ==
  /\ \A k \in DOMAIN refs : t[refs[k].ref] = refs[k].val
  /\ \A k, n \in DOMAIN refs : refs[k].ref = refs[n].ref => k = n

\* What was added to a buffer is there, in the order it was added, whether in the array or
\* on the stack (luaL_pushresult joins it); where it takes fewer than LIMIT places, and so,
\* with the two that luaL_addvalue needs, less than LUA_MINSTACK.
BufferKept ==
  /\ FlattenSeq(Reverse(stack)) \o buffer = [k \in 1 .. added |-> k]
  /\ Len(stack) < Limit
=============================================================================
