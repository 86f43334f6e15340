----------------------------- MODULE MCLuaRuntime -----------------------------
(***************************************************************************)
(* The parts of the runtime that share no state with each other, as one    *)
(* instance: a behaviour is one of one part, and the others stay as they   *)
(* begin.                                                                  *)
(***************************************************************************)
EXTENDS LuaTable, LuaCall, StringMatch, TableSort, LuaAuxiliary, LuaRequire, Md5Stream

CONSTANTS o1, o2  \* two strings with the same hash

VARIABLE runs  \* the part that runs

MCObjects == {o1, o2}
MCHashOf  == [key \in Indices \cup MCObjects |-> IF key \in MCObjects THEN 1 ELSE key]

\* Every pattern of two parts, every repetition in a capture with something behind it, and
\* every part anchored; one capture in another, and the outer one again; and a capture asked
\* for while it is open.
MCSets ==
  {[op |-> "set", rep |-> r[1], set |-> r[2]] :
     r \in {<<"*", {"a"}>>, <<"-", {"a", "b"}>>, <<"1", {"b"}>>, <<"?", {"a"}>>, <<"+", {"a", "b"}>>}}
MCParts ==
  MCSets \cup {[op |-> o] : o \in {"(", ")", "()", "%1", "%b", "$"}} \cup {[op |-> "%f", set |-> {"b"}]}
MCSubjects == UNION {[1 .. n -> {"a", "b"}] : n \in 0 .. 3}
MCPatterns ==
  {pat \in UNION {[1 .. n -> MCParts] : n \in 0 .. 2} : Len(pat) = 2 => pat[1].op # "$"}
    \cup {<<[op |-> "("], x, [op |-> ")"], y>> : x \in MCSets, y \in MCParts}
    \cup {<<[op |-> "^"], x>> : x \in MCParts}
    \cup {<<[op |-> "("], x, [op |-> "("], y, [op |-> ")"], [op |-> ")"], [op |-> "%1"]>> : x, y \in MCSets}
    \cup {<<[op |-> "("], [op |-> "()"], [op |-> "%1"], [op |-> ")"]>>}

\* Six elements, two of each weight.
MCWeight == [k \in 1 .. 6 |-> (k + 1) \div 2]

MCCoroutines == Permutations(Coroutines)

\* A part that does not run begins in one state.
MCInit ==
  /\ runs \in {"table", "call", "match", "sort", "auxiliary", "require", "md5"}
  /\ IF runs = "table" THEN TableInit
     ELSE table = New(0, 0) /\ walk = FALSE /\ at = NoKey /\ seen = {} /\ fields = Read(table)
  /\ IF runs = "sort" THEN SortInit
     ELSE /\ elems = <<Absent, 1, 2, Absent>> /\ wild = FALSE /\ ranges = <<[l |-> 1, u |-> 2]>>
          /\ compare = "ends" /\ i = 0 /\ j = 0 /\ pivot = Absent
  /\ IF runs = "md5" THEN Md5Init
     ELSE /\ message = <<>> /\ wide = FALSE /\ total = <<0, 0>> /\ msglen = <<>> /\ block = <<>>
          /\ blocks = <<>> /\ fed = "nothing"
  /\ CallInit /\ MatchInit /\ AuxInit /\ RequireInit

TableStep ==
  runs = "table" /\ TableNext /\ UNCHANGED <<runs, callVars, matchVars, sortVars, auxVars, requireVars, md5Vars>>
CallStep ==
  runs = "call" /\ CallNext /\ UNCHANGED <<runs, tableVars, matchVars, sortVars, auxVars, requireVars, md5Vars>>
MatchStep ==
  runs = "match" /\ MatchNext /\ UNCHANGED <<runs, tableVars, callVars, sortVars, auxVars, requireVars, md5Vars>>
SortStep ==
  runs = "sort" /\ SortNext /\ UNCHANGED <<runs, tableVars, callVars, matchVars, auxVars, requireVars, md5Vars>>
AuxStep ==
  runs = "auxiliary" /\ AuxNext /\ UNCHANGED <<runs, tableVars, callVars, matchVars, sortVars, requireVars, md5Vars>>
RequireStep ==
  runs = "require" /\ RequireNext /\ UNCHANGED <<runs, tableVars, callVars, matchVars, sortVars, auxVars, md5Vars>>
Md5Step ==
  runs = "md5" /\ Md5Next /\ UNCHANGED <<runs, tableVars, callVars, matchVars, sortVars, auxVars, requireVars>>

MCNext == TableStep \/ CallStep \/ MatchStep \/ SortStep \/ AuxStep \/ RequireStep \/ Md5Step
MCSpec == MCInit /\ [][MCNext]_<<runs, tableVars, callVars, matchVars, sortVars, auxVars, requireVars, md5Vars>>
=============================================================================
