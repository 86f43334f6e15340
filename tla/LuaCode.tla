-------------------------------- MODULE LuaCode --------------------------------
(***************************************************************************)
(* The code generator (lcode.c) with the table of instruction formats      *)
(* (lopcodes.c).  A function of the source is an operator from the state   *)
(* of the function being compiled to the next one: the FuncState and Proto *)
(* under construction are one record s, and s.e is the expression the      *)
(* parser holds (the expdesc most functions get as their argument).        *)
(*                                                                         *)
(* Instructions are counted from 0 as in the source, instruction pc being  *)
(* s.code[pc + 1].  A Bx or sBx operand is in field b.  Line information   *)
(* is left out.  Numbers are integers, so / does not occur.  An error sets *)
(* s.error, a failed lua_assert clears s.asserted.                         *)
(***************************************************************************)
EXTENDS Integers, Sequences, SequencesExt

CONSTANTS
  MaxIndexRK,     \* MAXINDEXRK: largest constant an RK operand can name
  MaxArgC,        \* MAXARG_C
  MaxArgSBx,      \* MAXARG_sBx
  FieldsPerFlush, \* LFIELDS_PER_FLUSH
  MaxStack        \* MAXSTACK

ASSUME LuaCodeAssumption ==
  /\ MaxIndexRK \in 0 .. 255 /\ MaxArgC \in Nat \ {0} /\ MaxArgSBx \in Nat
  /\ FieldsPerFlush \in Nat \ {0} /\ MaxStack \in 3 .. 250

NoJump  == -1    \* NO_JUMP
NoReg   == 255   \* NO_REG
BitRK   == 256   \* BITRK
MultRet == -1    \* LUA_MULTRET

\* luaP_opmodes: is it a test, does it set A, what are B and C, which format.
OpModes ==
  LET Row(ops, t, a, b, c, m) == [op \in ops |-> [t |-> t, a |-> a, b |-> b, c |-> c, m |-> m]]
      Rows == <<Row({"ADD", "SUB", "MUL", "DIV", "MOD", "POW"}, FALSE, TRUE, "K", "K", "ABC"),
                Row({"MOVE", "LOADNIL", "UNM", "NOT", "LEN"}, FALSE, TRUE, "R", "N", "ABC"),
                Row({"LOADK", "GETGLOBAL"}, FALSE, TRUE, "K", "N", "ABx"),
                Row({"LOADBOOL", "NEWTABLE", "CALL", "TAILCALL"}, FALSE, TRUE, "U", "U", "ABC"),
                Row({"GETUPVAL", "VARARG"}, FALSE, TRUE, "U", "N", "ABC"),
                Row({"GETTABLE", "SELF"}, FALSE, TRUE, "R", "K", "ABC"),
                Row({"SETGLOBAL"}, FALSE, FALSE, "K", "N", "ABx"),
                Row({"SETUPVAL", "RETURN"}, FALSE, FALSE, "U", "N", "ABC"),
                Row({"SETTABLE"}, FALSE, FALSE, "K", "K", "ABC"),
                Row({"CONCAT"}, FALSE, TRUE, "R", "R", "ABC"),
                Row({"JMP"}, FALSE, FALSE, "R", "N", "AsBx"),
                Row({"EQ", "LT", "LE"}, TRUE, FALSE, "K", "K", "ABC"),
                Row({"TEST", "TESTSET"}, TRUE, TRUE, "R", "U", "ABC"),
                Row({"FORLOOP", "FORPREP"}, FALSE, TRUE, "R", "N", "AsBx"),
                Row({"TFORLOOP"}, TRUE, FALSE, "N", "U", "ABC"),
                Row({"SETLIST"}, FALSE, FALSE, "U", "U", "ABC"),
                Row({"CLOSE"}, FALSE, FALSE, "N", "N", "ABC"),
                Row({"CLOSURE"}, FALSE, TRUE, "U", "N", "ABx")>>
      RowOf(op) == CHOOSE i \in DOMAIN Rows : op \in DOMAIN Rows[i]
  IN  [op \in UNION {DOMAIN r : r \in Range(Rows)} |-> Rows[RowOf(op)][op]]

Instr(op, a, b, c) == [op |-> op, a |-> a, b |-> b, c |-> c]
Exp(k, info) == [k |-> k, info |-> info, aux |-> 0, t |-> NoJump, f |-> NoJump]
HasJumps(e)  == e.t # e.f
IsNumeral(e) == e.k = "VKNUM" /\ e.t = NoJump /\ e.f = NoJump
IsConst(x)   == x >= BitRK  \* ISK

PC(s)     == Len(s.code)
At(s, pc) == s.code[pc + 1]
Assert_(s, cond) == [s EXCEPT !.asserted = @ /\ cond]
With(s, e) == [s EXCEPT !.e = e]

-----------------------------------------------------------------------------
(* Jumps.  A list of jumps to one target is threaded through their sBx.     *)

GetJump(s, pc) == IF At(s, pc).b = NoJump THEN NoJump ELSE pc + 1 + At(s, pc).b

RECURSIVE Jumps(_, _)
Jumps(s, list) == IF list = NoJump THEN <<>> ELSE <<list>> \o Jumps(s, GetJump(s, list))

\* The test before a conditional jump; the jump itself if it is not conditional.
JumpControl(s, pc) == IF pc >= 1 /\ OpModes[At(s, pc - 1).op].t THEN pc - 1 ELSE pc

\* Does some jump of the list produce no value, or not the value tested?
NeedValue(s, list) ==
  \E j \in Range(Jumps(s, list)) : At(s, JumpControl(s, j)).op # "TESTSET"

\* A TESTSET gets its register, or becomes a TEST if its value is not wanted or is
\* there already.
PatchTestReg(s, node, reg) ==
  LET pc == JumpControl(s, node)  i == At(s, pc) IN
  IF i.op # "TESTSET" THEN s
  ELSE [s EXCEPT !.code[pc + 1] = IF reg # NoReg /\ reg # i.b THEN [i EXCEPT !.a = reg]
                                  ELSE Instr("TEST", i.b, 0, i.c)]
RemoveValues(s, list) ==
  FoldLeft(LAMBDA acc, j : PatchTestReg(acc, j, NoReg), s, Jumps(s, list))

FixJump(s, pc, dest) ==
  LET offset == dest - (pc + 1) IN
  Assert_([s EXCEPT !.code[pc + 1].b = offset,
                    !.error = @ \/ offset > MaxArgSBx \/ -offset > MaxArgSBx], dest # NoJump)

\* Jumps that carry a value go to vtarget with it in reg, the others to dtarget.
PatchListAux(s, list, vtarget, reg, dtarget) ==
  FoldLeft(LAMBDA acc, j :
             FixJump(PatchTestReg(acc, j, reg), j,
                     IF At(acc, JumpControl(acc, j)).op = "TESTSET" THEN vtarget ELSE dtarget),
           s, Jumps(s, list))
DischargeJpc(s) == [PatchListAux(s, s.jpc, PC(s), NoReg, PC(s)) EXCEPT !.jpc = NoJump]

\* luaK_concat: the list that has l1's jumps and then l2's begins at Joined.
Joined(l1, l2)  == IF l1 = NoJump THEN l2 ELSE l1
Link(s, l1, l2) == IF l1 = NoJump \/ l2 = NoJump THEN s ELSE FixJump(s, Last(Jumps(s, l1)), l2)

GetLabel(s) == [s EXCEPT !.lasttarget = PC(s)]
PatchToHere(s, list) ==
  LET l == GetLabel(s) IN [Link(l, l.jpc, list) EXCEPT !.jpc = Joined(l.jpc, list)]
PatchList(s, list, target) ==
  IF target = PC(s) THEN PatchToHere(s, list)
  ELSE Assert_(PatchListAux(s, list, target, NoReg, target), target < PC(s))

\* luaK_code and the functions that check the format first.
Code(s, op, a, b, c) ==
  LET d == DischargeJpc(s) IN
  Assert_([d EXCEPT !.code = Append(@, Instr(op, a, b, c))],
          op \in DOMAIN OpModes => /\ OpModes[op].b = "N" => b = 0
                                   /\ OpModes[op].c = "N" => c = 0)

\* A jump to here is kept on hold at the new jump, which is instruction PC - 1.
Jump(s) == Link(Code([s EXCEPT !.jpc = NoJump], "JMP", 0, NoJump, 0), PC(s), s.jpc)
CondJump(s, op, a, b, c) == Jump(Code(s, op, a, b, c))

\* luaK_nil: nothing at the start of a function, whose registers are nil; joined with
\* the instruction before if that is a LOADNIL that adjoins it.
CodeNil(s, from, n) ==
  LET prev == At(s, PC(s) - 1)
      clean == PC(s) = 0 /\ from >= s.nactvar
      joins == PC(s) > 0 /\ prev.op = "LOADNIL" /\ prev.a <= from /\ from <= prev.b + 1
  IN  CASE PC(s) > s.lasttarget /\ clean -> s
        [] PC(s) > s.lasttarget /\ joins ->
             [s EXCEPT !.code[PC(s)].b = IF from + n - 1 > @ THEN from + n - 1 ELSE @]
        [] OTHER -> Code(s, "LOADNIL", from, from + n - 1, 0)

CodeRet(s, first, nret) == Code(s, "RETURN", first, nret + 1, 0)

\* luaK_setlist: a batch number that does not fit follows as an instruction.
SetList(s, base, nelems, tostore) ==
  LET c == (nelems - 1) \div FieldsPerFlush + 1
      b == IF tostore = MultRet THEN 0 ELSE tostore
      set == IF c <= MaxArgC THEN Code(s, "SETLIST", base, b, c)
             ELSE Code(Code(s, "SETLIST", base, b, 0), "COUNT", c, 0, 0)
  IN  Assert_([set EXCEPT !.freereg = base + 1], tostore # 0)

-----------------------------------------------------------------------------
(* Registers and constants.                                                 *)

CheckStack(s, n) ==
  LET new == s.freereg + n IN
  IF new <= s.maxstack THEN s
  ELSE [s EXCEPT !.maxstack = new, !.error = @ \/ new >= MaxStack]
ReserveRegs(s, n) == [CheckStack(s, n) EXCEPT !.freereg = @ + n]

\* Mutant: the register of a variable is freed, too.
FreeRegLocal(s, reg) ==
  IF IsConst(reg) THEN s ELSE Assert_([s EXCEPT !.freereg = @ - 1], reg = s.freereg - 1)
FreeReg(s, reg) ==
  IF IsConst(reg) \/ reg < s.nactvar THEN s
  ELSE Assert_([s EXCEPT !.freereg = @ - 1], reg = s.freereg - 1)
FreeExp(s, e) == IF e.k = "VNONRELOC" THEN FreeReg(s, e.info) ELSE s

\* addk: a constant is stored once.  nil is a constant like the others.
AddK(s, v) == IF v \in Range(s.k) THEN s ELSE [s EXCEPT !.k = Append(@, v)]
IndexK(s, v) == (CHOOSE i \in 1 .. Len(s.k) : s.k[i] = v) - 1

-----------------------------------------------------------------------------
(* Expressions: where the value of s.e is, and how it gets into a register. *)

SetReturns(s, n) ==
  CASE s.e.k = "VCALL" -> [s EXCEPT !.code[s.e.info + 1].c = n + 1]
    [] s.e.k = "VVARARG" -> ReserveRegs([s EXCEPT !.code[s.e.info + 1].b = n + 1,
                                                  !.code[s.e.info + 1].a = s.freereg], 1)
    [] OTHER -> s
SetMultRet(s) == SetReturns(s, MultRet)

SetOneRet(s) ==
  CASE s.e.k = "VCALL" -> [s EXCEPT !.e.k = "VNONRELOC", !.e.info = At(s, s.e.info).a]
    [] s.e.k = "VVARARG" -> [s EXCEPT !.code[s.e.info + 1].b = 2, !.e.k = "VRELOCABLE"]
    [] OTHER -> s

\* An expression whose value instruction PC - 1 leaves in a register to be chosen.
Relocable(s) == [s EXCEPT !.e.info = PC(s) - 1, !.e.k = "VRELOCABLE"]

DischargeVars(s) ==
  CASE s.e.k = "VLOCAL"   -> [s EXCEPT !.e.k = "VNONRELOC"]
    [] s.e.k = "VUPVAL"   -> Relocable(Code(s, "GETUPVAL", 0, s.e.info, 0))
    [] s.e.k = "VGLOBAL"  -> Relocable(Code(s, "GETGLOBAL", 0, s.e.info, 0))
    [] s.e.k = "VINDEXED" -> Relocable(Code(FreeReg(FreeReg(s, s.e.aux), s.e.info),
                                            "GETTABLE", 0, s.e.info, s.e.aux))
    [] OTHER -> SetOneRet(s)

Discharge2Reg(s, reg) ==
  LET d == DischargeVars(s)
      put == CASE d.e.k = "VNIL" -> CodeNil(d, reg, 1)
               [] d.e.k \in {"VFALSE", "VTRUE"} ->
                    Code(d, "LOADBOOL", reg, IF d.e.k = "VTRUE" THEN 1 ELSE 0, 0)
               [] d.e.k = "VK" -> Code(d, "LOADK", reg, d.e.info, 0)
               [] d.e.k = "VKNUM" ->
                    LET a == AddK(d, <<"number", d.e.info>>)
                    IN  Code(a, "LOADK", reg, IndexK(a, <<"number", d.e.info>>), 0)
               [] d.e.k = "VRELOCABLE" -> [d EXCEPT !.code[d.e.info + 1].a = reg]
               [] d.e.k = "VNONRELOC" ->
                    IF reg = d.e.info THEN d ELSE Code(d, "MOVE", reg, d.e.info, 0)
  IN  IF d.e.k \in {"VVOID", "VJMP"} THEN d
      ELSE [put EXCEPT !.e.info = reg, !.e.k = "VNONRELOC"]

Discharge2AnyReg(s) ==
  IF s.e.k = "VNONRELOC" THEN s
  ELSE LET r == ReserveRegs(s, 1) IN Discharge2Reg(r, r.freereg - 1)

\* exp2reg: the value into reg, at the end of all the jumps that bring one there or
\* to two LOADBOOLs for those that do not.
Exp2Reg(s, reg) ==
  LET d == Discharge2Reg(s, reg)
      j == IF d.e.k = "VJMP" THEN [Link(d, d.e.t, d.e.info) EXCEPT !.e.t = Joined(@, d.e.info)]
           ELSE d
      need == NeedValue(j, j.e.t) \/ NeedValue(j, j.e.f)
      over == IF ~need \/ j.e.k = "VJMP" THEN j ELSE Jump(j)  \* around the LOADBOOLs
      fj   == IF ~need \/ j.e.k = "VJMP" THEN NoJump ELSE PC(over) - 1
      lf   == Code(GetLabel(over), "LOADBOOL", reg, 0, 1)
      lt   == Code(GetLabel(lf), "LOADBOOL", reg, 1, 0)
      all  == GetLabel(IF need THEN PatchToHere(lt, fj) ELSE j)
      p_f  == IF need THEN PC(lf) - 1 ELSE NoJump
      p_t  == IF need THEN PC(lt) - 1 ELSE NoJump
      patched == PatchListAux(PatchListAux(all, j.e.f, PC(all), reg, p_f), j.e.t, PC(all), reg, p_t)
  IN  With(IF HasJumps(j.e) THEN patched ELSE j, Exp("VNONRELOC", reg))

Exp2NextReg(s) ==
  LET d == DischargeVars(s)
      r == ReserveRegs(FreeExp(d, d.e), 1)
  IN  Exp2Reg(r, r.freereg - 1)

Exp2AnyReg(s) ==
  LET d == DischargeVars(s) IN
  CASE d.e.k = "VNONRELOC" /\ ~HasJumps(d.e) -> d
    [] d.e.k = "VNONRELOC" /\ HasJumps(d.e) /\ d.e.info >= d.nactvar -> Exp2Reg(d, d.e.info)
    [] OTHER -> Exp2NextReg(d)

Exp2Val(s) == IF HasJumps(s.e) THEN Exp2AnyReg(s) ELSE DischargeVars(s)

\* luaK_exp2RK: a constant if an operand can name it, else a register; RK is the operand.
Exp2RK(s) ==
  LET v == Exp2Val(s)
      value == CASE v.e.k = "VNIL" -> <<"nil">> [] v.e.k = "VKNUM" -> <<"number", v.e.info>>
                 [] OTHER -> <<"boolean", v.e.k = "VTRUE">>
      a == AddK(v, value)
  IN  CASE v.e.k \in {"VKNUM", "VTRUE", "VFALSE", "VNIL"} /\ Len(v.k) <= MaxIndexRK ->
             [a EXCEPT !.e.info = IndexK(a, value), !.e.k = "VK"]
        [] v.e.k = "VK" /\ v.e.info <= MaxIndexRK -> v
        [] OTHER -> Exp2AnyReg(v)
RK(e) == IF e.k = "VK" THEN BitRK + (e.info % (MaxIndexRK + 1)) ELSE e.info

\* s.e is stored in the variable var.
StoreVar(s, var) ==
  LET r == Exp2AnyReg(s)  c == Exp2RK(s) IN
  CASE var.k = "VLOCAL"   -> Exp2Reg(FreeExp(s, s.e), var.info)
    [] var.k = "VUPVAL"   -> FreeExp(Code(r, "SETUPVAL", r.e.info, var.info, 0), r.e)
    [] var.k = "VGLOBAL"  -> FreeExp(Code(r, "SETGLOBAL", r.e.info, var.info, 0), r.e)
    [] var.k = "VINDEXED" -> FreeExp(Code(c, "SETTABLE", var.info, var.aux, RK(c.e)), c.e)

\* s.e becomes s.e[key], s.e:key: the key is indexed by the constant or register.
Indexed(s, t) == LET k == Exp2RK(s) IN With(k, [t EXCEPT !.aux = RK(k.e), !.k = "VINDEXED"])
Self(s, key) ==
  LET o == Exp2AnyReg(s)
      f == FreeExp(o, o.e)
      k == Exp2RK(With(ReserveRegs(f, 2), key))
      c == Code(k, "SELF", f.freereg, o.e.info, RK(k.e))
  IN  With(FreeExp(c, k.e), [o.e EXCEPT !.info = f.freereg, !.k = "VNONRELOC"])

-----------------------------------------------------------------------------
(* Conditions and operators.                                                *)

InvertJump(s) ==
  LET pc == JumpControl(s, s.e.info) IN
  Assert_([s EXCEPT !.code[pc + 1].a = 1 - @], At(s, pc).op \in {"EQ", "LT", "LE", "TFORLOOP"})

\* Jump if s.e is not cond; a NOT just coded is taken back.
JumpOnCond(s, cond) ==
  LET i == At(s, s.e.info)
      r == Discharge2AnyReg(s)
  IN  IF s.e.k = "VRELOCABLE" /\ i.op = "NOT"
      THEN CondJump([s EXCEPT !.code = Front(@)], "TEST", i.b, 0, 1 - cond)
      ELSE CondJump(FreeExp(r, r.e), "TESTSET", NoReg, r.e.info, cond)

\* Go on if s.e is true (false), jump from the end of the list e.f (e.t) otherwise.
GoIfTrue(s) ==
  LET d == DischargeVars(s)
      j == CASE d.e.k \in {"VK", "VKNUM", "VTRUE"} -> d
             [] d.e.k = "VJMP" -> InvertJump(d)
             [] OTHER -> JumpOnCond(d, 0)
      pc == CASE d.e.k \in {"VK", "VKNUM", "VTRUE"} -> NoJump
              [] d.e.k = "VJMP" -> d.e.info
              [] OTHER -> PC(j) - 1
  IN  [PatchToHere(Link(j, j.e.f, pc), j.e.t) EXCEPT !.e.f = Joined(@, pc), !.e.t = NoJump]
GoIfFalse(s) ==
  LET d == DischargeVars(s)
      j == IF d.e.k \in {"VNIL", "VFALSE", "VJMP"} THEN d ELSE JumpOnCond(d, 1)
      pc == CASE d.e.k \in {"VNIL", "VFALSE"} -> NoJump
              [] d.e.k = "VJMP" -> d.e.info
              [] OTHER -> PC(j) - 1
  IN  [PatchToHere(Link(j, j.e.t, pc), j.e.f) EXCEPT !.e.t = Joined(@, pc), !.e.f = NoJump]

CodeNot(s) ==
  LET d == DischargeVars(s)
      r == Discharge2AnyReg(d)
      n == CASE d.e.k \in {"VNIL", "VFALSE"} -> [d EXCEPT !.e.k = "VTRUE"]
             [] d.e.k \in {"VK", "VKNUM", "VTRUE"} -> [d EXCEPT !.e.k = "VFALSE"]
             [] d.e.k = "VJMP" -> InvertJump(d)
             [] OTHER -> LET c == Code(FreeExp(r, r.e), "NOT", 0, r.e.info, 0)
                         IN  Relocable(With(c, r.e))
      x == [n EXCEPT !.e.f = n.e.t, !.e.t = n.e.f]
  IN  RemoveValues(RemoveValues(x, x.e.f), x.e.t)

Power(x, y) == LET p[i \in 0 .. y] == IF i = 0 THEN 1 ELSE x * p[i - 1] IN p[y]
Arith(op, x, y) ==
  CASE op = "ADD" -> x + y [] op = "SUB" -> x - y [] op = "MUL" -> x * y
    [] op = "MOD" -> x % y [] op = "POW" -> Power(x, y) [] op = "UNM" -> -x

\* constfolding: numerals are computed at once, unless the result is not a number.
Folds_(op, e1, e2) ==
  /\ IsNumeral(e1) /\ IsNumeral(e2) /\ op \notin {"LEN", "CONCAT"}
  /\ op \in {"DIV", "MOD"} => e2.info # 0

\* Operators on e1 and s.e.
CodeArith(s, op, e1) ==
  LET b == IF op \in {"UNM", "LEN"} THEN s ELSE Exp2RK(s)
      a == Exp2RK(With(b, e1))
      o1 == RK(a.e)
      o2 == IF op \in {"UNM", "LEN"} THEN 0 ELSE RK(b.e)
      f == IF o1 > o2 THEN FreeExp(FreeExp(a, a.e), b.e) ELSE FreeExp(FreeExp(a, b.e), a.e)
  IN  IF Folds_(op, e1, s.e) THEN With(s, [e1 EXCEPT !.info = Arith(op, e1.info, s.e.info)])
      ELSE Relocable(Code(f, op, 0, o1, o2))

\* > and >= are < and <= with their operands exchanged.
CodeComp(s, op, cond, e1) ==
  LET a == Exp2RK(With(s, e1))
      b == Exp2RK(With(a, s.e))
      f == FreeExp(FreeExp(b, b.e), a.e)
      swap == cond = 0 /\ op # "EQ"
      j == IF swap THEN CondJump(f, op, 1, RK(b.e), RK(a.e)) ELSE CondJump(f, op, cond, RK(a.e), RK(b.e))
  IN  With(j, [a.e EXCEPT !.info = PC(j) - 1, !.k = "VJMP"])

Prefix(s, op) ==
  LET zero == Exp("VKNUM", 0)
      r == IF op = "-" /\ IsNumeral(s.e) THEN s ELSE Exp2AnyReg(s)
  IN  CASE op = "not" -> CodeNot(s)
        [] op = "-" -> CodeArith(With(r, zero), "UNM", r.e)
        [] op = "#" -> CodeArith(With(r, zero), "LEN", r.e)

\* What must be coded of the first operand before the second is read.
Infix(s, op) ==
  CASE op = "and" -> GoIfTrue(s)
    [] op = "or"  -> GoIfFalse(s)
    [] op = ".."  -> Exp2NextReg(s)
    [] op \in {"+", "-", "*", "/", "%", "^"} /\ IsNumeral(s.e) -> s
    [] OTHER -> Exp2RK(s)

ArithOp == [o \in {"+", "-", "*", "/", "%", "^"} |->
              CASE o = "+" -> "ADD" [] o = "-" -> "SUB" [] o = "*" -> "MUL"
                [] o = "/" -> "DIV" [] o = "%" -> "MOD" [] o = "^" -> "POW"]

Posfix(s, op, e1) ==
  LET d == DischargeVars(s)
      v == Exp2Val(s)
      i == At(v, v.e.info)
  IN  CASE op = "and" -> Assert_([Link(d, d.e.f, e1.f) EXCEPT !.e.f = Joined(@, e1.f)], e1.t = NoJump)
        [] op = "or"  -> Assert_([Link(d, d.e.t, e1.t) EXCEPT !.e.t = Joined(@, e1.t)], e1.f = NoJump)
        [] op = ".." /\ v.e.k = "VRELOCABLE" /\ i.op = "CONCAT" ->
             LET c == Assert_([FreeExp(v, e1) EXCEPT !.code[v.e.info + 1].b = e1.info], e1.info = i.b - 1)
             IN  With(c, [e1 EXCEPT !.k = "VRELOCABLE", !.info = v.e.info])
        [] op = ".." -> CodeArith(Exp2NextReg(v), "CONCAT", e1)
        [] op \in DOMAIN ArithOp -> CodeArith(s, ArithOp[op], e1)
        [] op = "==" -> CodeComp(s, "EQ", 1, e1)
        [] op = "~=" -> CodeComp(s, "EQ", 0, e1)
        [] op = "<"  -> CodeComp(s, "LT", 1, e1)
        [] op = "<=" -> CodeComp(s, "LE", 1, e1)
        [] op = ">"  -> CodeComp(s, "LT", 0, e1)
        [] op = ">=" -> CodeComp(s, "LE", 0, e1)
=============================================================================
