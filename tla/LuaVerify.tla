------------------------------- MODULE LuaVerify -------------------------------
(***************************************************************************)
(* Symbolic execution of a function's code (ldebug.c), as luaG_checkcode   *)
(* uses it to accept the code of a precompiled chunk.                      *)
(***************************************************************************)
EXTENDS LuaCode

IsReg(p, r) == r < p.maxstack  \* checkreg
InCode(p, pc) == pc \in 0 .. Len(p.code) - 1
Ins(p, pc) == p.code[pc + 1]

\* precheck.
PreCheck(p) ==
  /\ p.maxstack <= MaxStack
  /\ p.numparams + (IF "HASARG" \in p.vararg THEN 1 ELSE 0) <= p.maxstack
  /\ "NEEDSARG" \in p.vararg => "HASARG" \in p.vararg
  /\ Len(p.upvalues) <= p.nups
  /\ p.code # <<>> /\ Last(p.code).op = "RETURN"

\* luaG_checkopenop of the instruction behind pc.
TakesOpen(p, pc) == LET i == Ins(p, pc + 1) IN i.op \in {"CALL", "TAILCALL", "RETURN", "SETLIST"} /\ i.b = 0

\* checkArgMode.
ArgFits(p, r, mode) ==
  CASE mode = "N" -> r = 0
    [] mode = "U" -> TRUE
    [] mode = "R" -> IsReg(p, r)
    [] mode = "K" -> IF IsConst(r) THEN r - BitRK < Len(p.k) ELSE IsReg(p, r)

\* The word at pc is the count of a SETLIST: an odd number of them precede it.
RECURSIVE IsCount(_, _)
IsCount(p, pc) == /\ pc > 0
                  /\ Ins(p, pc - 1).op = "SETLIST" /\ Ins(p, pc - 1).c = 0
                  /\ ~IsCount(p, pc - 1)
TargetFits(p, dest) == InCode(p, dest) /\ ~IsCount(p, dest)

OperandsFit(p, pc) ==
  LET i == Ins(p, pc)  m == OpModes[i.op] IN
  CASE m.m = "ABC"  -> ArgFits(p, i.b, m.b) /\ ArgFits(p, i.c, m.c)
    [] m.m = "ABx"  -> m.b = "K" => i.b < Len(p.k)
    [] m.m = "AsBx" -> m.b = "R" => TargetFits(p, pc + 1 + i.b)

\* What is required of each instruction besides.
Specific(p, pc) ==
  LET i == Ins(p, pc)  a == i.a  b == i.b  c == i.c  last == Len(p.code) - 1 IN
  CASE i.op = "LOADBOOL" -> c = 1 => /\ pc + 2 <= last
                                     /\ ~(Ins(p, pc + 1).op = "SETLIST" /\ Ins(p, pc + 1).c = 0)
    [] i.op \in {"GETUPVAL", "SETUPVAL"} -> b < p.nups
    [] i.op \in {"GETGLOBAL", "SETGLOBAL"} -> p.k[b + 1][1] = "string"
    [] i.op = "SELF" -> IsReg(p, a + 1)
    [] i.op = "CONCAT" -> b < c
    [] i.op = "TFORLOOP" -> c >= 1 /\ IsReg(p, a + 2 + c)
    [] i.op \in {"FORLOOP", "FORPREP"} -> IsReg(p, a + 3)
    [] i.op \in {"CALL", "TAILCALL"} -> /\ b # 0 => IsReg(p, a + b - 1)
                                        /\ c = 0 => TakesOpen(p, pc)
                                        /\ c > 1 => IsReg(p, a + c - 2)
    [] i.op = "RETURN" -> b > 1 => IsReg(p, a + b - 2)
    [] i.op = "SETLIST" -> (b > 0 => IsReg(p, a + b)) /\ (c = 0 => pc + 1 < last)
    [] i.op = "CLOSURE" -> /\ b < Len(p.p) /\ pc + p.p[b + 1].nups <= last
                           /\ \A j \in 1 .. p.p[b + 1].nups : Ins(p, pc + j).op \in {"GETUPVAL", "MOVE"}
    [] i.op = "VARARG" -> /\ "ISVARARG" \in p.vararg /\ "NEEDSARG" \notin p.vararg
                          /\ b = 0 => TakesOpen(p, pc)
                          /\ IsReg(p, a + b - 2)
    [] OTHER -> TRUE

\* luaG_checkcode: symbexec over all the code, with no register traced.
CheckCode(p) ==
  /\ PreCheck(p)
  /\ \A pc \in {x \in 0 .. Len(p.code) - 1 : ~IsCount(p, x)} :
       /\ Ins(p, pc).op \in DOMAIN OpModes /\ IsReg(p, Ins(p, pc).a)
       /\ OperandsFit(p, pc)
       /\ OpModes[Ins(p, pc).op].t => pc + 2 < Len(p.code) /\ Ins(p, pc + 1).op = "JMP"
       /\ Specific(p, pc)
=============================================================================
