------------------------------- MODULE LuaParser -------------------------------
(***************************************************************************)
(* The parser (lparser.c): one operator per grammar rule, from the state s *)
(* in front of the phrase to the state behind it, the code of the phrase   *)
(* having been generated on the way.  Besides the fields of the code       *)
(* generator, s has the tokens with the position of the next one, the      *)
(* function around this one (s.prev, if s.level > 0) and s.n, the number   *)
(* a C function would return.  Tokens are <<kind>> or <<kind, value>>.     *)
(*                                                                         *)
(* Line numbers, and the texts of errors, are left out; after an error     *)
(* only the end of the input is read.                                      *)
(***************************************************************************)
EXTENDS LuaCode

CONSTANTS
  MaxVars,      \* LUAI_MAXVARS
  MaxUpvalues,  \* LUAI_MAXUPVALUES
  MaxLevels     \* LUAI_MAXCCALLS: nesting of phrases

ASSUME LuaParserAssumption == MaxVars \in Nat /\ MaxUpvalues \in Nat /\ MaxLevels \in Nat

Token(s, i) == IF i <= Len(s.toks) THEN s.toks[i] ELSE <<"EOS">>
Tok(s)   == Token(s, s.p)[1]
Value(s) == Token(s, s.p)[2]
Skip(s)  == [s EXCEPT !.p = @ + 1]  \* luaX_next
SyntaxError(s)   == [s EXCEPT !.error = TRUE, !.p = Len(s.toks) + 1]
Limit(s, ok)     == IF ok THEN s ELSE SyntaxError(s)  \* luaY_checklimit, check_condition
CheckNext(s, t)  == IF Tok(s) = t THEN Skip(s) ELSE SyntaxError(s)
TestNext(s, t)   == IF Tok(s) = t THEN Skip(s) ELSE s
Enter(s) == Limit([s EXCEPT !.depth = @ + 1], s.depth < MaxLevels)
Leave(s) == [s EXCEPT !.depth = @ - 1]

HasMultRet(k) == k \in {"VCALL", "VVARARG"}
BlockFollow == {"else", "elseif", "end", "until", "EOS"}

\* A string constant as the expression; the name at hand; either followed by its end.
CodeString(s, v) ==
  LET a == AddK(s, <<"string", v>>) IN With(a, Exp("VK", IndexK(a, <<"string", v>>)))
CheckName(s) == Skip(CodeString(Limit(s, Tok(s) = "NAME"), IF Tok(s) = "NAME" THEN Value(s) ELSE ""))

-----------------------------------------------------------------------------
(* Variables and blocks.                                                    *)

\* The n-th variable to be declared; it is visible after AdjustLocalVars.
NewLocalVar(s, name, n) ==
  Limit([s EXCEPT !.locvars = Append(@, [name |-> name, startpc |-> 0, endpc |-> 0]),
                  !.actvar  = Append(SubSeq(@, 1, s.nactvar + n), Len(s.locvars) + 1)],
        s.nactvar + n + 1 <= MaxVars)
AdjustLocalVars(s, n) ==
  LET new == {s.actvar[i] : i \in s.nactvar + 1 .. s.nactvar + n} IN
  [s EXCEPT !.nactvar = @ + n,
            !.locvars = [i \in DOMAIN @ |-> IF i \in new THEN [@[i] EXCEPT !.startpc = PC(s)] ELSE @[i]]]
RemoveVars(s, tolevel) ==
  LET old == {s.actvar[i] : i \in tolevel + 1 .. s.nactvar} IN
  [s EXCEPT !.nactvar = tolevel,
            !.locvars = [i \in DOMAIN @ |-> IF i \in old THEN [@[i] EXCEPT !.endpc = PC(s)] ELSE @[i]]]

\* The innermost variable of the name, or -1.
SearchVar(s, name) ==
  Max({-1} \cup {i \in 0 .. s.nactvar - 1 : s.locvars[s.actvar[i + 1]].name = name})

IndexUpvalue(s, name, v) ==
  LET u == [name |-> name, k |-> v.k, info |-> v.info]
      same(x) == x.k = v.k /\ x.info = v.info IN
  IF \E x \in Range(s.upvalues) : same(x)
  THEN Assert_(s, u \in Range(s.upvalues))
  ELSE Limit([s EXCEPT !.upvalues = Append(@, u)], Len(s.upvalues) + 1 <= MaxUpvalues)
UpvalueIndex(s, v) ==
  (CHOOSE i \in DOMAIN s.upvalues : s.upvalues[i].k = v.k /\ s.upvalues[i].info = v.info) - 1

\* The block that declares the variable must close it when it is left.
MarkUpval(s, level) ==
  LET outer == {i \in DOMAIN s.bl : s.bl[i].nactvar <= level} IN
  IF outer = {} THEN s ELSE [s EXCEPT !.bl[Max(outer)].upval = TRUE]

\* A name is a local variable, an upvalue (also of all functions in between) or global.
RECURSIVE SingleVarAux(_, _, _)
SingleVarAux(s, name, base) ==
  LET v  == SearchVar(s, name)
      up == SingleVarAux(s.prev, name, FALSE)
      x  == IndexUpvalue([s EXCEPT !.prev = up], name, up.e)
  IN  CASE v >= 0 -> With(IF base THEN s ELSE MarkUpval(s, v), Exp("VLOCAL", v))
        [] v < 0 /\ s.level = 0 -> With(s, Exp("VGLOBAL", NoReg))
        [] v < 0 /\ s.level > 0 ->
             IF up.e.k = "VGLOBAL" THEN With(s, up.e)
             ELSE With(x, Exp("VUPVAL", UpvalueIndex(x, up.e)))
SingleVar(s) ==
  LET v == SingleVarAux(Skip(s), Value(s), TRUE)
      k == CodeString(v, Value(s))
  IN  CASE Tok(s) # "NAME" -> SyntaxError(s)
        [] Tok(s) = "NAME" /\ v.e.k = "VGLOBAL" -> With(k, Exp("VGLOBAL", k.e.info))
        [] OTHER -> v

\* n values for nvars variables: the last expression makes up the difference.
AdjustAssign(s, nvars, nexps) ==
  LET extra == nvars - nexps
      multi == IF extra + 1 < 0 THEN 0 ELSE extra + 1
      r == SetReturns(s, multi)
      x == IF s.e.k = "VVOID" THEN s ELSE Exp2NextReg(s)
  IN  CASE HasMultRet(s.e.k) -> IF multi > 1 THEN ReserveRegs(r, multi - 1) ELSE r
        [] ~HasMultRet(s.e.k) /\ extra > 0 -> CodeNil(ReserveRegs(x, extra), x.freereg, extra)
        [] OTHER -> x

EnterBlock(s, isbreakable) ==
  Assert_([s EXCEPT !.bl = Append(@, [breaklist |-> NoJump, isbreakable |-> isbreakable,
                                      nactvar |-> s.nactvar, upval |-> FALSE])],
          s.freereg = s.nactvar)
LeaveBlock(s) ==
  LET bl == Last(s.bl)
      r  == RemoveVars([s EXCEPT !.bl = Front(@)], bl.nactvar)
      c  == IF bl.upval THEN Code(r, "CLOSE", bl.nactvar, 0, 0) ELSE r
  IN  PatchToHere(Assert_([c EXCEPT !.freereg = c.nactvar], ~bl.isbreakable \/ ~bl.upval),
                  bl.breaklist)

\* A function inside another: a fresh state around the same tokens.
Fresh(toks, p, level, depth, prev) ==
  [toks |-> toks, p |-> p, level |-> level, depth |-> depth, prev |-> prev,
   code |-> <<>>, jpc |-> NoJump, lasttarget |-> -1, freereg |-> 0, k |-> <<>>, protos |-> <<>>,
   locvars |-> <<>>, actvar |-> <<>>, nactvar |-> 0, bl |-> <<>>, upvalues |-> <<>>,
   numparams |-> 0, vararg |-> {}, maxstack |-> 2, error |-> FALSE, asserted |-> TRUE,
   e |-> Exp("VVOID", 0), n |-> 0]
OpenFunc(s) == Fresh(s.toks, s.p, s.level + 1, s.depth, s)

Proto(s) == [code |-> s.code, k |-> s.k, p |-> s.protos, upvalues |-> [i \in DOMAIN s.upvalues |-> s.upvalues[i].name],
             nups |-> Len(s.upvalues), locvars |-> s.locvars, numparams |-> s.numparams,
             vararg |-> s.vararg, maxstack |-> s.maxstack]
CloseFunc(s) == LET r == CodeRet(RemoveVars(s, 0), 0, 0) IN Assert_(r, r.bl = <<>>)

\* The closure, and where each of its upvalues comes from.
PushClosure(s, inner) ==
  LET c == Code([s EXCEPT !.protos = Append(@, Proto(inner))], "CLOSURE", 0, Len(s.protos), 0)
  IN  With(FoldLeft(LAMBDA acc, u : Code(acc, IF u.k = "VLOCAL" THEN "MOVE" ELSE "GETUPVAL", 0, u.info, 0),
                    c, inner.upvalues),
           Exp("VRELOCABLE", PC(c) - 1))

-----------------------------------------------------------------------------
(* Expressions.                                                             *)

RECURSIVE SubExpr(_, _)
RECURSIVE Chunk(_)
Expr(s) == SubExpr(s, 0)

\* '.' or ':' NAME, and '[' expr ']'.
Field(s)  == LET t == Exp2AnyReg(s) IN Indexed(CheckName(Skip(t)), t.e)
YIndex(s) == CheckNext(Exp2Val(Expr(Skip(s))), "]")

\* Constructors: the table is in register t; v is the last list item read, na counts
\* the items, tostore those not stored yet.
RecField(s, t) ==
  LET key == Exp2RK(CheckNext(IF Tok(s) = "NAME" THEN CheckName(s) ELSE YIndex(s), "="))
      val == Exp2RK(Expr(key))
  IN  [Code(val, "SETTABLE", t, RK(key.e), RK(val.e)) EXCEPT !.freereg = s.freereg]

CloseListField(s, t, cc) ==
  LET x == Exp2NextReg(With(s, cc.v)) IN
  IF cc.v.k = "VVOID" THEN s
  ELSE IF cc.tostore = FieldsPerFlush THEN SetList(x, t, cc.na, cc.tostore) ELSE x
LastListField(s, t, cc) ==
  LET v == With(s, cc.v) IN
  CASE cc.tostore = 0 -> s
    [] cc.tostore > 0 /\ HasMultRet(cc.v.k) -> SetList(SetMultRet(v), t, cc.na, MultRet)
    [] OTHER -> SetList(IF cc.v.k = "VVOID" THEN s ELSE Exp2NextReg(v), t, cc.na, cc.tostore)

RECURSIVE Fields(_, _, _)
Fields(s, t, cc) ==
  LET c    == CloseListField(s, t, cc)
      flat == [cc EXCEPT !.v = Exp("VVOID", 0),
                         !.tostore = IF cc.v.k # "VVOID" /\ @ = FieldsPerFlush THEN 0 ELSE @]
      rec  == Tok(s) = "[" \/ (Tok(s) = "NAME" /\ Token(s, s.p + 1)[1] = "=")
      x    == IF rec THEN RecField(c, t) ELSE Expr(c)
      next == IF rec THEN [flat EXCEPT !.nh = @ + 1]
              ELSE [flat EXCEPT !.v = x.e, !.na = @ + 1, !.tostore = @ + 1]
      ok   == Assert_(x, s.asserted /\ (cc.v.k = "VVOID" \/ cc.tostore > 0))
  IN  CASE Tok(s) = "}" -> [s |-> s, cc |-> cc]
        [] Tok(s) # "}" /\ Tok(ok) \in {",", ";"} -> Fields(Skip(ok), t, next)
        [] OTHER -> [s |-> ok, cc |-> next]
Constructor(s) ==
  LET pc == PC(s)
      t == Exp2NextReg(With(Code(s, "NEWTABLE", 0, 0, 0), Exp("VRELOCABLE", pc)))
      f == Fields(CheckNext(t, "{"), t.e.info,
                  [v |-> Exp("VVOID", 0), na |-> 0, nh |-> 0, tostore |-> 0])
      l == LastListField(CheckNext(f.s, "}"), t.e.info, f.cc)
      uncounted == f.cc.tostore > 0 /\ HasMultRet(f.cc.v.k)
  IN  With([l EXCEPT !.code[pc + 1].b = IF uncounted THEN f.cc.na - 1 ELSE f.cc.na,
                     !.code[pc + 1].c = f.cc.nh], t.e)

\* Parameters; `...' declares the table arg too, which is made unless `...' is used.
RECURSIVE Params(_, _)
Params(s, n) ==
  CASE Tok(s) = "NAME" -> LET v == NewLocalVar(Skip(s), Value(s), n) IN
                          IF Tok(v) = "," THEN Params(Skip(v), n + 1) ELSE [v EXCEPT !.n = n + 1]
    [] Tok(s) = "..." -> [NewLocalVar(Skip(s), "arg", n)
                            EXCEPT !.n = n + 1, !.vararg = {"HASARG", "NEEDSARG", "ISVARARG"}]
    [] OTHER -> SyntaxError(s)
ParList(s) ==
  LET p == IF Tok(s) = ")" THEN [s EXCEPT !.n = 0] ELSE Params(s, 0)
      a == AdjustLocalVars(p, IF p.error THEN 0 ELSE p.n)
  IN  ReserveRegs([a EXCEPT !.numparams = IF "HASARG" \in a.vararg THEN a.nactvar - 1 ELSE a.nactvar],
                  a.nactvar)

Body(s, needself) ==
  LET o == CheckNext(OpenFunc(s), "(")
      self == IF needself THEN AdjustLocalVars(NewLocalVar(o, "self", 0), 1) ELSE o
      f == CloseFunc(CheckNext(Chunk(CheckNext(ParList(self), ")")), "end"))
      outer == [f.prev EXCEPT !.p = f.p, !.error = @ \/ f.error, !.asserted = @ /\ f.asserted]
  IN  PushClosure(outer, f)

RECURSIVE ExpList(_)
ExpList1(s) == ExpList([Expr(s) EXCEPT !.n = 1])
ExpList(s) ==
  IF Tok(s) = "," THEN ExpList([Expr(Exp2NextReg(Skip(s))) EXCEPT !.n = s.n + 1]) ELSE s

\* The function is in register s.e.info; the call leaves one result there.
FuncArgs(s) ==
  LET base == s.e.info
      none == With(s, Exp("VVOID", 0))
      args == CASE Tok(s) = "(" ->
                     IF Token(s, s.p + 1)[1] = ")" THEN Skip(Skip(none))
                     ELSE CheckNext(SetMultRet(ExpList1(Skip(s))), ")")
                [] Tok(s) = "{" -> Constructor(s)
                [] Tok(s) = "STRING" -> Skip(CodeString(s, Value(s)))
                [] OTHER -> SyntaxError(none)
      x == IF args.e.k = "VVOID" \/ HasMultRet(args.e.k) THEN args ELSE Exp2NextReg(args)
      nparams == IF HasMultRet(args.e.k) THEN MultRet ELSE x.freereg - (base + 1)
      c == Code(x, "CALL", base, nparams + 1, 2)
  IN  Assert_(With([c EXCEPT !.freereg = base + 1], Exp("VCALL", PC(c) - 1)), s.e.k = "VNONRELOC")

PrefixExp(s) ==
  CASE Tok(s) = "(" -> DischargeVars(CheckNext(Expr(Skip(s)), ")"))
    [] Tok(s) = "NAME" -> SingleVar(s)
    [] OTHER -> SyntaxError(s)
RECURSIVE Selectors(_)
Selectors(s) ==
  LET o == Exp2AnyReg(s)
      name == CheckName(Skip(s))
  IN  CASE Tok(s) = "." -> Selectors(Field(s))
        [] Tok(s) = "[" -> Selectors(Indexed(YIndex(o), o.e))
        [] Tok(s) = ":" -> Selectors(FuncArgs(Self(With(name, s.e), name.e)))
        [] Tok(s) \in {"(", "{", "STRING"} -> Selectors(FuncArgs(Exp2NextReg(s)))
        [] OTHER -> s
PrimaryExp(s) == Selectors(PrefixExp(s))

SimpleExp(s) ==
  CASE Tok(s) = "NUMBER" -> Skip(With(s, Exp("VKNUM", Value(s))))
    [] Tok(s) = "STRING" -> Skip(CodeString(s, Value(s)))
    [] Tok(s) = "nil"    -> Skip(With(s, Exp("VNIL", 0)))
    [] Tok(s) = "true"   -> Skip(With(s, Exp("VTRUE", 0)))
    [] Tok(s) = "false"  -> Skip(With(s, Exp("VFALSE", 0)))
    [] Tok(s) = "..." ->
         LET v == Code([s EXCEPT !.vararg = @ \ {"NEEDSARG"}], "VARARG", 0, 1, 0) IN
         IF s.vararg = {} THEN SyntaxError(s) ELSE Skip(With(v, Exp("VVARARG", PC(v) - 1)))
    [] Tok(s) = "{" -> Constructor(s)
    [] Tok(s) = "function" -> Body(Skip(s), FALSE)
    [] OTHER -> PrimaryExp(s)

\* Left and right priority of the binary operators.
Priority ==
  [o \in {"+", "-", "*", "/", "%", "^", "..", "~=", "==", "<", "<=", ">", ">=", "and", "or"} |->
     CASE o \in {"+", "-"} -> <<6, 6>> [] o \in {"*", "/", "%"} -> <<7, 7>>
       [] o = "^" -> <<10, 9>> [] o = ".." -> <<5, 4>>
       [] o \in {"~=", "==", "<", "<=", ">", ">="} -> <<3, 3>>
       [] o = "and" -> <<2, 2>> [] o = "or" -> <<1, 1>>]
UnaryPriority == 8

RECURSIVE Operators(_, _)
Operators(s, limit) ==
  LET op == Tok(s)
      i  == Infix(Skip(s), op)
  IN  IF op \notin DOMAIN Priority \/ Priority[op][1] <= limit THEN s
      ELSE Operators(Posfix(SubExpr(i, Priority[op][2]), op, i.e), limit)
SubExpr(s, limit) ==
  LET u == Enter(s)
      x == IF Tok(u) \in {"not", "-", "#"} THEN Prefix(SubExpr(Skip(u), UnaryPriority), Tok(u))
           ELSE SimpleExp(u)
  IN  Leave(Operators(x, limit))

-----------------------------------------------------------------------------
(* Statements.                                                              *)

Block(s) ==
  LET c == Chunk(EnterBlock(s, FALSE)) IN LeaveBlock(Assert_(c, Last(c.bl).breaklist = NoJump))

\* Mutant: the variables assigned before are not looked at.
ConflictsNone(s, lhs, v) == [s |-> s, lhs |-> lhs]
\* check_conflict: a local variable about to be assigned is the table or the key of a
\* variable to its left, which gets a copy.
Conflicts(s, lhs, v) ==
  LET hit(x)  == x.k = "VINDEXED" /\ (x.info = v.info \/ x.aux = v.info)
      safe(x) == [x EXCEPT !.info = IF @ = v.info THEN s.freereg ELSE @,
                           !.aux  = IF @ = v.info THEN s.freereg ELSE @]
  IN  IF v.k # "VLOCAL" \/ ~(\E i \in DOMAIN lhs : hit(lhs[i])) THEN [s |-> s, lhs |-> lhs]
      ELSE [s |-> ReserveRegs(Code(s, "MOVE", s.freereg, v.info, 0), 1),
            lhs |-> [i \in DOMAIN lhs |-> IF hit(lhs[i]) THEN safe(lhs[i]) ELSE lhs[i]]]

\* The variables lhs are assigned from the last to the first, s.e to the last.
StoreAll(s, lhs) ==
  FoldRight(LAMBDA v, acc : StoreVar(With(acc, Exp("VNONRELOC", acc.freereg - 1)), v), lhs, s)
RECURSIVE Assignment(_, _)
Assignment(s, lhs) ==
  LET v == PrimaryExp(Skip(s))
      c == Conflicts(v, lhs, v.e)
      x == ExpList1(CheckNext(s, "="))
      nvars == Len(lhs)
      a == AdjustAssign(x, nvars, x.n)
  IN  CASE \E i \in DOMAIN lhs : lhs[i].k \notin {"VLOCAL", "VUPVAL", "VGLOBAL", "VINDEXED"} -> SyntaxError(s)
        [] Tok(s) = "," -> Assignment(c.s, Append(c.lhs, v.e))
        [] OTHER -> IF x.n = nvars
                    THEN StoreAll(StoreVar(SetOneRet(x), Last(lhs)), Front(lhs))
                    ELSE StoreAll([a EXCEPT !.freereg = IF x.n > nvars THEN @ - (x.n - nvars) ELSE @], lhs)

\* The list of jumps taken if the condition is false is s.e.f.
Cond(s) == LET x == Expr(s) IN GoIfTrue(IF x.e.k = "VNIL" THEN [x EXCEPT !.e.k = "VFALSE"] ELSE x)

\* Mutant: variables captured inside the loop are left open.
BreakOpen(s) ==
  LET i == Max({0} \cup {j \in DOMAIN s.bl : s.bl[j].isbreakable})
      j == Jump(s)
  IN  IF i = 0 THEN SyntaxError(s)
      ELSE [Link(j, s.bl[i].breaklist, PC(j) - 1) EXCEPT !.bl[i].breaklist = Joined(@, PC(j) - 1)]
BreakStat(s) ==
  LET i == Max({0} \cup {j \in DOMAIN s.bl : s.bl[j].isbreakable})
      upval == \E j \in i + 1 .. Len(s.bl) : s.bl[j].upval
      j == Jump(IF upval THEN Code(s, "CLOSE", s.bl[i].nactvar, 0, 0) ELSE s)
  IN  IF i = 0 THEN SyntaxError(s)
      ELSE [Link(j, s.bl[i].breaklist, PC(j) - 1) EXCEPT !.bl[i].breaklist = Joined(@, PC(j) - 1)]

WhileStat(s) ==
  LET init == PC(s)
      c == Cond(GetLabel(Skip(s)))
      b == Block(CheckNext(EnterBlock(c, TRUE), "do"))
      j == Jump(b)
  IN  PatchToHere(LeaveBlock(CheckNext(PatchList(j, PC(j) - 1, init), "end")), c.e.f)

\* With captured variables the scope is left before jumping back and before the end.
RepeatStat(s) ==
  LET init == PC(s)
      b == Chunk(Skip(EnterBlock(EnterBlock(GetLabel(s), TRUE), FALSE)))
      c == Cond(CheckNext(b, "until"))
      j == Jump(LeaveBlock(PatchToHere(BreakStat(c), c.e.f)))
  IN  LeaveBlock(IF ~Last(c.bl).upval THEN PatchList(LeaveBlock(c), c.e.f, init)
                 ELSE PatchList(j, PC(j) - 1, init))

ForBody(s, base, nvars, isnum) ==
  LET d == CheckNext(AdjustLocalVars(s, 3), "do")
      p == IF isnum THEN Code(d, "FORPREP", base, NoJump, 0) ELSE Jump(d)
      prep == PC(p) - 1
      v == ReserveRegs(AdjustLocalVars(EnterBlock(p, FALSE), nvars), nvars)
      b == PatchToHere(LeaveBlock(Block(v)), prep)
      l == IF isnum THEN Code(b, "FORLOOP", base, NoJump, 0)
           ELSE Jump(Code(b, "TFORLOOP", base, 0, nvars))
  IN  PatchList(l, PC(l) - 1, prep + 1)

Exp1(s) == Exp2NextReg(Expr(s))
ControlVars(s, a, b, c) == NewLocalVar(NewLocalVar(NewLocalVar(s, a, 0), b, 1), c, 2)
ForNum(s, name) ==
  LET v == NewLocalVar(ControlVars(s, "(for index)", "(for limit)", "(for step)"), name, 3)
      l == Exp1(CheckNext(Exp1(CheckNext(v, "=")), ","))
      one == AddK(l, <<"number", 1>>)
      step == IF Tok(l) = "," THEN Exp1(Skip(l))
              ELSE ReserveRegs(Code(one, "LOADK", l.freereg, IndexK(one, <<"number", 1>>), 0), 1)
  IN  ForBody(step, s.freereg, 1, TRUE)
RECURSIVE Names(_, _)
Names(s, n) ==  \* the names after the n-th variable declared, if any
  IF Tok(s) = "," THEN Names(NewLocalVar(CheckName(Skip(s)), Token(s, s.p + 1)[2], n), n + 1)
  ELSE [s EXCEPT !.n = n]
ForList(s, name) ==
  LET v == Names(NewLocalVar(ControlVars(s, "(for generator)", "(for state)", "(for control)"), name, 3), 4)
      x == ExpList1(CheckNext(v, "in"))
  IN  ForBody(CheckStack(AdjustAssign(x, 3, x.n), 3), s.freereg, v.n - 3, FALSE)
ForStat(s) ==
  LET b == Skip(EnterBlock(s, TRUE))
      v == Skip(b)
      f == CASE Tok(b) # "NAME" -> SyntaxError(b)
             [] Tok(b) = "NAME" /\ Tok(v) = "=" -> ForNum(v, Value(b))
             [] Tok(b) = "NAME" /\ Tok(v) \in {",", "in"} -> ForList(v, Value(b))
             [] OTHER -> SyntaxError(b)
  IN  LeaveBlock(CheckNext(f, "end"))

\* The jumps of the false condition are handed on in s.e.f.
TestThenBlock(s) ==
  LET c == Cond(Skip(s)) IN With(Block(CheckNext(c, "then")), c.e)
RECURSIVE ElseIfs(_, _)
ElseIfs(s, escape) ==
  LET j == Jump(s)
      out == PatchToHere(Link(j, escape, PC(j) - 1), s.e.f)
      all == Joined(escape, PC(j) - 1)
  IN  CASE Tok(s) = "elseif" -> ElseIfs(TestThenBlock(out), all)
        [] Tok(s) = "else"   -> PatchToHere(Block(Skip(out)), all)
        [] OTHER -> PatchToHere(Link(s, escape, s.e.f), Joined(escape, s.e.f))
IfStat(s) == CheckNext(ElseIfs(TestThenBlock(s), NoJump), "end")

\* The function sees its own name; debug information does from behind its closure on.
LocalFunc(s) ==
  LET v == AdjustLocalVars(ReserveRegs(NewLocalVar(CheckName(s), Value(s), 0), 1), 1)
      b == StoreVar(Body(v, FALSE), Exp("VLOCAL", s.freereg))
  IN  [b EXCEPT !.locvars[b.actvar[b.nactvar]].startpc = PC(b)]
LocalStat(s) ==
  LET v == Names(NewLocalVar(CheckName(s), Value(s), 0), 1)
      x == IF Tok(v) = "=" THEN ExpList1(Skip(v)) ELSE [With(v, Exp("VVOID", 0)) EXCEPT !.n = 0]
  IN  AdjustLocalVars(AdjustAssign(x, v.n, x.n), v.n)

RECURSIVE FuncName(_)
FuncName(s) == IF Tok(s) = "." THEN FuncName(Field(s)) ELSE s
FuncStat(s) ==
  LET n == FuncName(SingleVar(Skip(s)))
      v == IF Tok(n) = ":" THEN Field(n) ELSE n
  IN  StoreVar(Body(v, Tok(n) = ":"), v.e)

ExprStat(s) ==
  LET v == PrimaryExp(s) IN
  IF v.e.k = "VCALL" THEN [v EXCEPT !.code[v.e.info + 1].c = 1] ELSE Assignment(v, <<v.e>>)

RetStat(s) ==
  LET r == Skip(s)
      x == ExpList1(r)
      m == SetMultRet(x)
      tail == Assert_([m EXCEPT !.code[x.e.info + 1].op = "TAILCALL"], At(m, x.e.info).a = m.nactvar)
      one  == Exp2AnyReg(x)
      all  == Exp2NextReg(x)
  IN  CASE Tok(r) \in BlockFollow \cup {";"} -> CodeRet(r, 0, 0)
        [] OTHER ->
             CASE HasMultRet(x.e.k) ->
                    CodeRet(IF x.e.k = "VCALL" /\ x.n = 1 THEN tail ELSE m, x.nactvar, MultRet)
               [] ~HasMultRet(x.e.k) /\ x.n = 1 -> CodeRet(one, one.e.info, 1)
               [] OTHER -> CodeRet(Assert_(all, x.n = all.freereg - all.nactvar), x.nactvar, x.n)

Statement(s) ==
  CASE Tok(s) = "if" -> IfStat(s)
    [] Tok(s) = "while" -> WhileStat(s)
    [] Tok(s) = "do" -> CheckNext(Block(Skip(s)), "end")
    [] Tok(s) = "for" -> ForStat(s)
    [] Tok(s) = "repeat" -> RepeatStat(s)
    [] Tok(s) = "function" -> FuncStat(s)
    [] Tok(s) = "local" -> IF Token(s, s.p + 1)[1] = "function" THEN LocalFunc(Skip(Skip(s)))
                           ELSE LocalStat(Skip(s))
    [] Tok(s) = "return" -> RetStat(s)
    [] Tok(s) = "break" -> BreakStat(Skip(s))
    [] OTHER -> ExprStat(s)

RECURSIVE Statements(_)
Statements(s) ==
  LET t == Statement(s)
      ok == Assert_(TestNext(t, ";"), t.maxstack >= t.freereg /\ t.freereg >= t.nactvar)
      free == [ok EXCEPT !.freereg = ok.nactvar]
  IN  CASE Tok(s) \in BlockFollow -> s
        [] Tok(s) \in {"return", "break"} -> free
        [] OTHER -> Statements(free)
Chunk(s) == Leave(Statements(Enter(s)))

\* luaY_parser: the main function has a variable number of arguments.
Parse(toks) ==
  LET c == CloseFunc(Chunk([Fresh(toks, 1, 0, 0, <<>>) EXCEPT !.vararg = {"ISVARARG"}]))
      ok == IF c.p = Len(toks) + 1 THEN c ELSE SyntaxError(c)
  IN  [proto |-> Proto(ok), error |-> ok.error, asserted |-> ok.asserted /\ ok.upvalues = <<>>]
=============================================================================
