------------------------------- MODULE LuaMachine -------------------------------
(***************************************************************************)
(* The virtual machine (luaV_execute in lvm.c) with the function calls of  *)
(* ldo.c and the upvalues of lfunc.c that it uses.  One action executes    *)
(* one instruction of the running function, and what the C functions it    *)
(* calls do up to the next instruction of Lua code.                        *)
(*                                                                         *)
(* The state vm is the lua_State and the objects it reaches: stack (slots  *)
(* from 0, a value that is left behind stays), top, ci (the CallInfo       *)
(* array; savedpc and base are those of its last frame), tables, closures, *)
(* upvals, status; trace collects what the program tells its host.  A      *)
(* frame's `after' is what the C code that called luaD_call goes on with   *)
(* when the function has returned; "lua" is a call from the same           *)
(* luaV_execute.  Values are <<type>> or <<type, datum>>, where the datum  *)
(* of a table or function is its index.  Collection, hooks and the growth  *)
(* of the stack are left out.                                              *)
(***************************************************************************)
EXTENDS LuaCode, TLC

CONSTANTS
  StackSize,   \* bound: slots of the stack
  MaxTagLoop,  \* MAXTAGLOOP
  Collation    \* external: strcoll, as the sequence of the strings that are compared

ASSUME LuaMachineAssumption == StackSize \in Nat /\ MaxTagLoop \in Nat \ {0}

Nil == <<"nil">>
Type(x)   == x[1]
Bool(b)   == <<"boolean", b>>
Number(n) == <<"number", n>>
Str(x)    == <<"string", x>>
IsFalse(x) == x \in {Nil, Bool(FALSE)}
Numeral == [n \in 0 .. 9 |-> ToString(n)]  \* bound: the strings that are numbers
IsNum(x) == Type(x) = "number" \/ (Type(x) = "string" /\ x[2] \in Range(Numeral))
Num(x)   == IF Type(x) = "number" THEN x[2] ELSE CHOOSE n \in 0 .. 9 : Numeral[n] = x[2]
IsText(x) == Type(x) \in {"string", "number"}
Text(x)  == IF Type(x) = "number" THEN ToString(x[2]) ELSE x[2]

-----------------------------------------------------------------------------
(* The running function, its registers and constants.                       *)

F(v) == Last(v.ci)
Lua_(f) == f.cl > 0  \* isLua
P(v) == v.closures[F(v).cl].p
I(v) == P(v).code[F(v).pc + 1]
R(v, x)  == v.stack[F(v).base + x]
Kst(v, x) == P(v).k[x + 1]
RKv(v, x) == IF IsConst(x) THEN Kst(v, x - BitRK) ELSE R(v, x)
SetReg(v, x, val) == [v EXCEPT !.stack[F(v).base + x] = val]
Jmp(v, n) == [v EXCEPT !.ci[Len(v.ci)].pc = @ + n]
Next_(v)  == Jmp(v, 1)
RunError(v) == [v EXCEPT !.status = "error"]  \* luaG_runerror
Store(v, at, vals) ==  \* vals to the slots from at on
  [v EXCEPT !.stack = [i \in DOMAIN @ |-> IF i \in at .. at + Len(vals) - 1 THEN vals[i - at + 1] ELSE @[i]]]

-----------------------------------------------------------------------------
(* Tables and metamethods.  A key that is absent has the value nil.         *)

RawGet(v, t, key) == IF key \in DOMAIN v.tables[t].at THEN v.tables[t].at[key] ELSE Nil
RawSet(v, t, key, val) ==  \* luaH_set forgets the metamethods known to be absent
  [v EXCEPT !.tables[t] = [@ EXCEPT !.at = IF val = Nil THEN [x \in DOMAIN @ \ {key} |-> @[x]]
                                           ELSE (key :> val) @@ @,
                                    !.flags = {}]]
NewTable(v) == [v EXCEPT !.tables = Append(@, [at |-> <<>>, meta |-> 0, flags |-> {}])]

\* luaH_getn: the scripts measure tables without holes, which have one border.
Length(v, t) == CHOOSE j \in 0 .. Cardinality(DOMAIN v.tables[t].at) :
                  RawGet(v, t, Number(j + 1)) = Nil /\ \A i \in 1 .. j : RawGet(v, t, Number(i)) # Nil

MetaOf(v, x) == IF Type(x) = "table" THEN v.tables[x[2]].meta ELSE 0
Tm(v, x, event) == IF MetaOf(v, x) = 0 THEN Nil ELSE RawGet(v, MetaOf(v, x), Str(event))
\* fasttm: the absence of a metamethod is noted in the metatable and believed.
FastTm(v, meta, event) ==
  IF meta = 0 \/ event \in v.tables[meta].flags THEN Nil ELSE RawGet(v, meta, Str(event))
Noted(v, meta, event) ==
  IF meta = 0 \/ FastTm(v, meta, event) # Nil THEN v ELSE [v EXCEPT !.tables[meta].flags = @ \cup {event}]

-----------------------------------------------------------------------------
(* Upvalues: open ones are in a stack slot, closed ones have their value.   *)

UpValue(v, u) == IF v.upvals[u].open THEN v.stack[v.upvals[u].at] ELSE v.upvals[u].value
SetUpValue(v, u, x) == IF v.upvals[u].open THEN [v EXCEPT !.stack[v.upvals[u].at] = x]
                       ELSE [v EXCEPT !.upvals[u].value = x]
OpenAt(v, level) == {u \in DOMAIN v.upvals : v.upvals[u].open /\ v.upvals[u].at = level}
\* luaF_findupval: the open upvalue of the slot, a new one if there is none.
WithUpval(v, level) ==
  IF OpenAt(v, level) # {} THEN v
  ELSE [v EXCEPT !.upvals = Append(@, [open |-> TRUE, at |-> level, value |-> Nil])]
FindUpval(v, level) == CHOOSE u \in OpenAt(v, level) : TRUE
Close(v, level) ==
  [v EXCEPT !.upvals = [u \in DOMAIN @ |-> IF @[u].open /\ @[u].at >= level
                        THEN [open |-> FALSE, at |-> 0, value |-> v.stack[@[u].at]] ELSE @[u]]]

-----------------------------------------------------------------------------
(* Calls.                                                                   *)

\* luaD_poscall: the results vals go to the slots from func on, as many as are wanted.
Place(v, func, wanted, vals) ==
  LET n == IF wanted = MultRet THEN Len(vals) ELSE wanted
  IN  [Store(v, func, [i \in 1 .. n |-> IF i <= Len(vals) THEN vals[i] ELSE Nil]) EXCEPT !.top = func + n]
Slots(v, from, to) == [i \in 1 .. to - from |-> v.stack[from + i - 1]]

\* adjust_varargs: the fixed parameters move above the arguments, then the table arg.
AdjustVarargs(v, p, func) ==
  LET actual == v.top - func - 1
      filled == IF actual < p.numparams THEN Store(v, v.top, [i \in 1 .. p.numparams - actual |-> Nil]) ELSE v
      top    == IF actual < p.numparams THEN func + 1 + p.numparams ELSE v.top
      extra  == Slots(filled, func + 1 + p.numparams, top)
      fixed  == Slots(filled, func + 1, func + 1 + p.numparams)
      moved  == Store(Store(filled, func + 1, [i \in DOMAIN fixed |-> Nil]), top, fixed)
      argat  == [x \in {Number(i) : i \in DOMAIN extra} |-> extra[x[2]]]
      t == [NewTable(moved) EXCEPT !.tables[Len(v.tables) + 1].at =
              (Str("n") :> Number(Len(extra))) @@ [x \in {y \in DOMAIN argat : argat[y] # Nil} |-> argat[x]]]
  IN  IF "NEEDSARG" \in p.vararg
      THEN [Store(t, top + p.numparams, <<<<"table", Len(t.tables)>>>>) EXCEPT !.top = top + p.numparams + 1]
      ELSE [moved EXCEPT !.top = top + p.numparams]

\* A frame for the Lua function cl at func, whose arguments end at top.
Enter_(v, func, cl, wanted, after) ==
  LET p == v.closures[cl].p
      a == IF p.vararg # {} THEN AdjustVarargs(v, p, func) ELSE v
      base == IF p.vararg # {} THEN a.top - p.numparams - (IF "NEEDSARG" \in p.vararg THEN 1 ELSE 0) ELSE func + 1
      last == IF p.vararg = {} /\ a.top > base + p.numparams THEN base + p.numparams ELSE a.top
      ctop == base + p.maxstack
  IN  [Store(a, last, [i \in 1 .. ctop - last |-> Nil])
         EXCEPT !.top = ctop,
                !.ci = Append(@, [cl |-> cl, func |-> func, base |-> base, top |-> ctop, pc |-> 0,
                                  nresults |-> wanted, tailcalls |-> 0, after |-> after])]

\* The C functions of the programs: emit tells the host its arguments and returns
\* them (external), setmetatable is luaB_setmetatable.
CResults(v, f, args) == IF f[2] = "setmetatable" THEN SubSeq(args, 1, 1) ELSE args
CEffect(v, f, args) ==
  CASE f[2] = "emit" -> [v EXCEPT !.trace = Append(@, args)]
    [] f[2] = "setmetatable" ->
         IF Len(args) < 2 \/ Type(args[1]) # "table" \/ Type(args[2]) \notin {"nil", "table"}
            \/ Tm(v, args[1], "__metatable") # Nil
         THEN RunError(v)
         ELSE [v EXCEPT !.tables[args[1][2]].meta = IF args[2] = Nil THEN 0 ELSE args[2][2]]

RECURSIVE Precall(_, _, _, _)
RECURSIVE After(_, _)
\* luaD_precall, and for a C function all until it has returned.
Precall(v, func, wanted, after) ==
  LET f == v.stack[func]
      tm == Tm(v, f, "__call")
      args == Slots(v, func + 1, v.top)
      done == CEffect(v, f, args)
      shifted == [Store(v, func, <<tm, f>> \o args) EXCEPT !.top = @ + 1]
  IN  CASE f[1] = "function" -> Enter_(v, func, f[2], wanted, after)
        [] f[1] = "cfunction" ->
             IF done.status = "error" THEN done
             ELSE After(Place(done, func, wanted, CResults(v, f, args)),
                        [after EXCEPT !.wanted = wanted])
        [] OTHER -> IF Type(tm) \in {"function", "cfunction"} THEN Precall(shifted, func, wanted, after)
                    ELSE RunError(v)

\* luaD_call of f with args above the top, by the C code that goes on with after.
CallTm(v, f, args, wanted, after) ==
  Precall([Store(v, v.top, <<f>> \o args) EXCEPT !.top = @ + 1 + Len(args)], v.top, wanted, after)
Cont(k) == [k |-> k, at |-> 0, wanted |-> 0, total |-> 0, last |-> 0]
CallTmRes(v, at, f, x, y) == CallTm(v, f, <<x, y>>, 1, [Cont("store") EXCEPT !.at = at])

-----------------------------------------------------------------------------
(* What an instruction does when a metamethod may be asked.                 *)

\* luaV_gettable, luaV_settable: follow __index (__newindex) while it is no function.
RECURSIVE GetTable(_, _, _, _, _)
GetTable(v, t, key, at, loop) ==
  LET table == Type(t) = "table"
      raw == RawGet(v, t[2], key)
      tm  == IF table THEN FastTm(v, MetaOf(v, t), "__index") ELSE Nil
      n   == Noted(v, MetaOf(v, t), "__index")
  IN  CASE loop = MaxTagLoop \/ ~table -> RunError(v)
        [] loop < MaxTagLoop /\ table /\ raw # Nil -> [v EXCEPT !.stack[at] = raw]
        [] loop < MaxTagLoop /\ table /\ raw = Nil ->
             CASE tm = Nil -> [n EXCEPT !.stack[at] = Nil]
               [] Type(tm) \in {"function", "cfunction"} -> CallTmRes(v, at, tm, t, key)
               [] OTHER -> GetTable(v, tm, key, at, loop + 1)
RECURSIVE SetTable(_, _, _, _, _)
SetTable(v, t, key, val, loop) ==
  LET table == Type(t) = "table"
      set == [v EXCEPT !.tables[t[2]].flags = {}]  \* luaH_set comes first
      tm == FastTm(set, MetaOf(v, t), "__newindex")
      n  == Noted(set, MetaOf(v, t), "__newindex")
  IN  CASE loop = MaxTagLoop \/ ~table \/ key = Nil -> RunError(v)
        [] loop < MaxTagLoop /\ table /\ key # Nil ->
             CASE RawGet(v, t[2], key) # Nil -> RawSet(set, t[2], key, val)
               [] RawGet(v, t[2], key) = Nil /\ tm = Nil -> RawSet(n, t[2], key, val)
               [] RawGet(v, t[2], key) = Nil /\ Type(tm) \in {"function", "cfunction"} ->
                    CallTm(n, tm, <<t, key, val>>, 0, Cont("drop"))
               [] OTHER -> SetTable(n, tm, key, val, loop + 1)

BinTm(v, x, y, event) == IF Tm(v, x, event) # Nil THEN Tm(v, x, event) ELSE Tm(v, y, event)
EventOf(op) == CASE op = "ADD" -> "__add" [] op = "SUB" -> "__sub" [] op = "MUL" -> "__mul" [] op = "MOD" -> "__mod"
                 [] op = "POW" -> "__pow" [] op = "UNM" -> "__unm"
Arithmetic(v, at, x, y, op) ==
  CASE IsNum(x) /\ IsNum(y) -> [v EXCEPT !.stack[at] = Number(Arith(op, Num(x), Num(y)))]
    [] BinTm(v, x, y, EventOf(op)) # Nil -> CallTmRes(v, at, BinTm(v, x, y, EventOf(op)), x, y)
    [] OTHER -> RunError(v)

\* The jump behind a comparison is taken if its result is cond, else stepped over.
Branch(v, taken) == IF taken THEN Jmp(v, I(v).b + 1) ELSE Next_(v)
Compare(v, f, x, y, negated, cond) ==
  CallTm(v, f, <<x, y>>, 1, [Cont("branch") EXCEPT !.at = cond, !.total = IF negated THEN 1 ELSE 0])
OpEq(v, x, y, cond) ==
  LET m1 == MetaOf(v, x)  m2 == MetaOf(v, y)
      tm == FastTm(v, m1, "__eq")
      same == tm # Nil /\ (m1 = m2 \/ FastTm(v, m2, "__eq") = tm)
      n  == IF tm = Nil THEN Noted(v, m1, "__eq") ELSE IF m1 = m2 THEN v ELSE Noted(v, m2, "__eq")
  IN  CASE x = y -> Branch(v, cond = 1)
        [] x # y /\ Type(x) = "table" /\ Type(y) = "table" ->
             IF same THEN Compare(n, tm, x, y, FALSE, cond) ELSE Branch(n, cond = 0)
        [] OTHER -> Branch(v, cond = 0)
OrderTm(v, x, y, event) == IF Tm(v, x, event) = Tm(v, y, event) THEN Tm(v, x, event) ELSE Nil
Rank(x) == CHOOSE i \in DOMAIN Collation : Collation[i] = x
OpOrder(v, x, y, less, cond) ==
  LET lt == OrderTm(v, x, y, "__lt")  le == OrderTm(v, x, y, "__le")  gt == OrderTm(v, y, x, "__lt")
      below(i, j) == IF less THEN i < j ELSE i <= j
  IN  CASE Type(x) # Type(y) -> RunError(v)
        [] Type(x) = "number" /\ Type(y) = "number" -> Branch(v, below(x[2], y[2]) = (cond = 1))
        [] Type(x) = "string" /\ Type(y) = "string" -> Branch(v, below(Rank(x[2]), Rank(y[2])) = (cond = 1))
        [] less /\ Type(x) = Type(y) /\ lt # Nil -> Compare(v, lt, x, y, FALSE, cond)
        [] ~less /\ Type(x) = Type(y) /\ le # Nil -> Compare(v, le, x, y, FALSE, cond)
        [] ~less /\ Type(x) = Type(y) /\ le = Nil /\ gt # Nil -> Compare(v, gt, y, x, TRUE, cond)
        [] OTHER -> RunError(v)

\* luaV_concat: from the right, as many strings at a time as there are.
RECURSIVE Concat(_, _, _)
Concat(v, total, last) ==
  LET top == F(v).base + last + 1
      x == v.stack[top - 2]  y == v.stack[top - 1]
      tm == BinTm(v, x, y, "__concat")
      n == IF Text(y) = "" THEN 2
           ELSE Max({2} \cup {m \in 2 .. total : \A i \in 1 .. m : IsText(v.stack[top - i])})
      text == FoldLeft(LAMBDA acc, s : acc \o Text(s), "", Slots(v, top - n, top))
  IN  CASE total <= 1 -> LET i == P(v).code[F(v).pc] IN SetReg(v, i.a, R(v, i.b))
        [] total > 1 /\ IsText(x) /\ IsText(y) ->
             Concat([v EXCEPT !.stack[top - n] = Str(text)], total - n + 1, last - n + 1)
        [] total > 1 /\ ~(IsText(x) /\ IsText(y)) ->
             IF tm = Nil THEN RunError(v)
             ELSE CallTm(v, tm, <<x, y>>, 1, [Cont("concat") EXCEPT !.at = top - 2, !.total = total - 1,
                                                                    !.last = last - 1])

\* Mutant: the top stays where the results end.
RestoredOpen(v, wanted) == v
\* After a call with a fixed number of results the frame has its registers again.
Restored(v, wanted) == IF wanted = MultRet THEN v ELSE [v EXCEPT !.top = F(v).top]
\* The function called by C code, or by the instruction before, has returned; its
\* results end at the top.
After(v, a) ==
  LET popped == [v EXCEPT !.top = @ - 1]
      res == v.stack[v.top - 1]
  IN  CASE a.k = "lua"    -> Restored(v, a.wanted)
        [] a.k = "store"  -> [popped EXCEPT !.stack[a.at] = res]
        [] a.k = "drop"   -> v
        [] a.k = "branch" -> Branch(popped, (IsFalse(res) = (a.total = 1)) = (a.at = 1))
        [] a.k = "concat" -> Concat([popped EXCEPT !.stack[a.at] = res], a.total, a.last)
        [] a.k = "loop"   -> LET t == [v EXCEPT !.top = F(v).top]  x == v.stack[a.at] IN
                             IF x # Nil THEN Branch([t EXCEPT !.stack[a.at - 1] = x], TRUE) ELSE Next_(t)
        [] a.k = "host"   -> [v EXCEPT !.status = "done"]

-----------------------------------------------------------------------------
VARIABLE vm

\* A state whose host has called the main function of a chunk.
Boot(proto) ==
  LET v == [stack |-> [i \in 0 .. StackSize - 1 |-> IF i = 1 THEN <<"function", 1>> ELSE Nil], top |-> 2,
            ci |-> <<[cl |-> 0, func |-> 0, base |-> 1, top |-> 1, pc |-> 0, nresults |-> 0, tailcalls |-> 0,
                      after |-> Cont("host")]>>,
            tables |-> <<[at |-> [x \in {Str("emit"), Str("setmetatable")} |-> <<"cfunction", x[2]>>],
                          meta |-> 0, flags |-> {}]>>,
            closures |-> <<[p |-> proto, up |-> <<>>]>>, upvals |-> <<>>, trace |-> <<>>, status |-> "running"]
  IN  Precall(v, 1, MultRet, Cont("host"))
Globals == <<"table", 1>>
Idle == [status |-> "idle"]

\* The instruction about to be executed, and the state when pc has stepped over it.
Op(o) == vm.status = "running" /\ I(vm).op = o
ins == I(vm)
next == Next_(vm)
ra == F(vm).base + ins.a

OpMove     == Op("MOVE") /\ vm' = SetReg(next, ins.a, R(vm, ins.b))
OpLoadK    == Op("LOADK") /\ vm' = SetReg(next, ins.a, Kst(vm, ins.b))
OpLoadBool == Op("LOADBOOL") /\ vm' = Jmp(SetReg(next, ins.a, Bool(ins.b = 1)), ins.c)
OpLoadNil  == Op("LOADNIL") /\ vm' = Store(next, ra, [i \in 1 .. ins.b - ins.a + 1 |-> Nil])
UpvalOf(n) == vm.closures[F(vm).cl].up[n + 1]
OpGetUpval == Op("GETUPVAL") /\ vm' = SetReg(next, ins.a, UpValue(vm, UpvalOf(ins.b)))
OpSetUpval == Op("SETUPVAL") /\ vm' = SetUpValue(next, UpvalOf(ins.b), R(vm, ins.a))
OpGetGlobal == Op("GETGLOBAL") /\ vm' = GetTable(next, Globals, Kst(vm, ins.b), ra, 0)
OpSetGlobal == Op("SETGLOBAL") /\ vm' = SetTable(next, Globals, Kst(vm, ins.b), R(vm, ins.a), 0)
OpGetTable == Op("GETTABLE") /\ vm' = GetTable(next, R(vm, ins.b), RKv(vm, ins.c), ra, 0)
OpSetTable == Op("SETTABLE") /\ vm' = SetTable(next, R(vm, ins.a), RKv(vm, ins.b), RKv(vm, ins.c), 0)
OpNewTable == Op("NEWTABLE") /\ vm' = SetReg(NewTable(next), ins.a, <<"table", Len(vm.tables) + 1>>)
OpSelf == Op("SELF") /\ vm' = GetTable(SetReg(next, ins.a + 1, R(vm, ins.b)), R(vm, ins.b), RKv(vm, ins.c), ra, 0)
OpArith ==
  /\ vm.status = "running" /\ I(vm).op \in Range(ArithOp)
  /\ vm' = Arithmetic(next, ra, RKv(vm, ins.b), RKv(vm, ins.c), ins.op)
OpUnm == Op("UNM") /\ vm' = Arithmetic(next, ra, R(vm, ins.b), R(vm, ins.b), "UNM")
OpNot == Op("NOT") /\ vm' = SetReg(next, ins.a, Bool(IsFalse(R(vm, ins.b))))
OpLen ==
  /\ Op("LEN")
  /\ LET x == R(vm, ins.b) IN
     vm' = CASE Type(x) = "table" -> SetReg(next, ins.a, Number(Length(vm, x[2])))
             [] Type(x) = "string" -> SetReg(next, ins.a, Number(Len(x[2])))
             [] OTHER -> RunError(vm)
OpConcat == Op("CONCAT") /\ vm' = Concat(next, ins.c - ins.b + 1, ins.c)
OpJmp == Op("JMP") /\ vm' = Jmp(next, ins.b)
OpEq_ == Op("EQ") /\ vm' = OpEq(next, RKv(vm, ins.b), RKv(vm, ins.c), ins.a)
OpLt_ == Op("LT") /\ vm' = OpOrder(next, RKv(vm, ins.b), RKv(vm, ins.c), TRUE, ins.a)
OpLe_ == Op("LE") /\ vm' = OpOrder(next, RKv(vm, ins.b), RKv(vm, ins.c), FALSE, ins.a)
OpTest == Op("TEST") /\ vm' = Branch(next, IsFalse(R(vm, ins.a)) # (ins.c = 1))
OpTestSet ==
  /\ Op("TESTSET")
  /\ LET x == R(vm, ins.b)  taken == IsFalse(x) # (ins.c = 1)
     IN  vm' = Branch(IF taken THEN SetReg(next, ins.a, x) ELSE next, taken)
Open(v) == IF ins.b # 0 THEN [v EXCEPT !.top = ra + ins.b] ELSE v  \* arguments of a call
OpCall == Op("CALL") /\ vm' = Precall(Open(next), ra, ins.c - 1, Cont("lua"))
\* A Lua function's new frame is put in the place of this one.
OpTailCall ==
  /\ Op("TAILCALL")
  /\ LET c  == Precall(Open(next), ra, MultRet, Cont("lua"))
         fn == F(c)  f == F(vm)
         n  == c.top - fn.func
         moved == Store(Close(c, f.base), f.func, Slots(c, fn.func, c.top))
     IN  vm' = IF Len(c.ci) = Len(vm.ci) \/ c.status = "error" THEN c
               ELSE [moved EXCEPT !.top = f.func + n,
                                  !.ci = Append(SubSeq(@, 1, Len(@) - 2),
                                                [f EXCEPT !.cl = fn.cl, !.base = f.func + (fn.base - fn.func),
                                                          !.top = f.func + n, !.pc = 0, !.tailcalls = @ + 1])]
OpReturn ==
  /\ Op("RETURN")
  /\ LET f == F(vm)
         vals == Slots(vm, ra, IF ins.b # 0 THEN ra + ins.b - 1 ELSE vm.top)
         done == Place([Close(vm, f.base) EXCEPT !.ci = Front(@)], f.func, f.nresults, vals)
     IN  vm' = After(done, [f.after EXCEPT !.wanted = f.nresults])
OpForPrep ==
  /\ Op("FORPREP")
  /\ vm' = IF \E x \in 0 .. 2 : ~IsNum(R(vm, ins.a + x)) THEN RunError(vm)
           ELSE Jmp(Store(next, ra, <<Number(Num(R(vm, ins.a)) - Num(R(vm, ins.a + 2))),
                                    Number(Num(R(vm, ins.a + 1))), Number(Num(R(vm, ins.a + 2)))>>), ins.b)
OpForLoop ==
  /\ Op("FORLOOP")
  /\ LET step == R(vm, ins.a + 2)[2]
         idx == R(vm, ins.a)[2] + step
         limit == R(vm, ins.a + 1)[2]
     IN  vm' = IF (0 < step /\ idx <= limit) \/ (~(0 < step) /\ limit <= idx)
               THEN Jmp(SetReg(SetReg(next, ins.a, Number(idx)), ins.a + 3, Number(idx)), ins.b)
               ELSE next
OpTForLoop ==
  /\ Op("TFORLOOP")
  /\ vm' = Precall([Store(next, ra + 3, Slots(vm, ra, ra + 3)) EXCEPT !.top = ra + 6], ra + 3, ins.c,
                   [Cont("loop") EXCEPT !.at = ra + 3])
\* The batch number is the next instruction if it did not fit.
OpSetList ==
  /\ Op("SETLIST")
  /\ LET n == IF ins.b = 0 THEN vm.top - ra - 1 ELSE ins.b
         c == IF ins.c = 0 THEN I(next).a ELSE ins.c
         t == R(vm, ins.a)[2]
         set(v, j) == IF R(vm, ins.a + j) = Nil THEN v
                      ELSE [v EXCEPT !.tables[t].at = (Number((c - 1) * FieldsPerFlush + j) :> R(vm, ins.a + j)) @@ @]
     IN  vm' = FoldLeft(set, [(IF ins.c = 0 THEN Next_(next) ELSE next) EXCEPT !.top = IF ins.b = 0 THEN F(vm).top ELSE @],
                        [j \in 1 .. n |-> j])
OpClose == Op("CLOSE") /\ vm' = Close(next, ra)
\* The instructions behind say where the upvalues of the closure are.
OpClosure ==
  /\ Op("CLOSURE")
  /\ LET p == P(vm).p[ins.b + 1]
         from(j) == P(vm).code[F(vm).pc + 1 + j]
         found == FoldLeft(LAMBDA v, j : IF from(j).op = "MOVE" THEN WithUpval(v, F(vm).base + from(j).b) ELSE v,
                           Jmp(next, p.nups), [j \in 1 .. p.nups |-> j])
         up == [j \in 1 .. p.nups |-> IF from(j).op = "MOVE" THEN FindUpval(found, F(vm).base + from(j).b)
                                      ELSE UpvalOf(from(j).b)]
     IN  vm' = SetReg([found EXCEPT !.closures = Append(@, [p |-> p, up |-> up])], ins.a,
                      <<"function", Len(vm.closures) + 1>>)
OpVararg ==
  /\ Op("VARARG")
  /\ LET f == F(vm)
         n == f.base - f.func - P(vm).numparams - 1
         b == IF ins.b = 0 THEN n ELSE ins.b - 1
         vals == [j \in 1 .. b |-> IF j <= n THEN vm.stack[f.base - n + j - 1] ELSE Nil]
     IN  vm' = [Store(next, ra, vals) EXCEPT !.top = IF ins.b = 0 THEN ra + n ELSE @]

Execute ==
  \/ OpMove \/ OpLoadK \/ OpLoadBool \/ OpLoadNil \/ OpGetUpval \/ OpSetUpval \/ OpGetGlobal \/ OpSetGlobal
  \/ OpGetTable \/ OpSetTable \/ OpNewTable \/ OpSelf \/ OpArith \/ OpUnm \/ OpNot \/ OpLen \/ OpConcat
  \/ OpJmp \/ OpEq_ \/ OpLt_ \/ OpLe_ \/ OpTest \/ OpTestSet \/ OpCall \/ OpTailCall \/ OpReturn
  \/ OpForPrep \/ OpForLoop \/ OpTForLoop \/ OpSetList \/ OpClose \/ OpClosure \/ OpVararg

\* luaG_checkopenop: the instruction takes what the one before left below the top.
OpenOp(i) == i.op \in {"CALL", "TAILCALL", "RETURN", "SETLIST"} /\ i.b = 0
=============================================================================
