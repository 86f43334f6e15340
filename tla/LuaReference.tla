------------------------------ MODULE LuaReference ------------------------------
(***************************************************************************)
(* What a program means, by section 2 of the reference manual              *)
(* (doc/manual.html): an evaluator of syntax trees that knows nothing of   *)
(* registers, instructions, upvalues or frames.  A variable is a location  *)
(* of the store, an environment maps names to locations, a closure is a    *)
(* function body with its environment.  It is the abstract specification   *)
(* that the compiler and the virtual machine together implement.           *)
(*                                                                         *)
(* Trees:  expressions <<"nil">> <<"bool", b>> <<"num", n>> <<"str", s>>   *)
(* <<"...">> <<"name", x>> <<"index", e, k>> <<"call", e, args>>           *)
(* <<"method", e, name, args>> <<"function", params, vararg, body>>, where *)
(* vararg is "no", "new" if the body uses ... and "old" if it does not,    *)
(* <<"bin", op, a, b>> <<"un", op, a>> <<"table", items>> <<"paren", e>>,  *)
(* items <<"item", e>> <<"field", k, e>>; statements as in Exec below.     *)
(*                                                                         *)
(* The state st has the store, the tables, the functions, what was emitted *)
(* and err, after which nothing is emitted any more.  An evaluation is a   *)
(* record of the state and the values; an execution also has the           *)
(* environment behind the statement and how it ended.                      *)
(***************************************************************************)
EXTENDS Integers, Sequences, SequencesExt, TLC

None == <<"nil">>
Truth(x) == x \notin {<<"nil">>, <<"boolean", FALSE>>}
First(vals) == IF vals = <<>> THEN None ELSE vals[1]
Adjusted(vals, n) == [i \in 1 .. n |-> IF i <= Len(vals) THEN vals[i] ELSE None]
Failed(st) == [st EXCEPT !.err = TRUE]
Result(st, vals) == [st |-> st, vals |-> vals]
Lookup(st, t, k) == IF k \in DOMAIN st.tables[t].at THEN st.tables[t].at[k] ELSE None
Update(st, t, k, x) ==
  [st EXCEPT !.tables[t].at = IF x = None THEN [y \in DOMAIN @ \ {k} |-> @[y]] ELSE (k :> x) @@ @]
Handler(st, x, event) ==
  IF x[1] # "table" \/ st.tables[x[2]].meta = 0 THEN None ELSE Lookup(st, st.tables[x[2]].meta, <<"string", event>>)
HandlerOf2(st, x, y, event) == IF Handler(st, x, event) # None THEN Handler(st, x, event) ELSE Handler(st, y, event)
Callable(x) == x[1] \in {"function", "cfunction"}
Border(st, t) == CHOOSE n \in 0 .. Cardinality(DOMAIN st.tables[t].at) :
                   Lookup(st, t, <<"number", n + 1>>) = None /\ \A i \in 1 .. n : Lookup(st, t, <<"number", i>>) # None
Digits == [n \in 0 .. 9 |-> ToString(n)]
AsNumber(x) == IF x[1] = "string" /\ x[2] \in Range(Digits)
               THEN <<"number", CHOOSE n \in 0 .. 9 : Digits[n] = x[2]>> ELSE x
AsText(x) == IF x[1] = "number" THEN ToString(x[2]) ELSE x[2]
PowerOf[x \in 0 .. 9, y \in 0 .. 3] == IF y = 0 THEN 1 ELSE x * PowerOf[x, y - 1]

\* New locations for the values, and the environment in which the names mean them.
Bind(st, env, names, vals) ==
  [st  |-> [st EXCEPT !.store = @ \o Adjusted(vals, Len(names))],
   env |-> FoldLeft(LAMBDA e, i : (names[i] :> (Len(st.store) + i)) @@ e, env, [i \in DOMAIN names |-> i])]

RECURSIVE Eval(_, _, _)
RECURSIVE EvalList(_, _, _)
RECURSIVE Apply(_, _, _)
RECURSIVE Block(_, _, _)
RECURSIVE Index(_, _, _)
RECURSIVE SetIndex(_, _, _, _)

\* Expression list: all values of the last expression, one of each other.
EvalList(st, env, exps) ==
  LET r == Eval(st, env, exps[1])
      rest == EvalList(r.st, env, Tail(exps))
  IN  CASE Len(exps) = 0 -> Result(st, <<>>)
        [] Len(exps) = 1 -> r
        [] OTHER -> Result(rest.st, <<First(r.vals)>> \o rest.vals)
One(r) == Result(r.st, <<First(r.vals)>>)

\* Section 2.8: events "index", "newindex", "call".
Index(st, t, k) ==
  LET h == Handler(st, t, "__index")
      x == Lookup(st, t[2], k)
  IN  CASE t[1] # "table" -> Result(Failed(st), <<None>>)
        [] t[1] = "table" /\ (x # None \/ h = None) -> Result(st, <<x>>)
        [] OTHER -> IF Callable(h) THEN One(Apply(st, h, <<t, k>>)) ELSE Index(st, h, k)
SetIndex(st, t, k, x) ==
  LET h == Handler(st, t, "__newindex") IN
  CASE t[1] # "table" \/ k = None -> Failed(st)
    [] t[1] = "table" /\ k # None /\ (Lookup(st, t[2], k) # None \/ h = None) -> Update(st, t[2], k, x)
    [] OTHER -> IF Callable(h) THEN Apply(st, h, <<t, k, x>>).st ELSE SetIndex(st, h, k, x)

Shown(x) == IF Callable(x) \/ x[1] = "table" THEN <<x[1]>> ELSE x
Apply(st, f, args) ==
  LET fn == st.fns[f[2]]
      np == Len(fn.params)
      extra == SubSeq(args, np + 1, Len(args))
      b  == Bind(st, fn.env, fn.params, args)
      va == [b EXCEPT !.st.store = Append(@, extra), !.env = ("..." :> (Len(b.st.store) + 1)) @@ @]
      t  == [n \in {<<"number", i>> : i \in DOMAIN extra} |-> extra[n[2]]]
      args_ == [at |-> (<<"string", "n">> :> <<"number", Len(extra)>>) @@ [n \in {m \in DOMAIN t : t[m] # None} |-> t[n]],
                meta |-> 0]
      \* A function with ... that does not use it has its arguments in arg.
      old == Bind([va.st EXCEPT !.tables = Append(@, args_)], va.env, <<"arg">>, <<<<"table", Len(va.st.tables) + 1>>>>)
      r  == CASE fn.vararg = "old" -> Block(old.st, old.env, fn.body)
              [] fn.vararg = "new" -> LET nb == Bind(va.st, va.env, <<"arg">>, <<>>) IN Block(nb.st, nb.env, fn.body)
              [] OTHER -> Block(b.st, b.env, fn.body)
      m  == Handler(st, f, "__call")
  IN  CASE st.err -> Result(st, <<>>)
        [] ~st.err /\ f = <<"cfunction", "emit">> -> Result([st EXCEPT !.trace = Append(@, args)], args)
        [] ~st.err /\ f = <<"cfunction", "setmetatable">> ->  \* section 5.1
             IF Handler(st, args[1], "__metatable") # None THEN Result(Failed(st), <<>>)
             ELSE Result([st EXCEPT !.tables[args[1][2]].meta = IF args[2] = None THEN 0 ELSE args[2][2]], SubSeq(args, 1, 1))
        [] ~st.err /\ f[1] = "function" -> Result(r.st, IF r.end = "return" THEN r.vals ELSE <<>>)
        [] OTHER -> IF Callable(m) THEN Apply(st, m, <<f>> \o args) ELSE Result(Failed(st), <<>>)

-----------------------------------------------------------------------------
(* Operators.                                                               *)

ArithEvent == [o \in {"+", "-", "*", "%", "^", ".."} |->
                 CASE o = "+" -> "__add" [] o = "-" -> "__sub" [] o = "*" -> "__mul" [] o = "%" -> "__mod"
                   [] o = "^" -> "__pow" [] o = ".." -> "__concat"]
Before(order, x, y) == \E i, j \in DOMAIN order : i < j /\ order[i] = x /\ order[j] = y
Less(st, x, y, order) == IF x[1] = "number" THEN x[2] < y[2] ELSE Before(order, x[2], y[2])
Compared(st, f, x, y, negated) ==
  LET r == Apply(st, f, <<x, y>>) IN Result(r.st, <<<<"boolean", Truth(First(r.vals)) # negated>>>>)
SameHandler(st, x, y, event) == IF Handler(st, x, event) = Handler(st, y, event) THEN Handler(st, x, event) ELSE None

Binary(st, op, x, y) ==
  LET m == AsNumber(x)  n == AsNumber(y)
      h == HandlerOf2(st, x, y, ArithEvent[op])
      eq == SameHandler(st, x, y, "__eq")
      lt == SameHandler(st, x, y, "__lt")
      le == SameHandler(st, x, y, "__le")
      gt == SameHandler(st, y, x, "__lt")
      plain == x[1] = y[1] /\ x[1] \in {"number", "string"}
      bool(b) == Result(st, <<<<"boolean", b>>>>)
      fail == Result(Failed(st), <<None>>)
  IN  CASE op = ".." /\ {x[1], y[1]} \subseteq {"number", "string"} -> Result(st, <<<<"string", AsText(x) \o AsText(y)>>>>)
        [] op \in {"+", "-", "*", "%", "^"} /\ m[1] = "number" /\ n[1] = "number" ->
             Result(st, <<<<"number", CASE op = "+" -> m[2] + n[2] [] op = "-" -> m[2] - n[2] [] op = "*" -> m[2] * n[2]
                                        [] op = "%" -> m[2] % n[2] [] op = "^" -> PowerOf[m[2], n[2]]>>>>)
        [] op \in {"==", "~="} ->
             IF x # y /\ x[1] = "table" /\ y[1] = "table" /\ eq # None THEN Compared(st, eq, x, y, op = "~=")
             ELSE bool((x = y) = (op = "=="))
        [] op = "<" -> CASE plain -> bool(Less(st, x, y, st.order))
                         [] ~plain /\ x[1] = y[1] /\ lt # None -> Compared(st, lt, x, y, FALSE)
                         [] OTHER -> fail
        [] op = "<=" -> CASE plain -> bool(~Less(st, y, x, st.order))
                          [] ~plain /\ x[1] = y[1] /\ le # None -> Compared(st, le, x, y, FALSE)
                          [] ~plain /\ x[1] = y[1] /\ le = None /\ gt # None -> Compared(st, gt, y, x, TRUE)
                          [] OTHER -> fail
        [] OTHER -> IF h # None THEN One(Apply(st, h, <<x, y>>)) ELSE fail

Unary(st, op, x) ==
  LET h == Handler(st, x, "__unm") IN
  CASE op = "not" -> Result(st, <<<<"boolean", ~Truth(x)>>>>)
    [] op = "#" /\ x[1] = "string" -> Result(st, <<<<"number", Len(x[2])>>>>)
    [] op = "#" /\ x[1] = "table" -> Result(st, <<<<"number", Border(st, x[2])>>>>)
    [] op = "-" /\ AsNumber(x)[1] = "number" -> Result(st, <<<<"number", -AsNumber(x)[2]>>>>)
    [] op = "-" /\ AsNumber(x)[1] # "number" /\ h # None -> One(Apply(st, h, <<x, x>>))
    [] OTHER -> Result(Failed(st), <<None>>)

RECURSIVE Items(_, _, _, _, _)
Items(st, env, items, t, n) ==  \* the items of a constructor, n list items so far
  LET it == items[1]
      k  == Eval(st, env, it[2])
      x  == Eval(k.st, env, it[3])
      put(s, i) == Update(s, t, <<"number", n + i>>, k.vals[i])
      all == FoldLeft(put, k.st, [i \in DOMAIN k.vals |-> i])
  IN  CASE items = <<>> -> st
        [] items # <<>> /\ it[1] = "field" ->
             Items(IF First(k.vals) = None THEN Failed(x.st) ELSE Update(x.st, t, First(k.vals), First(x.vals)),
                   env, Tail(items), t, n)
        [] items # <<>> /\ it[1] = "item" ->
             IF Len(items) = 1 THEN all
             ELSE Items(Update(k.st, t, <<"number", n + 1>>, First(k.vals)), env, Tail(items), t, n + 1)

Eval(st, env, e) ==
  LET a == Eval(st, env, e[2])
      b == Eval(a.st, env, e[3])
      x == First(a.vals)
      args == EvalList(a.st, env, e[3])
      margs == EvalList(Index(a.st, x, <<"string", e[3]>>).st, env, e[4])
      t == Len(st.tables) + 1
  IN  CASE st.err -> Result(st, <<None>>)
        [] ~st.err /\ e[1] = "nil"  -> Result(st, <<None>>)
        [] ~st.err /\ e[1] = "bool" -> Result(st, <<<<"boolean", e[2]>>>>)
        [] ~st.err /\ e[1] = "num"  -> Result(st, <<<<"number", e[2]>>>>)
        [] ~st.err /\ e[1] = "str"  -> Result(st, <<<<"string", e[2]>>>>)
        [] ~st.err /\ e[1] = "..."  -> Result(st, st.store[env["..."]])
        [] ~st.err /\ e[1] = "paren" -> One(a)
        [] ~st.err /\ e[1] = "name" ->
             IF e[2] \in DOMAIN env THEN Result(st, <<st.store[env[e[2]]]>>)
             ELSE Index(st, <<"table", 1>>, <<"string", e[2]>>)
        [] ~st.err /\ e[1] = "index" -> Index(b.st, x, First(b.vals))
        [] ~st.err /\ e[1] = "call"  -> Apply(args.st, x, args.vals)
        [] ~st.err /\ e[1] = "method" ->
             Apply(margs.st, First(Index(a.st, x, <<"string", e[3]>>).vals), <<x>> \o margs.vals)
        [] ~st.err /\ e[1] = "function" ->
             Result([st EXCEPT !.fns = Append(@, [params |-> e[2], body |-> e[4], env |-> env,
                                                  vararg |-> e[3]])],
                    <<<<"function", Len(st.fns) + 1>>>>)
        [] ~st.err /\ e[1] = "un" -> LET o == Eval(st, env, e[3]) IN Unary(o.st, e[2], First(o.vals))
        [] ~st.err /\ e[1] = "bin" ->
             LET l == Eval(st, env, e[3])
                 r == Eval(l.st, env, e[4])
             IN  CASE e[2] = "and" -> IF Truth(First(l.vals)) THEN One(r) ELSE One(l)
                   [] e[2] = "or"  -> IF Truth(First(l.vals)) THEN One(l) ELSE One(r)
                   [] e[2] = ">"   -> Binary(r.st, "<", First(r.vals), First(l.vals))
                   [] e[2] = ">="  -> Binary(r.st, "<=", First(r.vals), First(l.vals))
                   [] OTHER -> Binary(r.st, e[2], First(l.vals), First(r.vals))
        [] ~st.err /\ e[1] = "table" ->
             Result(Items([st EXCEPT !.tables = Append(@, [at |-> <<>>, meta |-> 0])], env, e[2], t, 0), <<<<"table", t>>>>)

-----------------------------------------------------------------------------
(* Statements.  An execution ends "next", "break" or "return" with values.  *)

Ended(st, env, end, vals) == [st |-> st, env |-> env, end |-> end, vals |-> vals]
Goes(st, env) == Ended(st, env, "next", <<>>)

\* The places the variables of an assignment name, then the values, then the stores.
RECURSIVE Places(_, _, _)
Places(st, env, vars) ==
  LET v == vars[1]
      t == Eval(st, env, v[2])
      k == Eval(t.st, env, v[3])
      p == IF v[1] = "name" THEN [st |-> st, at |-> v]
           ELSE [st |-> k.st, at |-> <<"index", First(t.vals), First(k.vals)>>]
      rest == Places(p.st, env, Tail(vars))
  IN  IF vars = <<>> THEN [st |-> st, at |-> <<>>] ELSE [st |-> rest.st, at |-> <<p.at>> \o rest.at]
Put(st, env, at, x) ==
  CASE st.err -> st
    [] ~st.err /\ at[1] = "index" -> SetIndex(st, at[2], at[3], x)
    [] OTHER -> IF at[2] \in DOMAIN env THEN [st EXCEPT !.store[env[at[2]]] = x]
                ELSE SetIndex(st, <<"table", 1>>, <<"string", at[2]>>, x)

RECURSIVE Exec(_, _, _)
RECURSIVE While(_, _, _, _)
RECURSIVE Repeat(_, _, _, _)
RECURSIVE For(_, _, _, _, _, _, _)
RECURSIVE ForIn(_, _, _, _, _, _, _)
RECURSIVE If(_, _, _, _)
RECURSIVE Sequence(_, _, _)

Sequence(st, env, body) ==
  LET r == Exec(st, env, body[1]) IN
  IF body = <<>> \/ st.err THEN Goes(st, env)
  ELSE IF r.end # "next" THEN r ELSE Sequence(r.st, r.env, Tail(body))
Block(st, env, body) == LET r == Sequence(st, env, body) IN [r EXCEPT !.env = env]
Stays(r) == r.end = "return" \/ r.st.err
Out(r, env) == IF r.end = "return" THEN r ELSE Goes(r.st, env)  \* behind a loop
While(st, env, c, body) ==
  LET v == Eval(st, env, c)  r == Block(v.st, env, body) IN
  IF v.st.err \/ ~Truth(First(v.vals)) THEN Goes(v.st, env)
  ELSE IF r.end # "next" \/ r.st.err THEN Out(r, env) ELSE While(r.st, env, c, body)
\* The condition sees the variables of the body.
Repeat(st, env, body, c) ==
  LET r == Sequence(st, env, body)  v == Eval(r.st, r.env, c) IN
  IF r.end # "next" \/ r.st.err THEN Out(r, env)
  ELSE IF v.st.err \/ Truth(First(v.vals)) THEN Goes(v.st, env) ELSE Repeat(v.st, env, body, c)
For(st, env, x, i, limit, step, body) ==
  LET b == Bind(st, env, <<x>>, <<<<"number", i>>>>)  r == Block(b.st, b.env, body) IN
  IF ~((step > 0 /\ i <= limit) \/ (step <= 0 /\ i >= limit)) THEN Goes(st, env)
  ELSE IF r.end # "next" \/ r.st.err THEN Out(r, env) ELSE For(r.st, env, x, i + step, limit, step, body)
ForIn(st, env, names, f, s, var, body) ==
  LET a == Apply(st, f, <<s, var>>)
      b == Bind(a.st, env, names, a.vals)  r == Block(b.st, b.env, body)
  IN  IF a.st.err \/ First(a.vals) = None THEN Goes(a.st, env)
      ELSE IF r.end # "next" \/ r.st.err THEN Out(r, env) ELSE ForIn(r.st, env, names, f, s, First(a.vals), body)
If(st, env, clauses, else) ==
  LET v == Eval(st, env, clauses[1][1]) IN
  CASE clauses = <<>> -> Block(st, env, else)
    [] clauses # <<>> /\ v.st.err -> Goes(v.st, env)
    [] OTHER -> IF Truth(First(v.vals)) THEN Block(v.st, env, clauses[1][2]) ELSE If(v.st, env, Tail(clauses), else)

Exec(st, env, s) ==
  CASE s[1] = "local" ->
         LET v == EvalList(st, env, s[3])  b == Bind(v.st, env, s[2], v.vals) IN Goes(b.st, b.env)
    [] s[1] = "assign" ->
         LET p == Places(st, env, s[2])
             v == EvalList(p.st, env, s[3])
             vals == Adjusted(v.vals, Len(s[2]))
             put(acc, i) == Put(acc, env, p.at[i], vals[i])
         IN  Goes(FoldRight(LAMBDA i, acc : put(acc, i), [i \in DOMAIN vals |-> i], v.st), env)
    [] s[1] = "callstat" -> Goes(Eval(st, env, s[2]).st, env)
    [] s[1] = "do"     -> Block(st, env, s[2])
    [] s[1] = "while"  -> While(st, env, s[2], s[3])
    [] s[1] = "repeat" -> Repeat(st, env, s[2], s[3])
    [] s[1] = "if"     -> If(st, env, s[2], s[3])
    [] s[1] = "for" ->
         LET v == EvalList(st, env, s[3] \o <<<<"num", 1>>>>)
             n == [i \in 1 .. 3 |-> AsNumber(v.vals[i])]
         IN  IF v.st.err \/ \E i \in 1 .. 3 : n[i][1] # "number" THEN Goes(Failed(v.st), env)
             ELSE For(v.st, env, s[2], n[1][2], n[2][2], n[3][2], s[4])
    [] s[1] = "forin" ->
         LET v == EvalList(st, env, s[3])  n == Adjusted(v.vals, 3)
         IN  ForIn(v.st, env, s[2], n[1], n[2], n[3], s[4])
    [] s[1] = "localfunction" ->
         LET b == Bind(st, env, <<s[2]>>, <<>>)  f == Eval(b.st, b.env, s[3])
         IN  Goes([f.st EXCEPT !.store[b.env[s[2]]] = f.vals[1]], b.env)
    [] s[1] = "return" -> LET v == EvalList(st, env, s[2]) IN Ended(v.st, env, "return", v.vals)
    [] s[1] = "break"  -> Ended(st, env, "break", <<>>)

\* What the program tells its host, and what it returns, unless it fails.
Meaning(program, order) ==
  LET names == {<<"string", "emit">>, <<"string", "setmetatable">>}
      st == [store |-> <<>>, fns |-> <<>>, trace |-> <<>>, err |-> FALSE, order |-> order,
             tables |-> <<[at |-> [x \in names |-> <<"cfunction", x[2]>>], meta |-> 0]>>]
      r == Block([st EXCEPT !.store = <<<<>>>>], "..." :> 1, program)
      shown(vals) == [i \in DOMAIN vals |-> Shown(vals[i])]
  IN  [trace |-> [i \in DOMAIN r.st.trace |-> shown(r.st.trace[i])],
       ends  |-> IF r.st.err THEN <<"error">> ELSE <<"returns", shown(r.vals)>>]

-----------------------------------------------------------------------------
(* The text of a program, as the tokens the lexer makes of it.  Operators   *)
(* have the precedence of section 2.5.6; <<"paren", e>> is written so.      *)

Words(seqs) == FoldLeft(LAMBDA acc, s : acc \o s, <<>>, seqs)
Word(w) == <<<<w>>>>
Name(x) == <<<<"NAME", x>>>>
Separated(seqs) == FoldLeft(LAMBDA acc, s : IF acc = <<>> THEN s ELSE acc \o Word(",") \o s, <<>>, seqs)

RECURSIVE Write(_)
RECURSIVE WriteBlock(_)
WriteList(exps) == Separated([i \in DOMAIN exps |-> Write(exps[i])])
WriteBody(params, vararg, body) ==
  Word("(") \o Separated([i \in DOMAIN params |-> Name(params[i])] \o IF vararg # "no" THEN <<Word("...")>> ELSE <<>>)
    \o Word(")") \o WriteBlock(body) \o Word("end")
Write(e) ==
  CASE e[1] = "nil"  -> Word("nil")
    [] e[1] = "bool" -> Word(IF e[2] THEN "true" ELSE "false")
    [] e[1] = "num"  -> <<<<"NUMBER", e[2]>>>>
    [] e[1] = "str"  -> <<<<"STRING", e[2]>>>>
    [] e[1] = "..."  -> Word("...")
    [] e[1] = "name" -> Name(e[2])
    [] e[1] = "paren" -> Word("(") \o Write(e[2]) \o Word(")")
    [] e[1] = "index" -> IF e[3][1] = "str" THEN Write(e[2]) \o Word(".") \o Name(e[3][2])
                         ELSE Write(e[2]) \o Word("[") \o Write(e[3]) \o Word("]")
    [] e[1] = "call"  -> Write(e[2]) \o (IF Len(e[3]) = 1 /\ e[3][1][1] \in {"str", "table"} THEN Write(e[3][1])
                                         ELSE Word("(") \o WriteList(e[3]) \o Word(")"))
    [] e[1] = "method" -> Write(e[2]) \o Word(":") \o Name(e[3]) \o Word("(") \o WriteList(e[4]) \o Word(")")
    [] e[1] = "function" -> Word("function") \o WriteBody(e[2], e[3], e[4])
    [] e[1] = "un"  -> Word(e[2]) \o Write(e[3])
    [] e[1] = "bin" -> Write(e[3]) \o Word(e[2]) \o Write(e[4])
    [] e[1] = "table" ->
         LET item(it) == CASE it[1] = "item" -> Write(it[2])
                           [] it[1] = "field" /\ it[2][1] = "str" -> Name(it[2][2]) \o Word("=") \o Write(it[3])
                           [] OTHER -> Word("[") \o Write(it[2]) \o Word("]") \o Word("=") \o Write(it[3])
         IN  Word("{") \o Separated([i \in DOMAIN e[2] |-> item(e[2][i])]) \o Word("}")
WriteStat(s) ==
  CASE s[1] = "local" -> Word("local") \o Separated([i \in DOMAIN s[2] |-> Name(s[2][i])])
                           \o (IF s[3] = <<>> THEN <<>> ELSE Word("=") \o WriteList(s[3]))
    [] s[1] = "assign" /\ Len(s[2]) = 1 /\ s[2][1][1] # "name" /\ s[3][1][1] = "function" /\ s[2][1][2][1] = "name"
       /\ s[2][1][3][1] = "str" ->  \* function a.b () or a:b ()
         LET f == s[3][1]  m == f[2] # <<>> /\ f[2][1] = "self"
         IN  Word("function") \o Name(s[2][1][2][2]) \o Word(IF m THEN ":" ELSE ".") \o Name(s[2][1][3][2])
               \o WriteBody(IF m THEN Tail(f[2]) ELSE f[2], f[3], f[4])
    [] s[1] = "assign" -> WriteList(s[2]) \o Word("=") \o WriteList(s[3])
    [] s[1] = "callstat" -> Write(s[2])
    [] s[1] = "do" -> Word("do") \o WriteBlock(s[2]) \o Word("end")
    [] s[1] = "while" -> Word("while") \o Write(s[2]) \o Word("do") \o WriteBlock(s[3]) \o Word("end")
    [] s[1] = "repeat" -> Word("repeat") \o WriteBlock(s[2]) \o Word("until") \o Write(s[3])
    [] s[1] = "if" ->
         Words([i \in DOMAIN s[2] |-> Word(IF i = 1 THEN "if" ELSE "elseif") \o Write(s[2][i][1]) \o Word("then")
                                        \o WriteBlock(s[2][i][2])])
           \o (IF s[3] = <<>> THEN <<>> ELSE Word("else") \o WriteBlock(s[3])) \o Word("end")
    [] s[1] = "for" -> Word("for") \o Name(s[2]) \o Word("=") \o WriteList(s[3]) \o Word("do") \o WriteBlock(s[4]) \o Word("end")
    [] s[1] = "forin" -> Word("for") \o Separated([i \in DOMAIN s[2] |-> Name(s[2][i])]) \o Word("in") \o WriteList(s[3])
                           \o Word("do") \o WriteBlock(s[4]) \o Word("end")
    [] s[1] = "localfunction" -> Word("local") \o Word("function") \o Name(s[2]) \o WriteBody(s[3][2], s[3][3], s[3][4])
    [] s[1] = "return" -> Word("return") \o WriteList(s[2])
    [] s[1] = "break"  -> Word("break")
WriteBlock(body) == Words([i \in DOMAIN body |-> WriteStat(body[i]) \o IF i < Len(body) THEN Word(";") ELSE <<>>])
=============================================================================
