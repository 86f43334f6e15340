------------------------------ MODULE MCLuaScript ------------------------------
(***************************************************************************)
(* The scripts TLC runs: families of conditions and of assignments, and    *)
(* scripts for each statement where blocks, closures, calls, varargs,      *)
(* constructors and metamethods meet.                                      *)
(***************************************************************************)
EXTENDS LuaScript

\* Trees, named by what they write.
n(x) == <<"name", x>>
i_(k) == <<"num", k>>
s_(x) == <<"str", x>>
nil == <<"nil">>
true == <<"bool", TRUE>>
false == <<"bool", FALSE>>
dots == <<"...">>
bin(a, op, b) == <<"bin", op, a, b>>
un(op, a) == <<"un", op, a>>
par(a) == <<"paren", a>>
at(t, k) == <<"index", t, k>>
dot(t, x) == <<"index", t, s_(x)>>
call(f, args) == <<"call", f, args>>
fn(params, body) == <<"function", params, "no", body>>
table(items) == <<"table", items>>
list(es) == table([j \in DOMAIN es |-> <<"item", es[j]>>])
local(names, exps) == <<"local", names, exps>>
set(vars_, exps) == <<"assign", vars_, exps>>
do(c) == <<"callstat", c>>
emit(exps) == do(call(n("emit"), exps))
ret(exps) == <<"return", exps>>
if(c, then, else) == <<"if", <<<<c, then>>>>, else>>
for(x, a, b, body) == <<"for", x, <<a, b>>, body>>
break == <<"break">>
a_ == n("a")
b_ == n("b")
g_ == n("g")
f_ == n("f")
t_ == n("t")

\* Sequences of all combinations.
Pairs(xs, ys, F_(_, _)) == [k \in 1 .. Len(xs) * Len(ys) |->
  F_(xs[((k - 1) \div Len(ys)) + 1], ys[((k - 1) % Len(ys)) + 1])]

\* Conditions: and, or, not and comparisons in two levels, as a value, in an if, in a
\* loop and as an argument, over the values of a and b.
Leaves == <<a_, un("not", b_), nil, i_(1), bin(a_, "==", b_), g_>>
Level1 == Pairs(Leaves, <<"and", "or">>, LAMBDA x, op : <<x, op>>)
Level2 == Pairs(Level1, Leaves, LAMBDA l, y : bin(l[1], l[2], y))
Level3 == Pairs(Level2, <<bin(b_, "and", g_), un("not", par(bin(a_, "or", b_))), bin(a_, "<", i_(2)), false>>,
                LAMBDA x, y : bin(x, "or", y))
           \o Pairs(Level2, <<b_, un("not", par(bin(g_, "and", a_)))>>, LAMBDA x, y : bin(y, "and", par(x)))
Values == <<<<nil, i_(2)>>, <<i_(1), false>>, <<i_(1), i_(1)>>>>
InContext(c, v, k) ==
  <<local(<<"a", "b">>, v), set(<<g_>>, <<v[2]>>)>> \o
  CASE k = 0 -> <<emit(<<c, a_>>), local(<<"r">>, <<un("not", par(c))>>), ret(<<n("r"), c>>)>>
    [] k = 1 -> <<if(c, <<emit(<<i_(1)>>)>>, <<emit(<<i_(2)>>)>>), set(<<b_>>, <<c>>), ret(<<b_>>)>>
    [] k = 2 -> <<<<"while", c, <<emit(<<i_(3)>>), break>>>>,
                  <<"repeat", <<local(<<"x">>, <<a_>>), if(n("h"), <<break>>, <<>>),
                                set(<<a_, n("h"), b_>>, <<nil, true, n("x")>>)>>, c>>,
                  ret(<<a_, un("not", par(c))>>)>>
Conditions == [k \in DOMAIN Level3 |->
                 LET c == k % 3  v == Values[IF c = 2 THEN 1 ELSE 1 + ((k \div 3) % 3)] IN InContext(Level3[k], v, c)]

\* Assignments: two or three variables of each kind, as many values or more or fewer.
Targets == <<a_, at(t_, a_), dot(t_, "x"), at(t_, i_(2)), g_>>
Givens == <<<<i_(1), a_>>, <<a_, at(t_, a_)>>, <<call(f_, <<i_(5), i_(6)>>)>>, <<call(f_, <<a_>>), i_(7), b_>>,
            <<bin(a_, "+", i_(1)), i_(20)>>, <<nil, par(call(f_, <<i_(8)>>))>>, <<fn(<<>>, <<ret(<<a_>>)>>), b_>>,
            <<i_(1), call(f_, <<i_(3), b_>>)>>>>
Assigning(l, r) ==
  <<local(<<"a", "b", "t", "f">>, <<i_(1), i_(2), list(<<i_(4), t_>>), n("emit")>>), set(l, r),
    ret(<<a_, b_, g_, at(t_, i_(1)), at(t_, i_(2)), dot(t_, "x")>>)>>
Assignments ==
  Pairs(Pairs(Targets, Targets, LAMBDA x, y : <<x, y>>), Givens, LAMBDA l, r : Assigning(l, r))
    \o Pairs(Targets, Givens, LAMBDA x, r : Assigning(<<at(t_, b_), x, b_>>, r))

\* Closures, blocks and loops.
counter == fn(<<>>, <<set(<<n("c")>>, <<bin(n("c"), "+", i_(1))>>), ret(<<n("c")>>)>>)
add(x) == set(<<at(t_, bin(un("#", t_), "+", i_(1)))>>, <<fn(<<>>, <<set(<<n(x)>>, <<bin(n(x), "+", i_(1))>>), ret(<<n(x)>>)>>)>>)
first == call(at(t_, i_(1)), <<>>)
second == call(at(t_, i_(2)), <<>>)
tail == <<emit(<<first, first, second>>), ret(<<first, un("#", t_)>>)>>
newt == local(<<"t">>, <<table(<<>>)>>)
Scopes == <<
  <<newt, for("j", i_(1), i_(3), <<add("j")>>)>> \o tail,
  <<newt, for("j", i_(1), i_(3), <<local(<<"x">>, <<n("j")>>), add("x"), if(bin(n("j"), "==", i_(2)), <<break>>, <<>>)>>)>> \o tail,
  <<newt, local(<<"j">>, <<i_(0)>>), <<"while", bin(n("j"), "<", i_(3)),
     <<local(<<"x">>, <<n("j")>>), add("x"), set(<<n("j")>>, <<bin(n("j"), "+", i_(1))>>)>>>>>> \o tail,
  <<newt, <<"repeat", <<local(<<"x">>, <<un("#", t_)>>), add("x")>>, bin(n("x"), ">", i_(1))>>>> \o tail,
  <<newt, <<"repeat", <<local(<<"x">>, <<un("#", t_)>>), add("x"), if(bin(n("x"), "==", i_(2)), <<break>>, <<>>)>>, false>>>> \o tail,
  <<newt, local(<<"j">>, <<i_(0)>>),
    <<"repeat", <<local(<<"x">>, <<n("j")>>), set(<<n("j")>>, <<bin(n("j"), "+", i_(1))>>)>>,
      bin(call(par(fn(<<>>, <<ret(<<n("x")>>)>>)), <<>>), "==", i_(1))>>, ret(<<n("j")>>)>>,
  <<newt, <<"do", <<local(<<"x">>, <<i_(5)>>), add("x"), add("x")>>>>, <<"do", <<local(<<"y">>, <<i_(8)>>), emit(<<n("y")>>)>>>>>> \o tail,
  <<local(<<"c", "d">>, <<i_(0), i_(9)>>), local(<<"f">>, <<fn(<<>>, <<ret(<<counter>>)>>)>>),
    local(<<"p">>, <<call(f_, <<>>)>>), emit(<<call(n("p"), <<>>), call(call(f_, <<>>), <<>>), n("c")>>), ret(<<n("d"), call(n("p"), <<>>)>>)>>,
  <<local(<<"a", "b">>, <<i_(1), i_(2)>>),
    local(<<"f">>, <<fn(<<"x">>, <<local(<<"g">>, <<fn(<<>>, <<set(<<b_, n("x")>>, <<n("x"), bin(a_, "+", b_)>>), ret(<<n("x")>>)>>)>>),
                                   ret(<<call(n("g"), <<>>), call(n("g"), <<>>)>>)>>)>>),
    emit(<<call(f_, <<i_(10)>>)>>), ret(<<b_, call(f_, <<i_(3)>>)>>)>>,
  <<<<"localfunction", "f", fn(<<"x">>, <<if(bin(n("x"), "<=", i_(1)), <<ret(<<i_(1)>>)>>, <<>>),
                                          ret(<<bin(n("x"), "*", call(f_, <<bin(n("x"), "-", i_(1))>>))>>)>>)>>, ret(<<call(f_, <<i_(4)>>)>>)>>,
  <<<<"localfunction", "f", fn(<<"x", "y">>, <<if(bin(n("x"), "==", i_(0)), <<ret(<<n("y"), n("x")>>)>>, <<>>),
                                               local(<<"k">>, <<bin(n("x"), "+", n("y"))>>),
                                               ret(<<call(f_, <<bin(n("x"), "-", i_(1)), fn(<<>>, <<ret(<<n("k")>>)>>)>>)>>)>>)>>,
    local(<<"r">>, <<call(f_, <<i_(3), i_(5)>>)>>)>>,
  <<<<"localfunction", "f", fn(<<"x", "y">>, <<if(bin(n("x"), "==", i_(0)), <<ret(<<n("y"), n("x")>>)>>, <<>>),
                                               ret(<<call(f_, <<bin(n("x"), "-", i_(1)), fn(<<>>, <<ret(<<n("x")>>)>>)>>)>>)>>)>>,
    local(<<"r">>, <<call(f_, <<i_(3), i_(5)>>)>>), emit(<<call(n("r"), <<>>)>>), ret(<<call(f_, <<i_(1), i_(2)>>)>>)>>,
  <<for("j", i_(1), i_(2), <<for("k", n("j"), i_(3), <<if(bin(n("k"), "==", i_(3)), <<break>>, <<>>), emit(<<n("j"), n("k")>>)>>)>>),
    <<"for", "j", <<i_(3), i_(1), un("-", i_(2))>>, <<emit(<<n("j")>>), local(<<"j">>, <<>>)>>>>>>,
  <<<<"for", "j", <<s_("2"), i_(3)>>, <<emit(<<n("j")>>), set(<<n("j")>>, <<i_(9)>>)>>>>, for("j", i_(1), nil, <<>>), emit(<<i_(1)>>)>>,
  <<local(<<"j">>, <<i_(0)>>),
    <<"forin", <<"x", "y">>, <<fn(<<"s", "v">>, <<if(bin(n("v"), "<", n("s")), <<ret(<<bin(n("v"), "+", i_(1)), n("j")>>)>>, <<>>)>>), i_(3), i_(0)>>,
      <<set(<<n("j")>>, <<bin(n("j"), "+", n("x"))>>), emit(<<n("x"), n("y")>>)>>>>, ret(<<n("j")>>)>>,
  <<newt, <<"forin", <<"x">>, <<fn(<<"s", "v">>, <<if(bin(n("v"), "==", i_(2)), <<ret(<<nil>>)>>, <<>>), ret(<<bin(n("v"), "+", i_(1))>>)>>), nil, i_(0)>>,
      <<add("x")>>>>>> \o tail,
  <<<<"if", <<<<a_, <<emit(<<i_(1)>>)>>>>, <<bin(nil, "==", a_), <<local(<<"a">>, <<i_(3)>>), emit(<<a_>>)>>>>, <<true, <<>>>>>>, <<emit(<<i_(2)>>)>>>>,
    ret(<<a_>>)>> >>

\* Calls, varargs, constructors, strings and numbers.
vfn(mode, params, body) == <<"function", params, mode, body>>
field(k, e) == <<"field", k, e>>
item(e) == <<"item", e>>
three == fn(<<>>, <<ret(<<i_(1), nil, i_(3)>>)>>)
Expressions == <<
  <<local(<<"f">>, <<vfn("new", <<"x">>, <<emit(<<n("x"), dots>>), local(<<"y", "z">>, <<dots>>), ret(<<n("arg"), n("z"), n("y"), dots>>)>>)>>),
    ret(<<call(f_, <<>>), call(f_, <<i_(1), i_(2)>>), par(call(f_, <<i_(3)>>)), call(f_, <<i_(4), i_(5), nil, i_(6)>>)>>)>>,
  <<local(<<"f">>, <<vfn("old", <<"x">>, <<ret(<<n("x"), un("#", n("arg")), dot(n("arg"), "n"), at(n("arg"), i_(2))>>)>>)>>),
    emit(<<call(f_, <<>>)>>), emit(<<call(f_, <<i_(1), i_(2), i_(3)>>)>>), ret(<<call(f_, <<i_(7), i_(8)>>)>>)>>,
  <<local(<<"f">>, <<vfn("new", <<>>, <<ret(<<list(<<dots, dots>>)>>)>>)>>), local(<<"t">>, <<call(f_, <<i_(4), i_(5), i_(6)>>)>>),
    ret(<<un("#", t_), at(t_, i_(2)), at(t_, i_(4)), dots>>)>>,
  <<local(<<"f">>, <<three>>), ret(<<call(f_, <<>>), call(f_, <<>>), par(call(f_, <<>>))>>)>>,
  <<local(<<"f">>, <<three>>), local(<<"a", "b", "c", "d">>, <<i_(0), call(f_, <<>>)>>), emit(<<a_, b_, n("c"), n("d")>>),
    ret(<<call(n("emit"), <<call(f_, <<>>)>>)>>)>>,
  <<local(<<"f">>, <<three>>), local(<<"t">>, <<list(<<i_(9), call(f_, <<>>), i_(8), call(f_, <<>>)>>)>>),
    ret(<<at(t_, i_(1)), at(t_, i_(2)), at(t_, i_(3)), at(t_, i_(4)), at(t_, i_(6))>>)>>,
  <<local(<<"t">>, <<table(<<item(i_(1)), field(s_("x"), i_(5)), item(i_(2)), item(i_(3)), field(i_(7), i_(6)), item(i_(4)), item(i_(5))>>)>>),
    ret(<<un("#", t_), dot(t_, "x"), at(t_, i_(3)), at(t_, i_(4)), at(t_, i_(5)), at(t_, i_(7))>>)>>,
  <<local(<<"t">>, <<list(<<i_(1), i_(2), i_(3), i_(4)>>)>>), set(<<at(t_, un("#", t_)), at(t_, i_(5))>>, <<call(n("emit"), <<i_(8), i_(9)>>)>>),
    ret(<<at(t_, i_(4)), at(t_, i_(5)), list(<<list(<<>>), list(<<t_>>)>>)>>)>>,
  <<local(<<"t">>, <<table(<<field(s_("x"), i_(3)), field(bin(i_(1), "+", i_(1)), true)>>)>>),
    set(<<dot(t_, "get")>>, <<fn(<<"self", "y">>, <<ret(<<bin(dot(n("self"), "x"), "*", n("y")), n("self")>>)>>)>>),
    set(<<dot(t_, "new")>>, <<fn(<<"y">>, <<ret(<<list(<<n("y")>>)>>)>>)>>),
    ret(<<<<"method", t_, "get", <<i_(4)>>>>, at(call(dot(t_, "new"), <<i_(2)>>), i_(1)), at(t_, i_(2))>>)>>,
  <<set(<<n("p"), n("q"), n("r"), n("s"), n("u")>>, <<i_(1), i_(2), i_(3), i_(4), i_(5)>>),
    local(<<"t">>, <<table(<<field(s_("k6"), i_(6)), field(s_("k7"), s_("k8"))>>)>>), set(<<dot(t_, "k9")>>, <<n("u")>>),
    set(<<dot(t_, "k6")>>, <<bin(i_(9), "-", dot(t_, "k6"))>>), emit(<<bin(dot(t_, "k7"), "==", s_("k8")), bin(n("s"), "<", i_(8))>>),
    ret(<<dot(t_, "k6"), dot(t_, "k9"), bin(n("r"), "+", i_(7))>>)>>,
  <<set(<<t_>>, <<table(<<>>)>>), set(<<dot(t_, "a"), dot(t_, "b"), dot(t_, "c")>>, <<i_(1), i_(2), i_(3)>>), set(<<dot(t_, "m")>>,
    <<fn(<<"self">>, <<ret(<<dot(n("self"), "c")>>)>>)>>), ret(<<<<"method", t_, "m", <<>>>>, nil, dot(t_, "b")>>)>>,
  <<ret(<<bin(i_(1), "+", bin(i_(2), "*", bin(i_(3), "^", i_(2)))), bin(bin(i_(7), "-", i_(2)), "-", i_(1)), un("-", bin(i_(2), "^", i_(2))),
          bin(bin(i_(7), "%", i_(4)), "*", i_(2)), un("not", par(bin(nil, "==", false))), bin(bin(i_(2), "^", i_(3)), "<=", i_(8))>>)>>,
  <<local(<<"a", "b">>, <<i_(2), i_(3)>>),
    ret(<<bin(a_, "+", bin(b_, "*", bin(a_, "^", bin(b_, "^", i_(1))))), bin(bin(a_, "-", b_), "-", i_(1)), un("-", bin(a_, "^", i_(2))), bin(a_, "*", un("-", b_)),
          bin(bin(bin(b_, "%", a_), "*", a_), "<", bin(a_, "+", b_)), bin(a_, "-", par(bin(b_, "-", i_(1)))), bin(s_("4"), "*", a_)>>)>>,
  <<local(<<"a", "b">>, <<s_("x"), i_(2)>>),
    ret(<<bin(a_, "..", bin(b_, "..", s_("y"))), bin(s_(""), "..", bin(a_, "..", s_(""))), un("#", par(bin(a_, "..", b_))),
          bin(bin(a_, "..", b_), "==", s_("x2")), bin(a_, "<", s_("y")), bin(s_("y"), "<=", a_), bin(s_("x"), ">=", a_), bin(a_, "~=", b_)>>)>>,
  <<local(<<"a">>, <<i_(1)>>), emit(<<bin(a_, "+", nil)>>), emit(<<i_(2)>>)>>,
  <<local(<<"a">>, <<i_(1)>>), emit(<<bin(a_, "<", s_("x"))>>)>>,
  <<local(<<"a">>, <<i_(1)>>), emit(<<bin(a_, "..", nil)>>)>>,
  <<local(<<"a">>, <<i_(1)>>), emit(<<dot(a_, "x")>>)>>,
  <<set(<<dot(a_, "x")>>, <<i_(1)>>)>>,
  <<local(<<"t">>, <<list(<<i_(3)>>)>>), set(<<at(t_, nil)>>, <<i_(1)>>)>>,
  <<local(<<"t">>, <<un("#", i_(1))>>)>>,
  <<local(<<"t">>, <<bin(true, "<=", false)>>)>>,
  <<local(<<"a">>, <<un("-", table(<<>>))>>)>>,
  <<emit(<<i_(1)>>), do(call(n("nothing"), <<i_(1)>>))>> >>

\* Metamethods: t has the metatable m with the event e handled by h.
with(e, h, body) ==
  <<local(<<"m", "t", "u">>, <<table(<<field(s_(e), h)>>), table(<<>>), table(<<field(s_("x"), i_(1))>>)>>),
    do(call(n("setmetatable"), <<t_, n("m")>>)), do(call(n("setmetatable"), <<n("u"), n("m")>>))>> \o body
told == fn(<<"x", "y">>, <<emit(<<n("x"), n("y")>>), ret(<<i_(7), i_(8)>>)>>)
u_ == n("u")
Metamethods == <<
  with("__index", told, <<ret(<<dot(t_, "z"), dot(u_, "x"), <<"method", t_, "w", <<>>>>>>)>>),
  with("__index", told, <<ret(<<bin(dot(t_, "z"), "+", i_(1)), at(u_, i_(3))>>)>>),
  with("__index", table(<<field(s_("z"), i_(4))>>), <<emit(<<dot(t_, "z"), dot(u_, "y")>>), set(<<dot(t_, "z")>>, <<i_(5)>>), ret(<<dot(t_, "z"), dot(u_, "z")>>)>>),
  with("__newindex", fn(<<"x", "y", "v">>, <<emit(<<n("x"), n("y"), n("v")>>)>>), <<set(<<dot(u_, "x"), dot(t_, "x")>>, <<i_(2), i_(3)>>), ret(<<dot(u_, "x"), dot(t_, "x")>>)>>),
  with("__newindex", table(<<>>), <<set(<<dot(t_, "x")>>, <<i_(3)>>), ret(<<dot(t_, "x"), dot(dot(n("m"), "__newindex"), "x")>>)>>),
  with("__add", told, <<ret(<<bin(t_, "+", i_(1)), bin(i_(1), "+", u_), bin(bin(i_(2), "*", i_(3)), "+", t_)>>)>>),
  with("__sub", told, <<ret(<<bin(t_, "-", u_)>>)>>), with("__mul", told, <<ret(<<bin(t_, "*", u_)>>)>>),
  with("__mod", told, <<ret(<<bin(t_, "%", u_)>>)>>), with("__pow", told, <<ret(<<bin(t_, "^", u_)>>)>>),
  with("__unm", told, <<ret(<<un("-", t_)>>)>>),
  with("__concat", told, <<ret(<<bin(i_(1), "..", bin(t_, "..", i_(3))), bin(s_("x"), "..", bin(i_(2), "..", t_)), bin(t_, "..", bin(s_("x"), "..", i_(2)))>>)>>),
  with("__eq", told, <<ret(<<bin(t_, "==", u_), bin(t_, "~=", u_), bin(t_, "==", t_), bin(t_, "==", list(<<>>)), bin(t_, "==", i_(1))>>)>>),
  with("__eq", fn(<<>>, <<>>), <<if(bin(t_, "~=", u_), <<emit(<<i_(1)>>)>>, <<>>), ret(<<bin(t_, "==", u_)>>)>>),
  with("__lt", told, <<ret(<<bin(t_, "<", u_), bin(t_, ">", u_), bin(t_, "<=", u_), bin(t_, ">=", u_)>>)>>),
  with("__lt", fn(<<>>, <<ret(<<false>>)>>), <<if(bin(t_, "<=", u_), <<emit(<<i_(1)>>)>>, <<>>), ret(<<bin(t_, "<", u_)>>)>>),
  with("__le", told, <<ret(<<bin(t_, "<=", u_), bin(t_, "<", u_)>>)>>),
  with("__call", vfn("new", <<"x">>, <<emit(<<n("x"), dots>>), ret(<<dots>>)>>), <<emit(<<call(t_, <<>>)>>), ret(<<call(u_, <<i_(1), i_(2)>>)>>)>>),
  with("__call", n("emit"), <<ret(<<call(t_, <<i_(1)>>), call(u_, <<i_(2)>>)>>)>>),
  with("__call", n("emit"), <<<<"forin", <<"x", "y">>, <<t_, i_(1), nil>>, <<if(n("y"), <<break>>, <<>>)>>>>, ret(<<call(t_, <<i_(2)>>)>>)>>),
  \* The absence of a metamethod is noted, then it appears.
  with("x", i_(1), <<emit(<<dot(t_, "y"), bin(t_, "==", u_)>>), set(<<dot(t_, "y")>>, <<nil>>), set(<<dot(n("m"), "__index")>>, <<list(<<i_(6)>>)>>),
                     set(<<dot(n("m"), "__eq"), dot(n("m"), "__newindex")>>, <<told, n("emit")>>), set(<<dot(t_, "y")>>, <<i_(2)>>),
                     ret(<<at(t_, i_(1)), bin(t_, "==", u_), dot(t_, "y")>>)>>),
  <<local(<<"t">>, <<table(<<>>)>>), do(call(n("setmetatable"), <<t_, t_>>)), set(<<dot(t_, "__newindex")>>, <<n("emit")>>),
    set(<<dot(t_, "x")>>, <<i_(1)>>), ret(<<dot(t_, "x")>>)>>,
  with("__metatable", i_(1), <<do(call(n("setmetatable"), <<t_, nil>>))>>),
  <<local(<<"t">>, <<call(n("setmetatable"), <<table(<<>>), table(<<field(s_("__index"), table(<<field(s_("x"), i_(2))>>))>>)>>)>>),
    emit(<<dot(t_, "x")>>), do(call(n("setmetatable"), <<t_, nil>>)), ret(<<dot(t_, "x")>>)>> >>

AllPrograms == Conditions \o Assignments \o Scopes \o Expressions \o Metamethods
Strings == <<"", "x", "y">>
=============================================================================
