--------------------------- MODULE LuaRuntime_proofs ---------------------------
(***************************************************************************)
(* Theorems about calls, errors and coroutines, and about what the library *)
(* builds on them: the module loader, the references and buffers of the    *)
(* auxiliary library, and MD5.                                             *)
(*                                                                         *)
(* The C stack stays bounded, coroutine.status tells the truth and a       *)
(* protected call restores what it began with, for any number of           *)
(* coroutines and any limits.  The activations on the C stack are linked:  *)
(* each runs with a count of C calls and with or without hooks, which      *)
(* follow from those of the activation below it.  The program keeps        *)
(* neither for the activations that wait: the invariant says that there    *)
(* are such numbers.                                                       *)
(*                                                                         *)
(* No module is begun while it runs, for any modules and any depth;        *)
(* references keep what they refer to, for any number of them; a buffer's  *)
(* pieces are the text added to it, in order; what MD5 processes is the    *)
(* message, its padding and the count of bits.                             *)
(***************************************************************************)
EXTENDS LuaCall, LuaRequire, LuaAuxiliary, Md5Stream, SequenceLemmas

-----------------------------------------------------------------------------
(* The invariant.                                                           *)

Kinds == {"lua", "C"}
Calls == [kind : {"call", "handler", "hook", "resume"}, t : Threads, depth : Nat]
PCalls == [kind : {"pcall"}, t : Threads, depth : Nat, nCcalls : Nat, allowhook : BOOLEAN,
           errfunc : {"none", "function"}]
Activations == Calls \cup PCalls
\* What an activation runs with: the count of C calls, and whether hooks are allowed.
Levels == [n : Nat, hook : BOOLEAN]
Recurses(a) == a.kind \in {"call", "handler", "resume"}
Saves(a) == a.kind \in {"pcall", "hook"}

CallTypeOK ==
  /\ frames \in [Threads -> Seq(Kinds)] /\ sizeCI \in [Threads -> Nat]
  /\ thStatus \in [Threads -> {"ok", "yield", "error"}] /\ fresh \subseteq Coroutines
  /\ nCcalls \in [Threads -> Nat] /\ baseCcalls \in [Threads -> Nat]
  /\ allowhook \in [Threads -> BOOLEAN] /\ errfunc \in [Threads -> {"none", "function"}]
  /\ cstack \in Seq(Activations) /\ pc \in {"run", "precall", "error", "throw"}
  /\ pc = "precall" => arg \in Kinds
  /\ \A th \in Threads : sizeCI[th] >= 2

\* An activation a that runs with x, on top of b, that runs with y.
Linked(a, x, b, y) ==
  /\ a.kind # "resume" => b.t = a.t
  /\ a.kind = "call" => /\ x.n = y.n + 1 /\ x.hook = y.hook
                        /\ Saves(b) => a.depth = b.depth
                        /\ ~Saves(b) => a.depth > b.depth
  /\ a.kind = "handler" => x.n > y.n /\ x.hook = y.hook /\ a.depth >= b.depth
  /\ a.kind = "pcall" => x.n = y.n /\ x.hook = y.hook /\ a.nCcalls = y.n /\ a.allowhook = y.hook
  /\ a.kind = "hook" => x.n = y.n /\ y.hook = TRUE
  /\ Saves(a) => ~Saves(b) /\ a.depth > b.depth
  /\ a.kind = "resume" => x.n = y.n + 1 /\ ~Saves(b) /\ a.depth = 0 /\ a.t # Main
\* The outermost activation is the host's.
Outermost(a, x) ==
  /\ a.kind = "pcall" /\ a.t = Main /\ a.depth = 0 /\ a.nCcalls = 0 /\ a.allowhook = TRUE
  /\ x.n = 0 /\ x.hook = TRUE

\* The activations and what they run with.
Links(cs, lv) ==
  /\ \A k \in 1 .. Len(cs) - 1 : Linked(cs[k], lv[k], cs[k + 1], lv[k + 1])
  /\ Len(cs) > 0 => Outermost(cs[Len(cs)], lv[Len(cs)])
\* The counts grow with every activation that recurses in C, and stay below the limit.
Counts(cs, lv) ==
  /\ \A k \in 1 .. Len(cs) : lv[k].n < MaxCCalls + ExtraCCalls
  /\ \A k, q \in 1 .. Len(cs) : k < q =>
       lv[k].n >= lv[q].n /\ (Recurses(cs[k]) => lv[k].n > lv[q].n)
\* The activations of a thread are together, on top of the one that resumed it.
Blocks(cs) ==
  /\ \A k, q \in 1 .. Len(cs) : k < q /\ cs[k].t = cs[q].t =>
       /\ cs[k].kind # "resume" /\ cs[k].depth >= cs[q].depth
       /\ \A r \in k .. q : cs[r].t = cs[k].t
  /\ \A k \in 1 .. Len(cs) : cs[k].t # Main =>
       /\ \E q \in k .. Len(cs) : cs[q].kind = "resume" /\ cs[q].t = cs[k].t
       /\ cs[k].kind # "resume" => cs[k].depth > 0
Chain(cs, lv) == Len(lv) = Len(cs) /\ Links(cs, lv) /\ Counts(cs, lv) /\ Blocks(cs)

\* A thread that waits for one it has resumed has kept what its activation runs with.
Waits(b, y, nc, ah, fr) == nc[b.t] = y.n /\ ah[b.t] = y.hook /\ Len(fr[b.t]) > b.depth
Waiting(cs, lv, nc, ah, fr) ==
  \A k \in 1 .. Len(cs) - 1 : cs[k].kind = "resume" => Waits(cs[k + 1], lv[k + 1], nc, ah, fr)
\* The thread that runs: errors are on their way until what they left behind is restored.
Running(cs, lv, nc, ah, fr, at) ==
  /\ Len(cs) = 0 => at = "run" /\ nc[Main] = 0 /\ ah[Main] = TRUE /\ fr[Main] = <<>>
  /\ Len(cs) > 0 =>
       /\ nc[cs[1].t] >= lv[1].n /\ ah[cs[1].t] = lv[1].hook /\ Len(fr[cs[1].t]) >= cs[1].depth
       /\ at \in {"run", "precall"} => nc[cs[1].t] = lv[1].n /\ ~Saves(cs[1])
       /\ at = "run" => Len(fr[cs[1].t]) > cs[1].depth
Bases(cs, lv, base) ==
  /\ base[Main] = 0
  /\ \A k \in 1 .. Len(cs) : cs[k].kind = "resume" => lv[k].n = base[cs[k].t]
Stands(cs, lv, nc, ah, fr, base) ==
  Chain(cs, lv) /\ Waiting(cs, lv, nc, ah, fr) /\ Bases(cs, lv, base)
StackInv ==
  \E lv \in Seq(Levels) :
    /\ Stands(cstack, lv, nCcalls, allowhook, frames, baseCcalls)
    /\ Running(cstack, lv, nCcalls, allowhook, frames, pc)

\* A coroutine's status, and what is left of its call infos.
Resumed(cs, co) == \E k \in 1 .. Len(cs) : cs[k].kind = "resume" /\ cs[k].t = co
StatusInv ==
  \A co \in Coroutines :
    /\ Resumed(cstack, co) => thStatus[co] = "ok" /\ co \notin fresh
    /\ thStatus[co] = "ok" /\ ~Resumed(cstack, co) => frames[co] = <<>>
    /\ thStatus[co] = "yield" => Len(frames[co]) >= 2
    /\ frames[co] # <<>> => frames[co][Len(frames[co])] = "lua"
    /\ frames[co] = <<>> /\ Resumed(cstack, co) => L = co /\ pc = "precall" /\ arg = "lua"
    /\ co \in fresh => thStatus[co] = "ok"
CallInv == CallTypeOK /\ StackInv /\ StatusInv

-----------------------------------------------------------------------------
(* Lemmas about the C stack.                                                *)

\* a on top of cs, and cs without its first d.
Pushed(ns, a, cs) ==
  Len(ns) = Len(cs) + 1 /\ ns[1] = a /\ \A k \in 1 .. Len(cs) : ns[k + 1] = cs[k]
Dropped(ns, cs, d) ==
  Len(ns) = Len(cs) - d /\ \A k \in 1 .. Len(ns) : ns[k] = cs[k + d]

LEMMA Push ==
  ASSUME NEW S, NEW cs \in Seq(S), NEW a \in S
  PROVE  <<a>> \o cs \in Seq(S) /\ Pushed(<<a>> \o cs, a, cs)
BY DEF Pushed

LEMMA Drop ==
  ASSUME NEW S, NEW cs \in Seq(S), NEW d \in 0 .. Len(cs)
  PROVE  SubSeq(cs, d + 1, Len(cs)) \in Seq(S) /\ Dropped(SubSeq(cs, d + 1, Len(cs)), cs, d)
BY DEF Dropped

LEMMA DropFirst ==
  ASSUME NEW S, NEW cs \in Seq(S), Len(cs) > 0
  PROVE  Tail(cs) \in Seq(S) /\ Dropped(Tail(cs), cs, 1)
BY DEF Dropped

\* What may be put on top of the stack.
Fits(a, x, cs, lv) ==
  /\ x.n < MaxCCalls + ExtraCCalls
  /\ Len(cs) = 0 => Outermost(a, x)
  /\ Len(cs) > 0 => Linked(a, x, cs[1], lv[1])
  /\ a.kind = "resume" => \A k \in 1 .. Len(cs) : cs[k].t # a.t
  /\ a.t # Main /\ a.kind # "resume" => a.depth > 0

LEMMA ChainPush ==
  ASSUME NEW cs \in Seq(Activations), NEW lv \in Seq(Levels), Chain(cs, lv),
         NEW a \in Activations, NEW x \in Levels, Fits(a, x, cs, lv),
         NEW ns \in Seq(Activations), NEW mv \in Seq(Levels),
         Pushed(ns, a, cs), Pushed(mv, x, lv)
  PROVE  Chain(ns, mv)
<1> DEFINE n == Len(cs)
<1>1. n \in Nat /\ Len(lv) = n /\ Len(ns) = n + 1 /\ Len(mv) = n + 1
  BY DEF Pushed, Chain
<1>2. ns[1] = a /\ mv[1] = x /\ \A k \in 1 .. n : ns[k + 1] = cs[k] /\ mv[k + 1] = lv[k]
  BY <1>1 DEF Pushed
<1>3. \A k \in 2 .. n + 1 : k - 1 \in 1 .. n /\ ns[k] = cs[k - 1] /\ mv[k] = lv[k - 1]
  BY <1>1, <1>2
<1>4. Links(cs, lv) /\ Counts(cs, lv) /\ Blocks(cs)
  BY DEF Chain
<1>5. /\ \A k \in 1 .. n : lv[k] \in Levels /\ lv[k].n \in Nat
      /\ \A k \in 1 .. n : cs[k] \in Activations /\ cs[k].depth \in Nat
      /\ x.n \in Nat /\ a.depth \in Nat
  <2>1. \A k \in 1 .. n : lv[k] \in Levels /\ cs[k] \in Activations
    BY <1>1
  <2>2. \A y \in Levels : y.n \in Nat
    BY DEF Levels
  <2>3. \A b \in Activations : b.depth \in Nat
    BY DEF Activations, Calls, PCalls
  <2> QED BY <2>1, <2>2, <2>3
<1> HIDE DEF n
<1>6. Links(ns, mv)
  <2>1. ASSUME NEW k \in 1 .. n PROVE Linked(ns[k], mv[k], ns[k + 1], mv[k + 1])
    <3>1. CASE k = 1
      BY <1>1, <1>2, <3>1 DEF Fits, n
    <3>2. CASE k # 1
      <4>1. k - 1 \in 1 .. n - 1 /\ ns[k] = cs[k - 1] /\ mv[k] = lv[k - 1]
        BY <1>1, <1>3, <3>2
      <4>2. Linked(cs[k - 1], lv[k - 1], cs[k - 1 + 1], lv[k - 1 + 1])
        BY <4>1, <1>4 DEF Links, n
      <4>3. k - 1 + 1 = k /\ ns[k + 1] = cs[k] /\ mv[k + 1] = lv[k]
        BY <1>1, <1>2
      <4> QED BY <4>1, <4>2, <4>3
    <3> QED BY <3>1, <3>2
  <2>2. Outermost(ns[n + 1], mv[n + 1])
    <3>1. CASE n = 0
      BY <3>1, <1>2 DEF Fits, n
    <3>2. CASE n # 0
      BY <3>2, <1>1, <1>2, <1>4 DEF Links, n
    <3> QED BY <3>1, <3>2
  <2> QED BY <2>1, <2>2, <1>1 DEF Links
<1>7. n > 0 => x.n >= lv[1].n /\ (Recurses(a) => x.n > lv[1].n)
  <2>1. SUFFICES ASSUME n > 0 PROVE x.n >= lv[1].n /\ (Recurses(a) => x.n > lv[1].n)
    OBVIOUS
  <2>2. x.n \in Nat /\ lv[1] \in Levels /\ lv[1].n \in Nat
    BY <2>1, <1>1, <1>5
  <2>3. Linked(a, x, cs[1], lv[1])
    BY <2>1 DEF Fits, n
  <2>4. a.kind \in {"call", "handler", "resume", "pcall", "hook"}
    BY DEF Activations, Calls, PCalls
  <2> QED BY <2>2, <2>3, <2>4 DEF Linked, Recurses
<1>8. Counts(ns, mv)
  <2>1. ASSUME NEW k \in 1 .. n + 1 PROVE mv[k].n < MaxCCalls + ExtraCCalls
    <3>1. CASE k = 1
      BY <3>1, <1>2 DEF Fits
    <3>2. CASE k # 1
      <4>1. k - 1 \in 1 .. n /\ mv[k] = lv[k - 1]
        BY <3>2, <1>1, <1>3
      <4> QED BY <4>1, <1>4 DEF Counts, n
    <3> QED BY <3>1, <3>2
  <2>2. ASSUME NEW k \in 1 .. n + 1, NEW q \in 1 .. n + 1, k < q
        PROVE  mv[k].n >= mv[q].n /\ (Recurses(ns[k]) => mv[k].n > mv[q].n)
    <3>1. q - 1 \in 1 .. n /\ mv[q] = lv[q - 1]
      BY <2>2, <1>1, <1>3
    <3>2. CASE k = 1
      <4>1. CASE q = 2
        BY <4>1, <3>1, <3>2, <1>1, <1>2, <1>7
      <4>2. CASE q # 2
        <5>1. 1 \in 1 .. n /\ 1 < q - 1
          BY <4>2, <3>1, <1>1
        <5>2. lv[1].n >= lv[q - 1].n
          BY <5>1, <3>1, <1>4 DEF Counts, n
        <5>3. lv[1].n \in Nat /\ lv[q - 1].n \in Nat /\ x.n \in Nat
          BY <5>1, <3>1, <1>5
        <5>4. x.n >= lv[1].n /\ (Recurses(a) => x.n > lv[1].n)
          BY <5>1, <1>1, <1>7
        <5> QED BY SMTT(60), <5>2, <5>3, <5>4, <3>1, <3>2, <1>2
      <4> QED BY <4>1, <4>2
    <3>3. CASE k # 1
      <4>1. k - 1 \in 1 .. n /\ ns[k] = cs[k - 1] /\ mv[k] = lv[k - 1] /\ k - 1 < q - 1
        BY <3>3, <1>3, <1>1, <2>2
      <4> QED BY <4>1, <3>1, <1>4 DEF Counts, n
    <3> QED BY <3>2, <3>3
  <2> QED BY <2>1, <2>2, <1>1 DEF Counts
<1>9. Blocks(ns)
  <2>1. ASSUME NEW k \in 1 .. n + 1, NEW q \in 1 .. n + 1, k < q, ns[k].t = ns[q].t
        PROVE  /\ ns[k].kind # "resume" /\ ns[k].depth >= ns[q].depth
               /\ \A r \in k .. q : ns[r].t = ns[k].t
    <3>1. q - 1 \in 1 .. n /\ ns[q] = cs[q - 1]
      BY <2>1, <1>1, <1>3
    <3>2. CASE k = 1
      <4>1. a.kind # "resume" /\ ns[1] = a
        BY <3>1, <3>2, <1>2, <2>1 DEF Fits, n
      <4>2. Linked(a, x, cs[1], lv[1]) /\ 1 \in 1 .. n
        BY <3>1, <1>1 DEF Fits, n
      <4>3. cs[1].t = a.t /\ a.depth >= cs[1].depth
        <5>1. a.kind \in {"call", "handler", "pcall", "hook"}
          BY <4>1 DEF Activations, Calls, PCalls
        <5>2. a.depth \in Nat /\ cs[1].depth \in Nat
          BY <4>2, <1>5
        <5> QED BY <5>1, <5>2, <4>1, <4>2 DEF Linked, Saves
      <4>4. CASE q = 2
        <5>1. k .. q = {1, 2}
          BY <3>2, <4>4
        <5> QED BY <5>1, <4>1, <4>3, <4>4, <3>1, <3>2, <2>1
      <4>5. CASE q # 2
        <5>1. 1 < q - 1 /\ cs[1].t = cs[q - 1].t
          BY <4>1, <4>3, <4>5, <3>1, <3>2, <2>1
        <5>2. cs[1].depth >= cs[q - 1].depth /\ \A r \in 1 .. q - 1 : cs[r].t = cs[1].t
          BY <5>1, <3>1, <4>2, <1>4 DEF Blocks, n
        <5>3. a.depth \in Nat /\ cs[1].depth \in Nat /\ cs[q - 1].depth \in Nat
          BY <3>1, <4>2, <1>5
        <5>4. ns[k].depth >= ns[q].depth
          BY SMTT(60), <5>2, <5>3, <4>1, <4>3, <3>1, <3>2
        <5>5. ASSUME NEW r \in k .. q PROVE ns[r].t = ns[k].t
          <6>1. CASE r = 1
            BY <6>1, <3>2
          <6>2. CASE r # 1
            <7>1. r - 1 \in 1 .. q - 1 /\ r \in 2 .. n + 1
              BY <6>2, <3>2, <1>1
            <7>2. ns[r] = cs[r - 1]
              BY <7>1, <1>3
            <7> QED BY <7>1, <7>2, <5>2, <4>1, <4>3, <3>2
          <6> QED BY <6>1, <6>2
        <5> QED BY <5>4, <5>5, <4>1, <3>2
      <4> QED BY <4>4, <4>5
    <3>3. CASE k # 1
      <4>1. k - 1 \in 1 .. n /\ ns[k] = cs[k - 1] /\ k - 1 < q - 1
        BY <3>3, <1>3, <1>1, <2>1
      <4>2. /\ cs[k - 1].kind # "resume" /\ cs[k - 1].depth >= cs[q - 1].depth
            /\ \A r \in k - 1 .. q - 1 : cs[r].t = cs[k - 1].t
        BY <4>1, <3>1, <2>1, <1>4 DEF Blocks, n
      <4>3. ASSUME NEW r \in k .. q PROVE ns[r].t = ns[k].t
        <5>1. r \in 2 .. n + 1 /\ r - 1 \in k - 1 .. q - 1
          BY <3>3, <1>1
        <5> QED BY <5>1, <4>1, <4>2, <1>3
      <4> QED BY <4>1, <4>2, <4>3, <3>1
    <3> QED BY <3>2, <3>3
  <2>2. ASSUME NEW k \in 1 .. n + 1, ns[k].t # Main
        PROVE  /\ \E q \in k .. n + 1 : ns[q].kind = "resume" /\ ns[q].t = ns[k].t
               /\ ns[k].kind # "resume" => ns[k].depth > 0
    <3>1. ASSUME NEW r \in 1 .. n, cs[r].t # Main
          PROVE  \E q \in r + 1 .. n + 1 : ns[q].kind = "resume" /\ ns[q].t = cs[r].t
      <4>1. PICK q \in r .. n : cs[q].kind = "resume" /\ cs[q].t = cs[r].t
        BY <3>1, <1>4 DEF Blocks, n
      <4>2. q + 1 \in r + 1 .. n + 1 /\ ns[q + 1] = cs[q]
        BY <1>1, <1>2
      <4> QED BY <4>1, <4>2
    <3>2. CASE k # 1
      <4>1. k - 1 \in 1 .. n /\ ns[k] = cs[k - 1] /\ k - 1 + 1 = k
        <5>1. n \in Nat
          BY <1>1
        <5>2. k - 1 \in 1 .. n /\ k - 1 + 1 = k /\ k \in 2 .. n + 1
          BY ONLY <5>1, <3>2, k \in 1 .. n + 1
        <5>3. ns[k] = cs[k - 1]
          BY <5>2, <1>3
        <5> QED BY <5>2, <5>3
      <4>2. \E q \in k .. n + 1 : ns[q].kind = "resume" /\ ns[q].t = ns[k].t
        BY <4>1, <3>1, <2>2
      <4> QED BY <4>1, <4>2, <2>2, <1>4 DEF Blocks, n
    <3>3. CASE k = 1 /\ a.kind = "resume"
      BY <3>3, <1>1, <1>2
    <3>4. CASE k = 1 /\ a.kind # "resume"
      <4>1. a.t # Main /\ ns[k] = a
        BY <3>4, <1>2, <2>2
      <4>2. n > 0
        BY <4>1, <1>1 DEF Fits, Outermost, n
      <4>3. cs[1].t = a.t /\ a.depth > 0 /\ 1 \in 1 .. n
        BY <4>1, <4>2, <3>4, <1>1 DEF Fits, Linked, n
      <4>4. PICK q \in 1 + 1 .. n + 1 : ns[q].kind = "resume" /\ ns[q].t = cs[1].t
        BY <4>1, <4>3, <3>1
      <4>5. q \in k .. n + 1
        BY <3>4, <1>1
      <4> QED BY <4>1, <4>3, <4>4, <4>5
    <3> QED BY <3>2, <3>3, <3>4
  <2> QED BY <2>1, <2>2, <1>1 DEF Blocks
<1> QED BY <1>1, <1>6, <1>8, <1>9 DEF Chain

LEMMA ChainDrop ==
  ASSUME NEW cs \in Seq(Activations), NEW lv \in Seq(Levels), Chain(cs, lv),
         NEW d \in 0 .. Len(cs), NEW ns \in Seq(Activations), NEW mv \in Seq(Levels),
         Dropped(ns, cs, d), Dropped(mv, lv, d)
  PROVE  Chain(ns, mv)
<1> DEFINE n == Len(cs)
           m == Len(ns)
<1>1. /\ n \in Nat /\ d \in Nat /\ m = n - d /\ m \in Nat /\ Len(lv) = n /\ Len(mv) = m
      /\ \A k \in 1 .. m : k + d \in 1 .. n /\ ns[k] = cs[k + d] /\ mv[k] = lv[k + d]
  BY DEF Dropped, Chain
<1>2. Links(cs, lv) /\ Counts(cs, lv) /\ Blocks(cs)
  BY DEF Chain
<1> HIDE DEF n, m
<1>3. Links(ns, mv)
  <2>1. ASSUME NEW k \in 1 .. m - 1 PROVE Linked(ns[k], mv[k], ns[k + 1], mv[k + 1])
    <3>1. /\ k \in 1 .. m /\ k + 1 \in 1 .. m /\ k + d \in 1 .. n - 1
          /\ k + 1 + d = k + d + 1
      BY <1>1
    <3>2. ns[k] = cs[k + d] /\ mv[k] = lv[k + d]
      BY <3>1, <1>1
    <3>3. ns[k + 1] = cs[k + d + 1] /\ mv[k + 1] = lv[k + d + 1]
      BY <3>1, <1>1
    <3> QED BY <3>1, <3>2, <3>3, <1>2 DEF Links, n
  <2>2. m > 0 => Outermost(ns[m], mv[m])
    <3>1. m > 0 => m + d = n /\ n > 0 /\ ns[m] = cs[n] /\ mv[m] = lv[n]
      BY <1>1
    <3> QED BY <3>1, <1>2 DEF Links, n
  <2> QED BY <2>1, <2>2 DEF Links, m
<1>4. Counts(ns, mv)
  <2>1. ASSUME NEW k \in 1 .. m PROVE mv[k].n < MaxCCalls + ExtraCCalls
    BY <1>1, <1>2 DEF Counts, n
  <2>2. ASSUME NEW k \in 1 .. m, NEW q \in 1 .. m, k < q
        PROVE  mv[k].n >= mv[q].n /\ (Recurses(ns[k]) => mv[k].n > mv[q].n)
    <3>1. ns[k] = cs[k + d] /\ mv[k] = lv[k + d] /\ mv[q] = lv[q + d]
      BY <1>1
    <3>2. k + d \in 1 .. n /\ q + d \in 1 .. n /\ k + d < q + d
      BY <1>1, <2>2
    <3> QED BY <3>1, <3>2, <1>2 DEF Counts, n
  <2> QED BY <2>1, <2>2 DEF Counts, m
<1>5. Blocks(ns)
  <2>1. ASSUME NEW k \in 1 .. m, NEW q \in 1 .. m, k < q, ns[k].t = ns[q].t
        PROVE  /\ ns[k].kind # "resume" /\ ns[k].depth >= ns[q].depth
               /\ \A r \in k .. q : ns[r].t = ns[k].t
    <3>1. ns[k] = cs[k + d] /\ ns[q] = cs[q + d]
      BY <1>1
    <3>2. k + d \in 1 .. n /\ q + d \in 1 .. n /\ k + d < q + d
      BY <1>1, <2>1
    <3>3. /\ cs[k + d].kind # "resume" /\ cs[k + d].depth >= cs[q + d].depth
          /\ \A r \in k + d .. q + d : cs[r].t = cs[k + d].t
      BY <3>2, <3>1, <2>1, <1>2 DEF Blocks, n
    <3>4. ASSUME NEW r \in k .. q PROVE ns[r].t = ns[k].t
      <4>1. r \in 1 .. m /\ r + d \in k + d .. q + d
        BY SMTT(60), <1>1
      <4> QED BY <4>1, <3>1, <3>3, <1>1
    <3> QED BY <3>1, <3>3, <3>4
  <2>2. ASSUME NEW k \in 1 .. m, ns[k].t # Main
        PROVE  /\ \E q \in k .. m : ns[q].kind = "resume" /\ ns[q].t = ns[k].t
               /\ ns[k].kind # "resume" => ns[k].depth > 0
    <3>1. k + d \in 1 .. n /\ ns[k] = cs[k + d]
      BY <1>1
    <3>2. PICK q \in k + d .. n : cs[q].kind = "resume" /\ cs[q].t = cs[k + d].t
      BY <3>1, <2>2, <1>2 DEF Blocks, n
    <3>3. q - d \in k .. m /\ q - d + d = q /\ q - d \in 1 .. m
      BY <1>1
    <3>4. ns[q - d] = cs[q]
      BY <3>3, <1>1
    <3> QED BY <3>1, <3>2, <3>3, <3>4, <2>2, <1>2 DEF Blocks, n
  <2> QED BY <2>1, <2>2 DEF Blocks, m
<1> QED BY <1>1, <1>3, <1>4, <1>5 DEF Chain, m

\* What happens to the thread that runs, and to threads that are not on the stack, leaves
\* alone those that wait.
Elsewhere(cs, nc, ah, fr, nc2, ah2, fr2) ==
  \A k \in 1 .. Len(cs) : cs[k].t # cs[1].t =>
    nc2[cs[k].t] = nc[cs[k].t] /\ ah2[cs[k].t] = ah[cs[k].t] /\ fr2[cs[k].t] = fr[cs[k].t]

\* A thread that waits is not the one that runs.
LEMMA WaitsElsewhere ==
  ASSUME NEW cs \in Seq(Activations), Blocks(cs),
         NEW k \in 1 .. Len(cs) - 1, cs[k].kind = "resume"
  PROVE  cs[k + 1].t # cs[1].t
<1>1. SUFFICES ASSUME cs[k + 1].t = cs[1].t PROVE FALSE
  OBVIOUS
<1>2. k \in Nat /\ Len(cs) \in Nat /\ k >= 1 /\ k + 1 <= Len(cs)
  OBVIOUS
<1>3. 1 \in 1 .. Len(cs) /\ k \in 1 .. Len(cs) /\ k + 1 \in 1 .. Len(cs)
      /\ 1 < k + 1 /\ k < k + 1 /\ k \in 1 .. k + 1
  BY <1>2
<1>4. cs[k].t = cs[1].t
  BY <1>1, <1>3 DEF Blocks
<1>5. cs[k].t = cs[k + 1].t
  BY <1>1, <1>4
<1> QED BY <1>3, <1>5 DEF Blocks

LEMMA StandsElsewhere ==
  ASSUME NEW cs \in Seq(Activations), NEW lv, NEW nc, NEW ah, NEW fr, NEW base,
         Stands(cs, lv, nc, ah, fr, base),
         NEW nc2, NEW ah2, NEW fr2, Elsewhere(cs, nc, ah, fr, nc2, ah2, fr2)
  PROVE  Stands(cs, lv, nc2, ah2, fr2, base)
<1>1. Blocks(cs) /\ Waiting(cs, lv, nc, ah, fr)
  BY DEF Stands, Chain
<1>2. ASSUME NEW k \in 1 .. Len(cs) - 1, cs[k].kind = "resume"
      PROVE  Waits(cs[k + 1], lv[k + 1], nc2, ah2, fr2)
  <2>1. cs[k + 1].t # cs[1].t
    BY <1>1, <1>2, WaitsElsewhere
  <2>2. k + 1 \in 1 .. Len(cs)
    OBVIOUS
  <2>3. Waits(cs[k + 1], lv[k + 1], nc, ah, fr)
    BY <1>1, <1>2 DEF Waiting
  <2> QED BY <2>1, <2>2, <2>3 DEF Elsewhere, Waits
<1> QED BY <1>2 DEF Stands, Waiting

LEMMA StandsPush ==
  ASSUME NEW cs \in Seq(Activations), NEW lv \in Seq(Levels),
         NEW nc, NEW ah, NEW fr, NEW base, Stands(cs, lv, nc, ah, fr, base),
         NEW a \in Activations, NEW x \in Levels, Fits(a, x, cs, lv),
         a.kind = "resume" => Waits(cs[1], lv[1], nc, ah, fr) /\ x.n = base[a.t],
         NEW ns \in Seq(Activations), NEW mv \in Seq(Levels),
         Pushed(ns, a, cs), Pushed(mv, x, lv)
  PROVE  Stands(ns, mv, nc, ah, fr, base)
<1>1. Chain(cs, lv) /\ Waiting(cs, lv, nc, ah, fr) /\ Bases(cs, lv, base)
  BY DEF Stands
<1>2. Chain(ns, mv)
  BY <1>1, ChainPush
<1>3. /\ Len(cs) \in Nat /\ Len(lv) = Len(cs) /\ Len(ns) = Len(cs) + 1
      /\ ns[1] = a /\ mv[1] = x
      /\ \A k \in 2 .. Len(cs) + 1 :
           k - 1 \in 1 .. Len(cs) /\ ns[k] = cs[k - 1] /\ mv[k] = lv[k - 1]
  <2>1. Len(cs) \in Nat /\ Len(lv) = Len(cs) /\ Len(ns) = Len(cs) + 1 /\ ns[1] = a /\ mv[1] = x
    BY <1>1 DEF Chain, Pushed
  <2>2. ASSUME NEW k \in 2 .. Len(cs) + 1
        PROVE  k - 1 \in 1 .. Len(cs) /\ ns[k] = cs[k - 1] /\ mv[k] = lv[k - 1]
    <3>1. k - 1 \in 1 .. Len(cs) /\ k - 1 + 1 = k
      BY <2>1
    <3> QED BY <2>1, <3>1 DEF Pushed
  <2> QED BY <2>1, <2>2
<1>4. ASSUME NEW k \in 1 .. Len(ns) - 1, ns[k].kind = "resume"
      PROVE  Waits(ns[k + 1], mv[k + 1], nc, ah, fr)
  <2>1. k + 1 \in 2 .. Len(cs) + 1 /\ k + 1 - 1 = k
    BY <1>3
  <2>2. ns[k + 1] = cs[k] /\ mv[k + 1] = lv[k]
    BY <2>1, <1>3
  <2>3. CASE k = 1
    BY <2>2, <2>3, <1>3, <1>4
  <2>4. CASE k # 1
    <3>1. k \in 2 .. Len(cs) + 1 /\ k - 1 \in 1 .. Len(cs) - 1 /\ k - 1 + 1 = k
      BY <2>4, <1>3
    <3>2. cs[k - 1].kind = "resume"
      BY <3>1, <1>3, <1>4
    <3> QED BY <3>1, <3>2, <2>2, <1>1 DEF Waiting
  <2> QED BY <2>3, <2>4
<1>5. ASSUME NEW k \in 1 .. Len(ns), ns[k].kind = "resume"
      PROVE  mv[k].n = base[ns[k].t]
  <2>1. CASE k = 1
    BY <2>1, <1>3, <1>5
  <2>2. CASE k # 1
    <3>1. k \in 2 .. Len(cs) + 1
      BY <2>2, <1>3
    <3>2. k - 1 \in 1 .. Len(cs) /\ ns[k] = cs[k - 1] /\ mv[k] = lv[k - 1]
      BY <3>1, <1>3
    <3> QED BY <3>2, <1>1, <1>5 DEF Bases
  <2> QED BY <2>1, <2>2
<1> QED BY <1>1, <1>2, <1>4, <1>5 DEF Stands, Waiting, Bases

LEMMA StandsDrop ==
  ASSUME NEW cs \in Seq(Activations), NEW lv \in Seq(Levels),
         NEW nc, NEW ah, NEW fr, NEW base, Stands(cs, lv, nc, ah, fr, base),
         NEW d \in 0 .. Len(cs), NEW ns \in Seq(Activations), NEW mv \in Seq(Levels),
         Dropped(ns, cs, d), Dropped(mv, lv, d)
  PROVE  Stands(ns, mv, nc, ah, fr, base)
<1>1. Chain(cs, lv) /\ Waiting(cs, lv, nc, ah, fr) /\ Bases(cs, lv, base)
  BY DEF Stands
<1>2. Chain(ns, mv)
  BY <1>1, ChainDrop
<1>3. /\ Len(cs) \in Nat /\ d \in Nat /\ Len(ns) = Len(cs) - d
      /\ \A k \in 1 .. Len(ns) : k + d \in 1 .. Len(cs) /\ ns[k] = cs[k + d] /\ mv[k] = lv[k + d]
  BY <1>1 DEF Chain, Dropped
<1>4. ASSUME NEW k \in 1 .. Len(ns) - 1, ns[k].kind = "resume"
      PROVE  Waits(ns[k + 1], mv[k + 1], nc, ah, fr)
  <2>1. k \in 1 .. Len(ns) /\ k + 1 \in 1 .. Len(ns) /\ k + d \in 1 .. Len(cs) - 1
        /\ k + d + 1 = k + 1 + d
    BY <1>3
  <2>2. ns[k] = cs[k + d] /\ ns[k + 1] = cs[k + 1 + d] /\ mv[k + 1] = lv[k + 1 + d]
    BY <2>1, <1>3
  <2> QED BY <2>1, <2>2, <1>1, <1>4 DEF Waiting
<1>5. ASSUME NEW k \in 1 .. Len(ns), ns[k].kind = "resume"
      PROVE  mv[k].n = base[ns[k].t]
  BY <1>1, <1>3, <1>5 DEF Bases
<1> QED BY <1>1, <1>2, <1>4, <1>5 DEF Stands, Waiting, Bases

-----------------------------------------------------------------------------
(* The parts of a step.                                                     *)

LEMMA CallTyped ==
  ASSUME CallTypeOK
  PROVE  /\ Len(cstack) \in Nat /\ (cstack = <<>> <=> Len(cstack) = 0)
         /\ \A k \in 1 .. Len(cstack) : cstack[k] \in Activations
         /\ Len(cstack) = 0 => L = Main
         /\ Len(cstack) > 0 => L = cstack[1].t /\ Head(cstack) = cstack[1]
         /\ L \in Threads /\ frames[L] \in Seq(Kinds) /\ Depth \in Nat
         /\ nCcalls[L] \in Nat /\ allowhook[L] \in BOOLEAN
         /\ errfunc[L] \in {"none", "function"} /\ sizeCI[L] \in Nat /\ sizeCI[L] >= 2
<1>1. /\ Len(cstack) \in Nat /\ (cstack = <<>> <=> Len(cstack) = 0)
      /\ \A k \in 1 .. Len(cstack) : cstack[k] \in Activations
      /\ Len(cstack) > 0 => Head(cstack) = cstack[1] /\ cstack[1] \in Activations
  BY DEF CallTypeOK
<1>2. /\ Len(cstack) = 0 => L = Main
      /\ Len(cstack) > 0 => L = cstack[1].t
  BY <1>1 DEF L
<1>3. L \in Threads
  BY <1>1, <1>2 DEF Activations, Calls, PCalls, Threads
<1>4. /\ frames[L] \in Seq(Kinds) /\ Depth \in Nat
      /\ nCcalls[L] \in Nat /\ allowhook[L] \in BOOLEAN
      /\ errfunc[L] \in {"none", "function"} /\ sizeCI[L] \in Nat /\ sizeCI[L] >= 2
  BY <1>3 DEF CallTypeOK, Depth
<1> QED BY <1>1, <1>2, <1>3, <1>4

\* Kinds of activations.
LEMMA KindsOf ==
  ASSUME NEW a \in Activations
  PROVE  /\ a.t \in Threads /\ a.depth \in Nat
         /\ a.kind \in {"call", "handler", "hook", "resume", "pcall"}
         /\ a.kind = "pcall" => a \in PCalls /\ a.nCcalls \in Nat /\ a.allowhook \in BOOLEAN
                                 /\ a.errfunc \in {"none", "function"}
         /\ a.kind # "pcall" => a \in Calls
         /\ ~Saves(a) <=> Recurses(a)
BY DEF Activations, Calls, PCalls, Saves, Recurses

\* Where a function runs there is one that it is called from, which the C stack counts.
LEMMA RunsAbove ==
  ASSUME CallTypeOK, NEW lv \in Seq(Levels),
         Stands(cstack, lv, nCcalls, allowhook, frames, baseCcalls),
         Running(cstack, lv, nCcalls, allowhook, frames, pc), pc \in {"run", "precall"}, Len(cstack) > 0
  PROVE  /\ Len(cstack) > 1 /\ Len(lv) = Len(cstack) /\ lv[1].n \in Nat /\ lv[2].n \in Nat
         /\ nCcalls[L] = lv[1].n /\ lv[1].n > lv[2].n
         /\ Recurses(cstack[1]) /\ Linked(cstack[1], lv[1], cstack[2], lv[2])
         /\ allowhook[L] = lv[1].hook /\ Depth >= cstack[1].depth /\ cstack[2] \in Activations
<1>1. Chain(cstack, lv)
  BY DEF Stands
<1>2. /\ nCcalls[L] = lv[1].n /\ ~Saves(cstack[1]) /\ allowhook[L] = lv[1].hook
      /\ Depth >= cstack[1].depth /\ Len(cstack) \in Nat /\ cstack[1] \in Activations
  BY CallTyped DEF Running, Depth
<1>3. Recurses(cstack[1])
  BY <1>2, KindsOf
<1>4. Len(cstack) > 1
  BY <1>1, <1>2 DEF Chain, Links, Outermost, Saves
<1>5. Len(lv) = Len(cstack) /\ 1 \in 1 .. Len(cstack) - 1 /\ 2 \in 1 .. Len(cstack)
      /\ 1 \in 1 .. Len(cstack)
  BY <1>1, <1>2, <1>4 DEF Chain
<1>6. lv[1] \in Levels /\ lv[2] \in Levels /\ cstack[2] \in Activations
  BY <1>5, CallTyped
<1>7. Linked(cstack[1], lv[1], cstack[1 + 1], lv[1 + 1])
  BY <1>1, <1>5 DEF Chain, Links
<1>8. lv[1].n > lv[2].n
  BY <1>1, <1>3, <1>5 DEF Chain, Counts
<1> QED BY <1>2, <1>3, <1>4, <1>5, <1>6, <1>7, <1>8 DEF Levels

LEMMA ResumedPush ==
  ASSUME NEW S, NEW cs \in Seq(S), NEW ns, NEW a, Pushed(ns, a, cs), NEW co
  PROVE  Resumed(ns, co) <=> Resumed(cs, co) \/ (a.kind = "resume" /\ a.t = co)
<1>1. Len(cs) \in Nat /\ Len(ns) = Len(cs) + 1 /\ ns[1] = a
      /\ \A k \in 1 .. Len(cs) : ns[k + 1] = cs[k]
  BY DEF Pushed
<1>2. ASSUME Resumed(cs, co) PROVE Resumed(ns, co)
  <2>1. PICK k \in 1 .. Len(cs) : cs[k].kind = "resume" /\ cs[k].t = co
    BY <1>2 DEF Resumed
  <2>2. k + 1 \in 1 .. Len(ns) /\ ns[k + 1] = cs[k]
    BY <1>1
  <2> QED BY <2>1, <2>2 DEF Resumed
<1>3. ASSUME a.kind = "resume", a.t = co PROVE Resumed(ns, co)
  <2>1. 1 \in 1 .. Len(ns)
    BY <1>1
  <2> QED BY <2>1, <1>1, <1>3 DEF Resumed
<1>4. ASSUME Resumed(ns, co), ~(a.kind = "resume" /\ a.t = co) PROVE Resumed(cs, co)
  <2>1. PICK k \in 1 .. Len(ns) : ns[k].kind = "resume" /\ ns[k].t = co
    BY <1>4 DEF Resumed
  <2>2. k # 1
    BY <2>1, <1>1, <1>4
  <2>3. k - 1 \in 1 .. Len(cs) /\ k - 1 + 1 = k
    BY <2>2, <1>1
  <2>4. ns[k] = cs[k - 1]
    BY <2>3, <1>1
  <2> QED BY <2>1, <2>3, <2>4 DEF Resumed
<1> QED BY <1>2, <1>3, <1>4

\* A coroutine is on the stack once.
LEMMA ResumedDrop ==
  ASSUME NEW S, NEW cs \in Seq(S), Blocks(cs), NEW d \in 1 .. Len(cs), NEW ns, Dropped(ns, cs, d),
         \A k \in 1 .. d - 1 : cs[k].kind # "resume", NEW co
  PROVE  Resumed(ns, co) <=> Resumed(cs, co) /\ ~(cs[d].kind = "resume" /\ cs[d].t = co)
<1>1. Len(cs) \in Nat /\ d \in Nat /\ Len(ns) = Len(cs) - d
      /\ \A k \in 1 .. Len(ns) : ns[k] = cs[k + d]
  BY DEF Dropped
<1>2. ASSUME Resumed(ns, co)
      PROVE  Resumed(cs, co) /\ ~(cs[d].kind = "resume" /\ cs[d].t = co)
  <2>1. PICK k \in 1 .. Len(ns) : ns[k].kind = "resume" /\ ns[k].t = co
    BY <1>2 DEF Resumed
  <2>2. k + d \in 1 .. Len(cs) /\ d < k + d /\ ns[k] = cs[k + d]
    BY <1>1
  <2>3. cs[d].t = co => cs[d].kind # "resume"
    BY <2>1, <2>2 DEF Blocks
  <2> QED BY <2>1, <2>2, <2>3 DEF Resumed
<1>3. ASSUME Resumed(cs, co), ~(cs[d].kind = "resume" /\ cs[d].t = co) PROVE Resumed(ns, co)
  <2>1. PICK k \in 1 .. Len(cs) : cs[k].kind = "resume" /\ cs[k].t = co
    BY <1>3 DEF Resumed
  <2>2. k # d /\ k \notin 1 .. d - 1
    BY <2>1, <1>3
  <2>3. k - d \in 1 .. Len(ns) /\ k - d + d = k
    BY <2>2, <1>1
  <2>4. ns[k - d] = cs[k]
    BY <2>3, <1>1
  <2> QED BY <2>1, <2>3, <2>4 DEF Resumed
<1> QED BY <1>2, <1>3

\* A coroutine that was resumed has call infos, except before its function is called.
Fed(fr) == \A co \in Coroutines : Resumed(cstack, co) => fr[co] # <<>>
LEMMA HasFrames ==
  ASSUME StatusInv, pc # "precall" \/ Depth > 0, CallTypeOK
  PROVE  Fed(frames)
<1>1. SUFFICES ASSUME NEW co \in Coroutines, Resumed(cstack, co), frames[co] = <<>> PROVE FALSE
  BY DEF Fed
<1>2. L = co /\ pc = "precall"
  BY <1>1 DEF StatusInv
<1>3. Depth = 0
  BY <1>1, <1>2 DEF Depth
<1> QED BY <1>2, <1>3

LEMMA StatusKept ==
  ASSUME StatusInv, NEW ns, ns = cstack',
         \A co \in Coroutines : Resumed(ns, co) <=> Resumed(cstack, co),
         thStatus' = thStatus, fresh' = fresh, Fed(frames'),
         \A co \in Coroutines :
           frames'[co] = frames[co]
             \/ (Resumed(cstack, co) /\ frames'[co][Len(frames'[co])] = "lua")
  PROVE  StatusInv'
<1>1. ASSUME NEW co \in Coroutines
      PROVE  /\ Resumed(ns, co) => thStatus'[co] = "ok" /\ co \notin fresh'
             /\ thStatus'[co] = "ok" /\ ~Resumed(ns, co) => frames'[co] = <<>>
             /\ thStatus'[co] = "yield" => Len(frames'[co]) >= 2
             /\ frames'[co] # <<>> => frames'[co][Len(frames'[co])] = "lua"
             /\ ~(frames'[co] = <<>> /\ Resumed(ns, co))
             /\ co \in fresh' => thStatus'[co] = "ok"
  BY DEF StatusInv, Fed
<1> QED BY <1>1 DEF StatusInv

\* A coroutine that ends, fails or yields leaves the stack.
LEMMA StatusLeft ==
  ASSUME StatusInv, CallTypeOK, NEW ns, ns = cstack', NEW th \in Coroutines, th = L, pc # "precall",
         \A co \in Coroutines : Resumed(ns, co) <=> Resumed(cstack, co) /\ co # th,
         \A co \in Coroutines : co # th => thStatus'[co] = thStatus[co] /\ frames'[co] = frames[co],
         fresh' = fresh, Resumed(cstack, th),
         \/ thStatus'[th] = "ok" /\ frames'[th] = <<>>
         \/ thStatus'[th] = "error" /\ frames'[th] = frames[th]
         \/ thStatus'[th] = "yield" /\ frames'[th] = frames[th] /\ Len(frames[th]) >= 2
  PROVE  StatusInv'
<1>1. ASSUME NEW co \in Coroutines
      PROVE  /\ Resumed(ns, co) => thStatus'[co] = "ok" /\ co \notin fresh'
             /\ thStatus'[co] = "ok" /\ ~Resumed(ns, co) => frames'[co] = <<>>
             /\ thStatus'[co] = "yield" => Len(frames'[co]) >= 2
             /\ frames'[co] # <<>> => frames'[co][Len(frames'[co])] = "lua"
             /\ ~(frames'[co] = <<>> /\ Resumed(ns, co))
             /\ co \in fresh' => thStatus'[co] = "ok"
  <2>1. CASE co = th
    BY <2>1 DEF StatusInv
  <2>2. CASE co # th
    BY <2>2, HasFrames DEF StatusInv, Fed
  <2> QED BY <2>1, <2>2
<1> QED BY <1>1 DEF StatusInv

LEMMA StackNext ==
  ASSUME NEW ns, ns = cstack', NEW mv \in Seq(Levels),
         NEW nc, nc = nCcalls', NEW ah, ah = allowhook', NEW fr, fr = frames',
         NEW base, base = baseCcalls', NEW at, at = pc',
         Stands(ns, mv, nc, ah, fr, base), Running(ns, mv, nc, ah, fr, at)
  PROVE  StackInv'
<1>1. /\ Stands(cstack', mv, nCcalls', allowhook', frames', baseCcalls')
      /\ Running(cstack', mv, nCcalls', allowhook', frames', pc')
  OBVIOUS
<1> QED BY <1>1 DEF StackInv

LEMMA OnTop ==
  ASSUME NEW S, NEW a \in S, NEW under \in Seq(S), NEW cs \in Seq(S)
  PROVE  <<a>> \o under \o cs = <<a>> \o (under \o cs)
OBVIOUS

\* A call on top of us, the stack with what luaD_pcall or luaD_callhook has put there.
LEMMA CallKeeps ==
  ASSUME CallTypeOK, NEW kind \in {"call", "handler"}, NEW under \in Seq(Activations),
         NEW f \in Kinds, Call(kind, under, f), frames' = frames, baseCcalls' = baseCcalls,
         NEW us \in Seq(Activations), us = under \o cstack, Len(us) > 0, us[1].t = L,
         NEW mv \in Seq(Levels), Stands(us, mv, nCcalls, allowhook', frames, baseCcalls),
         nCcalls[L] >= mv[1].n, kind = "call" => nCcalls[L] = mv[1].n,
         allowhook'[L] = mv[1].hook, Depth >= us[1].depth, L # Main => Depth > 0,
         kind = "call" /\ Saves(us[1]) => Depth = us[1].depth,
         kind = "call" /\ ~Saves(us[1]) => Depth > us[1].depth
  PROVE  /\ StackInv' /\ cstack' \in Seq(Activations) /\ nCcalls' \in [Threads -> Nat]
         /\ \A co \in Coroutines : Resumed(cstack', co) <=> Resumed(us, co)
         /\ pc' \in {"run", "precall", "error", "throw"} /\ (pc' = "precall" => arg' \in Kinds)
<1>1. L \in Threads /\ Depth \in Nat /\ nCcalls[L] \in Nat /\ allowhook[L] \in BOOLEAN
      /\ Len(us) \in Nat /\ us[1] \in Activations
  BY CallTyped
<1>2. Chain(us, mv) /\ Len(mv) = Len(us) /\ mv[1] \in Levels /\ 1 \in 1 .. Len(us)
  BY <1>1 DEF Stands, Chain
<1>3. mv[1].n \in Nat /\ mv[1].hook \in BOOLEAN
  BY <1>2 DEF Levels
<1>4. PICK nc : nc = nCcalls'
  OBVIOUS
<1>5. /\ nc \in [Threads -> Nat] /\ nc[L] = nCcalls[L] + 1
      /\ \A th \in Threads : th # L => nc[th] = nCcalls[th]
  BY SMTT(60), <1>1, <1>4 DEF Call, CallTypeOK
<1>6. PICK ah : ah = allowhook'
  OBVIOUS
<1>7. Elsewhere(us, nCcalls, ah, frames, nc, ah, frames)
  <2>1. ASSUME NEW k \in 1 .. Len(us), us[k].t # us[1].t PROVE nc[us[k].t] = nCcalls[us[k].t]
    <3>1. us[k].t \in Threads
      BY KindsOf
    <3> QED BY <3>1, <2>1, <1>5
  <2> QED BY <2>1 DEF Elsewhere
<1>8. Stands(us, mv, nc, ah, frames, baseCcalls)
  <2>1. Stands(us, mv, nCcalls, ah, frames, baseCcalls)
    BY <1>6
  <2> QED BY <2>1, <1>7, StandsElsewhere
<1>9. CASE cstack' = us /\ pc' \in {"error", "throw"}
  <2>1. PICK at : at = pc'
    OBVIOUS
  <2>2. at # "run" /\ at # "precall"
    BY <2>1, <1>9
  <2>3. us[1].t = L /\ nc[L] >= mv[1].n /\ ah[L] = mv[1].hook /\ Len(frames[L]) >= us[1].depth
    <3>1. nc[L] >= mv[1].n
      BY <1>1, <1>3, <1>5
    <3>2. ah[L] = mv[1].hook
      BY <1>6
    <3>3. Len(frames[L]) >= us[1].depth
      BY DEF Depth
    <3> QED BY <3>1, <3>2, <3>3
  <2>4. Running(us, mv, nc, ah, frames, at)
    BY ONLY <2>2, <2>3, <1>1, Len(us) > 0 DEF Running
  <2>5. StackInv'
    BY <2>1, <2>4, <1>4, <1>6, <1>8, <1>9, StackNext
  <2> QED BY <2>5, <1>4, <1>5, <1>9
<1>10. CASE /\ nCcalls[L] + 1 < MaxCCalls + ExtraCCalls
            /\ cstack' = <<Activation(kind)>> \o under \o cstack /\ pc' = "precall" /\ arg' = f
  <2>1. PICK a : a = Activation(kind)
    OBVIOUS
  <2>2. a \in Activations /\ a.kind = kind /\ a.t = L /\ a.depth = Depth
    BY <2>1, <1>1 DEF Activation, Activations, Calls
  <2>3. PICK x : x = [n |-> nCcalls[L] + 1, hook |-> mv[1].hook]
    OBVIOUS
  <2>4. x \in Levels /\ x.n = nCcalls[L] + 1 /\ x.hook = mv[1].hook
    BY <2>3, <1>1, <1>3 DEF Levels
  <2>5. Linked(a, x, us[1], mv[1])
    <3>1. a.kind = "call" \/ a.kind = "handler"
      BY <2>2
    <3>2. us[1].t = a.t /\ x.hook = mv[1].hook /\ a.depth >= us[1].depth
      BY <2>2, <2>4
    <3>3. a.kind = "call" => x.n = mv[1].n + 1
      BY <2>2, <2>4
    <3>4. x.n > mv[1].n
      BY <2>4, <1>1, <1>3
    <3>5. /\ a.kind = "call" /\ Saves(us[1]) => a.depth = us[1].depth
          /\ a.kind = "call" /\ ~Saves(us[1]) => a.depth > us[1].depth
      BY <2>2
    <3>6. ~Saves(a)
      BY <3>1 DEF Saves
    <3> QED BY ONLY <3>1, <3>2, <3>3, <3>4, <3>5, <3>6 DEF Linked
  <2>6. Fits(a, x, us, mv)
    BY <2>2, <2>4, <2>5, <1>10 DEF Fits
  <2>7. PICK ns : ns = <<a>> \o us
    OBVIOUS
  <2>8. PICK nv : nv = <<x>> \o mv
    OBVIOUS
  <2>9. ns \in Seq(Activations) /\ Pushed(ns, a, us)
    BY <2>2, <2>7, Push
  <2>10. nv \in Seq(Levels) /\ Pushed(nv, x, mv)
    BY <2>4, <2>8, Push
  <2>11. ns = cstack'
    <3>1. <<a>> \o under \o cstack = <<a>> \o (under \o cstack)
      <4>1. cstack \in Seq(Activations)
        BY DEF CallTypeOK
      <4> QED BY ONLY <4>1, <2>2, under \in Seq(Activations), OnTop
    <3> QED BY <3>1, <2>1, <2>7, <1>10
  <2>12. a.kind # "resume"
    BY <2>2
  <2>13. Stands(ns, nv, nc, ah, frames, baseCcalls)
    BY <2>2, <2>4, <2>6, <2>9, <2>10, <2>12, <1>8, StandsPush
  <2>14. Running(ns, nv, nc, ah, frames, "precall")
    <3>1. ns[1] = a /\ nv[1] = x /\ Len(ns) > 0
      BY <2>9, <2>10, <1>1 DEF Pushed
    <3>2. a.t = L /\ nc[L] = x.n /\ ah[L] = x.hook /\ Len(frames[L]) >= a.depth /\ ~Saves(a)
      BY <2>2, <2>4, <1>1, <1>5, <1>6 DEF Saves, Depth
    <3>3. x.n \in Nat
      BY <2>4 DEF Levels
    <3> QED BY ONLY <3>1, <3>2, <3>3 DEF Running
  <2>15. StackInv'
    BY <2>10, <2>11, <2>13, <2>14, <1>4, <1>6, <1>10, StackNext
  <2>16. \A co \in Coroutines : Resumed(ns, co) <=> Resumed(us, co)
    BY <2>9, <2>12, ResumedPush
  <2> QED BY <2>9, <2>11, <2>15, <2>16, <1>4, <1>5, <1>10
<1> QED BY <1>9, <1>10 DEF Call

\* Where a thread runs its coroutine was resumed.
LEMMA TopResumed ==
  ASSUME CallTypeOK, NEW lv, Chain(cstack, lv), L # Main
  PROVE  Len(cstack) > 0 /\ Resumed(cstack, L) /\ L \in Coroutines
<1>1. Len(cstack) > 0 /\ L = cstack[1].t /\ L \in Threads
  BY CallTyped
<1>2. 1 \in 1 .. Len(cstack)
  BY <1>1, CallTyped
<1>3. PICK q \in 1 .. Len(cstack) : cstack[q].kind = "resume" /\ cstack[q].t = cstack[1].t
  BY <1>1, <1>2 DEF Chain, Blocks
<1>4. Resumed(cstack, L)
  BY <1>1, <1>3 DEF Resumed
<1> QED BY <1>1, <1>4 DEF Threads

LEMMA StackSame ==
  ASSUME CallTypeOK, NEW lv \in Seq(Levels),
         Stands(cstack, lv, nCcalls, allowhook, frames, baseCcalls),
         cstack' = cstack, baseCcalls' = baseCcalls,
         \A th \in Threads : th # L =>
           nCcalls'[th] = nCcalls[th] /\ allowhook'[th] = allowhook[th] /\ frames'[th] = frames[th],
         Running(cstack, lv, nCcalls', allowhook', frames', pc')
  PROVE  StackInv'
<1>1. PICK nc : nc = nCcalls'
  OBVIOUS
<1>2. PICK ah : ah = allowhook'
  OBVIOUS
<1>3. PICK fr : fr = frames'
  OBVIOUS
<1>4. PICK at : at = pc'
  OBVIOUS
<1>5. PICK ns : ns = cstack
  OBVIOUS
<1>6. PICK base : base = baseCcalls
  OBVIOUS
<1>7. ns \in Seq(Activations) /\ (Len(ns) > 0 => ns[1].t = L)
  BY <1>5, CallTyped DEF CallTypeOK
<1>8. \A k \in 1 .. Len(ns) : ns[k].t \in Threads /\ Len(ns) > 0
  BY <1>7, KindsOf
<1>9. Elsewhere(ns, nCcalls, allowhook, frames, nc, ah, fr)
  BY <1>1, <1>2, <1>3, <1>7, <1>8 DEF Elsewhere
<1>10. Stands(ns, lv, nCcalls, allowhook, frames, base)
  BY <1>5, <1>6
<1>11. Stands(ns, lv, nc, ah, fr, base)
  BY <1>7, <1>9, <1>10, StandsElsewhere
<1>12. Running(ns, lv, nc, ah, fr, at)
  BY <1>1, <1>2, <1>3, <1>4, <1>5
<1>13. ns = cstack' /\ base = baseCcalls'
  BY <1>5, <1>6
<1> QED BY <1>1, <1>2, <1>3, <1>4, <1>11, <1>12, <1>13, StackNext

\* Where a function runs.
LEMMA Runner ==
  ASSUME CallTypeOK, NEW lv \in Seq(Levels),
         Stands(cstack, lv, nCcalls, allowhook, frames, baseCcalls),
         Running(cstack, lv, nCcalls, allowhook, frames, pc), Runs("lua") \/ Runs("C")
  PROVE  pc = "run" /\ Depth > 0 /\ Len(cstack) > 1 /\ Depth > cstack[1].depth
<1>1. pc = "run" /\ Depth > 0
  BY DEF Runs
<1>2. Len(cstack) > 0
  <2>1. Len(cstack) = 0 => Depth = 0
    BY CallTyped DEF Running, Depth
  <2> QED BY <2>1, <1>1, CallTyped
<1>3. Depth > cstack[1].depth
  BY <1>1, <1>2, CallTyped DEF Running, Depth
<1> QED BY <1>1, <1>2, <1>3, RunsAbove

\* The steps that change nothing but the control: OP_CALL and an error.
LEMMA VMCallKeeps ==
  ASSUME CallInv, NEW f \in Kinds, VMCall(f)
  PROVE  CallInv'
<1>1. CallTypeOK /\ StatusInv /\ StackInv
  BY DEF CallInv
<1>2. PICK lv \in Seq(Levels) :
        /\ Stands(cstack, lv, nCcalls, allowhook, frames, baseCcalls)
        /\ Running(cstack, lv, nCcalls, allowhook, frames, pc)
  BY <1>1 DEF StackInv
<1>3. pc = "run" /\ Len(cstack) > 1
  BY <1>1, <1>2, Runner DEF VMCall
<1>4. CallTypeOK'
  BY <1>1 DEF VMCall, CallTypeOK
<1>5. Running(cstack, lv, nCcalls', allowhook', frames', pc')
  BY <1>2, <1>3 DEF VMCall, Running
<1>6. StackInv'
  BY <1>1, <1>2, <1>5, StackSame DEF VMCall
<1>7. Fed(frames')
  BY <1>1, <1>3, HasFrames DEF VMCall
<1>8. StatusInv'
  BY <1>1, <1>7, StatusKept DEF VMCall
<1> QED BY <1>4, <1>6, <1>8 DEF CallInv

LEMMA FailKeeps ==
  ASSUME CallInv, Fail
  PROVE  CallInv'
<1>1. CallTypeOK /\ StatusInv /\ StackInv
  BY DEF CallInv
<1>2. PICK lv \in Seq(Levels) :
        /\ Stands(cstack, lv, nCcalls, allowhook, frames, baseCcalls)
        /\ Running(cstack, lv, nCcalls, allowhook, frames, pc)
  BY <1>1 DEF StackInv
<1>3. pc = "run" /\ Len(cstack) > 1
  BY <1>1, <1>2, Runner DEF Fail
<1>4. CallTypeOK'
  BY <1>1 DEF Fail, CallTypeOK
<1>5. Running(cstack, lv, nCcalls', allowhook', frames', pc')
  BY <1>2, <1>3 DEF Fail, Running
<1>6. StackInv'
  BY <1>1, <1>2, <1>5, StackSame DEF Fail
<1>7. Fed(frames')
  BY <1>1, <1>3, HasFrames DEF Fail
<1>8. StatusInv'
  BY <1>1, <1>7, StatusKept DEF Fail
<1> QED BY <1>4, <1>6, <1>8 DEF CallInv

\* A call of the API or of a metamethod.
LEMMA ApiCallKeeps ==
  ASSUME CallInv, NEW f \in Kinds, ApiCall(f)
  PROVE  CallInv'
<1>1. CallTypeOK /\ StatusInv /\ StackInv
  BY DEF CallInv
<1>2. PICK lv \in Seq(Levels) :
        /\ Stands(cstack, lv, nCcalls, allowhook, frames, baseCcalls)
        /\ Running(cstack, lv, nCcalls, allowhook, frames, pc)
  BY <1>1 DEF StackInv
<1>3. pc = "run" /\ Depth > 0 /\ Len(cstack) > 1 /\ Depth > cstack[1].depth
  BY <1>1, <1>2, Runner DEF ApiCall
<1>4. /\ nCcalls[L] = lv[1].n /\ lv[1].n \in Nat /\ allowhook[L] = lv[1].hook
      /\ Recurses(cstack[1])
  BY <1>1, <1>2, <1>3, RunsAbove
<1>5. cstack[1].t = L /\ cstack[1] \in Activations /\ cstack \in Seq(Activations)
      /\ Depth \in Nat /\ cstack[1].depth \in Nat
  BY <1>1, <1>3, CallTyped, KindsOf DEF CallTypeOK
<1>6. <<>> \in Seq(Activations) /\ <<>> \o cstack = cstack
  BY <1>5
<1>7. Call("call", <<>>, f) /\ allowhook' = allowhook /\ frames' = frames /\ baseCcalls' = baseCcalls
  BY DEF ApiCall
<1>8. ~Saves(cstack[1])
  BY <1>4, <1>5, KindsOf
<1>9. Stands(cstack, lv, nCcalls, allowhook', frames, baseCcalls)
  BY <1>2, <1>7
<1>10. nCcalls[L] >= lv[1].n /\ allowhook'[L] = lv[1].hook /\ Depth >= cstack[1].depth
  BY <1>3, <1>4, <1>5, <1>7
<1>11. PICK us : us = cstack
  OBVIOUS
<1>12. us \in Seq(Activations) /\ us = <<>> \o cstack /\ Len(us) > 0 /\ us[1].t = L
  BY <1>3, <1>5, <1>6, <1>11
<1>13. /\ Stands(us, lv, nCcalls, allowhook', frames, baseCcalls)
       /\ Depth >= us[1].depth /\ ~Saves(us[1]) /\ Depth > us[1].depth
  BY <1>3, <1>8, <1>9, <1>10, <1>11
<1>14. /\ StackInv' /\ cstack' \in Seq(Activations) /\ nCcalls' \in [Threads -> Nat]
       /\ \A co \in Coroutines : Resumed(cstack', co) <=> Resumed(us, co)
       /\ pc' \in {"run", "precall", "error", "throw"} /\ (pc' = "precall" => arg' \in Kinds)
  BY <1>1, <1>3, <1>4, <1>6, <1>7, <1>10, <1>12, <1>13, CallKeeps
<1>15. CallTypeOK'
  BY <1>1, <1>14 DEF ApiCall, CallTypeOK
<1>16. Fed(frames')
  BY <1>1, <1>3, HasFrames DEF ApiCall
<1>17. StatusInv'
  BY <1>1, <1>11, <1>14, <1>16, StatusKept DEF ApiCall
<1> QED BY <1>14, <1>15, <1>17 DEF CallInv

\* luaD_pcall, on the host's stack or on a C function's.
LEMMA PCallKeeps ==
  ASSUME CallInv, NEW f \in Kinds, NEW ef \in {"none", "function"}, PCall(f, ef)
  PROVE  CallInv'
<1>1. CallTypeOK /\ StatusInv /\ StackInv
  BY DEF CallInv
<1>2. PICK lv \in Seq(Levels) :
        /\ Stands(cstack, lv, nCcalls, allowhook, frames, baseCcalls)
        /\ Running(cstack, lv, nCcalls, allowhook, frames, pc)
  BY <1>1 DEF StackInv
<1>3. pc = "run" /\ cstack \in Seq(Activations) /\ Len(cstack) \in Nat
  BY <1>1 DEF PCall, Runs, CallTypeOK
<1>4. /\ L \in Threads /\ Depth \in Nat /\ nCcalls[L] \in Nat /\ allowhook[L] \in BOOLEAN
      /\ errfunc[L] \in {"none", "function"}
  BY <1>1, CallTyped
<1>5. Len(cstack) > 0 =>
        /\ Depth > cstack[1].depth /\ nCcalls[L] = lv[1].n /\ allowhook[L] = lv[1].hook
        /\ ~Saves(cstack[1]) /\ cstack[1].t = L /\ cstack[1].depth \in Nat
  <2>1. SUFFICES ASSUME Len(cstack) > 0
                 PROVE  /\ Depth > cstack[1].depth /\ nCcalls[L] = lv[1].n /\ allowhook[L] = lv[1].hook
                        /\ ~Saves(cstack[1]) /\ cstack[1].t = L /\ cstack[1].depth \in Nat
    OBVIOUS
  <2>2. L = cstack[1].t /\ cstack[1] \in Activations
    BY <1>1, <1>3, <2>1, CallTyped
  <2>3. Depth > cstack[1].depth
    BY <1>2, <1>3, <2>1, <2>2 DEF Running, Depth
  <2>4. nCcalls[L] = lv[1].n /\ allowhook[L] = lv[1].hook /\ Recurses(cstack[1])
    BY <1>1, <1>2, <1>3, <2>1, RunsAbove
  <2> QED BY <2>2, <2>3, <2>4, KindsOf
<1>6. Len(cstack) = 0 => L = Main /\ Depth = 0 /\ nCcalls[L] = 0 /\ allowhook[L] = TRUE
  BY <1>1, <1>2, CallTyped DEF Running, Depth
<1>7. PICK u : u = [kind |-> "pcall", t |-> L, depth |-> Depth, nCcalls |-> nCcalls[L],
                    allowhook |-> allowhook[L], errfunc |-> errfunc[L]]
  OBVIOUS
<1>8. /\ u \in Activations /\ u.kind = "pcall" /\ u.t = L /\ u.depth = Depth
      /\ u.nCcalls = nCcalls[L] /\ u.allowhook = allowhook[L]
  BY <1>4, <1>7 DEF Activations, PCalls
<1>9. PICK x : x = [n |-> nCcalls[L], hook |-> allowhook[L]]
  OBVIOUS
<1>10. x \in Levels /\ x.n = nCcalls[L] /\ x.hook = allowhook[L]
  BY <1>4, <1>9 DEF Levels
<1>11. Chain(cstack, lv)
  BY <1>2 DEF Stands
<1>12. Fits(u, x, cstack, lv)
  <2>1. x.n < MaxCCalls + ExtraCCalls
    <3>1. CASE Len(cstack) = 0
      BY <3>1, <1>6, <1>10, LuaCallAssumption
    <3>2. CASE Len(cstack) > 0
      <4>1. 1 \in 1 .. Len(cstack)
        BY <3>2, <1>3
      <4> QED BY <4>1, <3>2, <1>5, <1>10, <1>11 DEF Chain, Counts
    <3> QED BY <3>1, <3>2, <1>3
  <2>2. Len(cstack) = 0 => Outermost(u, x)
    BY <1>6, <1>8, <1>10 DEF Outermost
  <2>3. Len(cstack) > 0 => Linked(u, x, cstack[1], lv[1])
    BY <1>5, <1>8, <1>10 DEF Linked
  <2>4. u.t # Main => u.depth > 0
    BY <1>3, <1>4, <1>5, <1>6, <1>8
  <2> QED BY <2>1, <2>2, <2>3, <2>4, <1>8 DEF Fits
<1>13. PICK us : us = <<u>> \o cstack
  OBVIOUS
<1>14. PICK mv : mv = <<x>> \o lv
  OBVIOUS
<1>15. us \in Seq(Activations) /\ Pushed(us, u, cstack)
  BY <1>3, <1>8, <1>13, Push
<1>16. mv \in Seq(Levels) /\ Pushed(mv, x, lv)
  BY <1>10, <1>14, Push
<1>17. us[1] = u /\ mv[1] = x /\ Len(us) > 0
  BY <1>3, <1>15, <1>16 DEF Pushed
<1>18. u.kind # "resume"
  BY <1>8
<1>19. allowhook' = allowhook /\ frames' = frames /\ baseCcalls' = baseCcalls /\ Call("call", <<u>>, f)
  BY <1>7 DEF PCall
<1>20. Stands(us, mv, nCcalls, allowhook, frames, baseCcalls)
  BY <1>2, <1>3, <1>8, <1>10, <1>12, <1>15, <1>16, <1>18, StandsPush
<1>21. Stands(us, mv, nCcalls, allowhook', frames, baseCcalls)
  BY <1>19, <1>20
<1>22. /\ us[1].t = L /\ nCcalls[L] >= mv[1].n /\ nCcalls[L] = mv[1].n /\ allowhook'[L] = mv[1].hook
       /\ Depth >= us[1].depth /\ Depth = us[1].depth /\ Saves(us[1])
  BY <1>4, <1>8, <1>10, <1>17, <1>19 DEF Saves
<1>23. L # Main => Depth > 0
  BY <1>3, <1>4, <1>5, <1>6
<1>24. <<u>> \in Seq(Activations)
  BY <1>8
<1>25. /\ StackInv' /\ cstack' \in Seq(Activations) /\ nCcalls' \in [Threads -> Nat]
       /\ \A co \in Coroutines : Resumed(cstack', co) <=> Resumed(us, co)
       /\ pc' \in {"run", "precall", "error", "throw"} /\ (pc' = "precall" => arg' \in Kinds)
  BY <1>1, <1>13, <1>15, <1>16, <1>17, <1>19, <1>21, <1>22, <1>23, <1>24, CallKeeps
<1>26. CallTypeOK'
  BY <1>1, <1>25 DEF PCall, CallTypeOK
<1>27. Fed(frames')
  BY <1>1, <1>3, HasFrames DEF PCall
<1>28. \A co \in Coroutines : Resumed(cstack', co) <=> Resumed(cstack, co)
  BY <1>3, <1>15, <1>18, <1>25, ResumedPush
<1>29. StatusInv'
  BY <1>1, <1>27, <1>28, StatusKept DEF PCall
<1> QED BY <1>25, <1>26, <1>29 DEF CallInv

\* luaD_callhook.
LEMMA HookKeeps ==
  ASSUME CallInv, NEW f \in Kinds, Hook(f)
  PROVE  CallInv'
<1>1. CallTypeOK /\ StatusInv /\ StackInv
  BY DEF CallInv
<1>2. PICK lv \in Seq(Levels) :
        /\ Stands(cstack, lv, nCcalls, allowhook, frames, baseCcalls)
        /\ Running(cstack, lv, nCcalls, allowhook, frames, pc)
  BY <1>1 DEF StackInv
<1>3. pc = "run" /\ Depth > 0 /\ Len(cstack) > 1 /\ Depth > cstack[1].depth
  BY <1>1, <1>2, Runner DEF Hook
<1>4. /\ L \in Threads /\ Depth \in Nat /\ nCcalls[L] \in Nat /\ allowhook[L] = TRUE
      /\ Len(cstack) \in Nat /\ cstack \in Seq(Activations)
      /\ cstack[1].t = L /\ cstack[1] \in Activations
  BY <1>1, <1>3, CallTyped DEF Hook, CallTypeOK
<1>5. /\ nCcalls[L] = lv[1].n /\ allowhook[L] = lv[1].hook /\ ~Saves(cstack[1])
      /\ cstack[1].depth \in Nat
  BY <1>1, <1>2, <1>3, <1>4, RunsAbove, KindsOf
<1>6. PICK u : u = Activation("hook")
  OBVIOUS
<1>7. u \in Activations /\ u.kind = "hook" /\ u.t = L /\ u.depth = Depth
  BY <1>4, <1>6 DEF Activation, Activations, Calls
<1>8. PICK x : x = [n |-> nCcalls[L], hook |-> FALSE]
  OBVIOUS
<1>9. x \in Levels /\ x.n = nCcalls[L] /\ x.hook = FALSE
  BY <1>4, <1>8 DEF Levels
<1>10. Chain(cstack, lv)
  BY <1>2 DEF Stands
<1>11. Fits(u, x, cstack, lv)
  <2>1. x.n < MaxCCalls + ExtraCCalls
    <3>1. 1 \in 1 .. Len(cstack)
      BY <1>3, <1>4
    <3> QED BY <3>1, <1>5, <1>9, <1>10 DEF Chain, Counts
  <2>2. Linked(u, x, cstack[1], lv[1])
    BY <1>3, <1>4, <1>5, <1>7, <1>9 DEF Linked
  <2> QED BY <2>1, <2>2, <1>3, <1>4, <1>7 DEF Fits
<1>12. PICK us : us = <<u>> \o cstack
  OBVIOUS
<1>13. PICK mv : mv = <<x>> \o lv
  OBVIOUS
<1>14. us \in Seq(Activations) /\ Pushed(us, u, cstack)
  BY <1>4, <1>7, <1>12, Push
<1>15. mv \in Seq(Levels) /\ Pushed(mv, x, lv)
  BY <1>9, <1>13, Push
<1>16. us[1] = u /\ mv[1] = x /\ Len(us) > 0
  BY <1>4, <1>14, <1>15 DEF Pushed
<1>17. u.kind # "resume"
  BY <1>7
<1>18. frames' = frames /\ baseCcalls' = baseCcalls /\ Call("call", <<u>>, f)
  BY <1>6 DEF Hook
<1>19. Stands(us, mv, nCcalls, allowhook, frames, baseCcalls)
  BY <1>2, <1>4, <1>7, <1>9, <1>11, <1>14, <1>15, <1>17, StandsPush
<1>20. allowhook' \in [Threads -> BOOLEAN] /\ allowhook'[L] = FALSE
       /\ \A th \in Threads : th # L => allowhook'[th] = allowhook[th]
  BY <1>1, <1>4 DEF Hook, CallTypeOK
<1>21. PICK ah : ah = allowhook'
  OBVIOUS
<1>22. Elsewhere(us, nCcalls, allowhook, frames, nCcalls, ah, frames)
  <2>1. ASSUME NEW k \in 1 .. Len(us), us[k].t # us[1].t PROVE ah[us[k].t] = allowhook[us[k].t]
    <3>1. us[k].t \in Threads /\ us[k].t # L
      BY <2>1, <1>7, <1>14, <1>16, KindsOf
    <3> QED BY <3>1, <1>20, <1>21
  <2> QED BY <2>1 DEF Elsewhere
<1>23. Stands(us, mv, nCcalls, ah, frames, baseCcalls)
  BY <1>14, <1>19, <1>22, StandsElsewhere
<1>24. /\ us[1].t = L /\ nCcalls[L] >= mv[1].n /\ nCcalls[L] = mv[1].n /\ allowhook'[L] = mv[1].hook
       /\ Depth >= us[1].depth /\ Depth = us[1].depth /\ Saves(us[1])
  <2>1. us[1].t = L /\ Depth = us[1].depth /\ Saves(us[1])
    BY <1>7, <1>16 DEF Saves
  <2>2. nCcalls[L] = mv[1].n /\ allowhook'[L] = mv[1].hook
    BY <1>9, <1>16, <1>20
  <2> QED BY <2>1, <2>2, <1>4
<1>25. <<u>> \in Seq(Activations) /\ us = <<u>> \o cstack
  BY <1>7, <1>12
<1>26. /\ StackInv' /\ cstack' \in Seq(Activations) /\ nCcalls' \in [Threads -> Nat]
       /\ \A co \in Coroutines : Resumed(cstack', co) <=> Resumed(us, co)
       /\ pc' \in {"run", "precall", "error", "throw"} /\ (pc' = "precall" => arg' \in Kinds)
  BY <1>1, <1>3, <1>14, <1>15, <1>16, <1>18, <1>21, <1>23, <1>24, <1>25, CallKeeps
<1>27. CallTypeOK'
  BY <1>1, <1>20, <1>26 DEF Hook, CallTypeOK
<1>28. Fed(frames')
  BY <1>1, <1>3, HasFrames DEF Hook
<1>29. \A co \in Coroutines : Resumed(cstack', co) <=> Resumed(cstack, co)
  BY <1>4, <1>14, <1>17, <1>26, ResumedPush
<1>30. StatusInv'
  BY <1>1, <1>28, <1>29, StatusKept DEF Hook
<1> QED BY <1>26, <1>27, <1>30 DEF CallInv

\* luaG_errormsg: with a handler it is called on top of what has failed.
LEMMA ErrorMsgKeeps ==
  ASSUME CallInv, ErrorMsg
  PROVE  CallInv'
<1>1. CallTypeOK /\ StatusInv /\ StackInv
  BY DEF CallInv
<1>2. PICK lv \in Seq(Levels) :
        /\ Stands(cstack, lv, nCcalls, allowhook, frames, baseCcalls)
        /\ Running(cstack, lv, nCcalls, allowhook, frames, pc)
  BY <1>1 DEF StackInv
<1>3. pc = "error" /\ Len(cstack) > 0
  BY <1>1, <1>2, CallTyped DEF ErrorMsg, Running
<1>4. /\ L \in Threads /\ Depth \in Nat /\ nCcalls[L] \in Nat /\ L = cstack[1].t
      /\ cstack \in Seq(Activations)
  BY <1>1, <1>3, CallTyped DEF CallTypeOK
<1>5. nCcalls[L] >= lv[1].n /\ allowhook[L] = lv[1].hook /\ Depth >= cstack[1].depth
  BY <1>2, <1>3, <1>4 DEF Running, Depth
<1>6. Fed(frames) /\ Fed(frames')
  BY <1>1, <1>3, HasFrames DEF ErrorMsg
<1>7. L # Main => Depth > 0
  <2>1. SUFFICES ASSUME L # Main PROVE Depth > 0
    OBVIOUS
  <2>2. Resumed(cstack, L) /\ L \in Coroutines
    BY <2>1, <1>1, <1>2, TopResumed DEF Stands
  <2>3. frames[L] # <<>> /\ frames[L] \in Seq(Kinds)
    BY <2>2, <1>1, <1>6, CallTyped DEF Fed
  <2> QED BY <2>3 DEF Depth
<1>8. CASE pc' = "throw" /\ UNCHANGED <<nCcalls, cstack>>
  <2>1. CallTypeOK'
    BY <1>1, <1>8 DEF ErrorMsg, CallTypeOK
  <2>2. Running(cstack, lv, nCcalls', allowhook', frames', pc')
    BY <1>2, <1>3, <1>8 DEF ErrorMsg, Running
  <2>3. StackInv'
    BY <2>2, <1>1, <1>2, <1>8, StackSame DEF ErrorMsg
  <2>4. StatusInv'
    BY <1>1, <1>6, <1>8, StatusKept DEF ErrorMsg
  <2> QED BY <2>1, <2>3, <2>4 DEF CallInv
<1>9. CASE \E f \in {"lua", "C"} : Call("handler", <<>>, f)
  <2>1. PICK f \in Kinds : Call("handler", <<>>, f)
    BY <1>9 DEF Kinds
  <2>2. PICK us : us = cstack
    OBVIOUS
  <2>3. us \in Seq(Activations) /\ us = <<>> \o cstack /\ Len(us) > 0 /\ us[1].t = L
        /\ <<>> \in Seq(Activations)
    BY <2>2, <1>3, <1>4
  <2>4. allowhook' = allowhook /\ frames' = frames /\ baseCcalls' = baseCcalls
    BY DEF ErrorMsg
  <2>5. /\ Stands(us, lv, nCcalls, allowhook', frames, baseCcalls)
        /\ Depth >= us[1].depth /\ nCcalls[L] >= lv[1].n /\ allowhook'[L] = lv[1].hook
    BY <2>2, <2>4, <1>2, <1>5
  <2>6. /\ StackInv' /\ cstack' \in Seq(Activations) /\ nCcalls' \in [Threads -> Nat]
        /\ \A co \in Coroutines : Resumed(cstack', co) <=> Resumed(us, co)
        /\ pc' \in {"run", "precall", "error", "throw"} /\ (pc' = "precall" => arg' \in Kinds)
    BY <2>1, <2>3, <2>4, <2>5, <1>1, <1>7, CallKeeps
  <2>7. CallTypeOK'
    BY <2>6, <1>1 DEF ErrorMsg, CallTypeOK
  <2>8. StatusInv'
    BY <2>2, <2>6, <1>1, <1>6, StatusKept DEF ErrorMsg
  <2> QED BY <2>6, <2>7, <2>8 DEF CallInv
<1> QED BY <1>8, <1>9 DEF ErrorMsg

\* luaD_precall: a call info, unless there is an error.
LEMMA PrecallKeeps ==
  ASSUME CallInv, Precall
  PROVE  CallInv'
<1>1. CallTypeOK /\ StatusInv /\ StackInv
  BY DEF CallInv
<1>2. PICK lv \in Seq(Levels) :
        /\ Stands(cstack, lv, nCcalls, allowhook, frames, baseCcalls)
        /\ Running(cstack, lv, nCcalls, allowhook, frames, pc)
  BY <1>1 DEF StackInv
<1>3. pc = "precall" /\ Len(cstack) > 0 /\ arg \in Kinds
  BY <1>1, <1>2, CallTyped DEF Precall, Running, CallTypeOK
<1>4. /\ L \in Threads /\ Depth \in Nat /\ frames[L] \in Seq(Kinds)
      /\ sizeCI[L] \in Nat /\ sizeCI[L] >= 2 /\ L = cstack[1].t
  BY <1>1, <1>3, CallTyped
<1>5. cstack' = cstack /\ thStatus' = thStatus /\ fresh' = fresh /\ nCcalls' = nCcalls
      /\ baseCcalls' = baseCcalls /\ allowhook' = allowhook /\ errfunc' = errfunc
  BY DEF Precall
<1>6. CASE Depth = sizeCI[L] - 1 /\ pc' \in {"throw", "error"} /\ frames' = frames
           /\ sizeCI' \in [Threads -> Nat] /\ \A th \in Threads : sizeCI'[th] >= 2
  <2>1. CallTypeOK'
    BY <1>1, <1>5, <1>6 DEF CallTypeOK
  <2>2. pc' \notin {"run", "precall"}
    BY <1>6
  <2>3. Running(cstack, lv, nCcalls', allowhook', frames', pc')
    BY <2>2, <1>2, <1>3, <1>5, <1>6 DEF Running
  <2>4. StackInv'
    BY <2>3, <1>1, <1>2, <1>5, <1>6, StackSame
  <2>5. Fed(frames')
    BY <1>1, <1>4, <1>6, HasFrames
  <2>6. StatusInv'
    BY <2>5, <1>1, <1>5, <1>6, StatusKept
  <2> QED BY <2>1, <2>4, <2>6 DEF CallInv
<1>7. CASE /\ sizeCI' \in [Threads -> Nat] /\ \A th \in Threads : sizeCI'[th] >= 2
           /\ frames' = [frames EXCEPT ![L] = <<arg>> \o @] /\ pc' = "run" /\ arg' = "none"
  <2>1. PICK fl : fl = <<arg>> \o frames[L]
    OBVIOUS
  <2>2. /\ fl \in Seq(Kinds) /\ Len(fl) = Depth + 1 /\ fl # <<>>
        /\ Depth = 0 => fl[Len(fl)] = arg
        /\ Depth > 0 => fl[Len(fl)] = frames[L][Depth]
    BY <2>1, <1>3, <1>4 DEF Depth
  <2>3. /\ frames' \in [Threads -> Seq(Kinds)] /\ frames'[L] = fl
        /\ \A th \in Threads : th # L => frames'[th] = frames[th]
    BY <2>1, <2>2, <1>1, <1>4, <1>7 DEF CallTypeOK
  <2>4. CallTypeOK'
    BY <2>3, <1>1, <1>5, <1>7 DEF CallTypeOK
  <2>5. Running(cstack, lv, nCcalls', allowhook', frames', pc')
    <3>1. /\ nCcalls[L] = lv[1].n /\ allowhook[L] = lv[1].hook /\ ~Saves(cstack[1])
          /\ Depth >= cstack[1].depth /\ lv[1].n \in Nat /\ cstack[1].depth \in Nat
      BY <1>1, <1>2, <1>3, <1>4, RunsAbove, CallTyped, KindsOf
    <3>2. Len(fl) > cstack[1].depth /\ Len(fl) >= cstack[1].depth
      BY <3>1, <2>2, <1>4
    <3> QED BY <3>1, <3>2, <2>3, <1>3, <1>4, <1>5 DEF Running
  <2>6. StackInv'
    BY <2>3, <2>5, <1>1, <1>2, <1>5, StackSame
  <2>7. Fed(frames')
    <3>1. SUFFICES ASSUME NEW co \in Coroutines, Resumed(cstack, co) PROVE frames'[co] # <<>>
      BY DEF Fed
    <3>2. CASE co = L
      BY <3>2, <2>2, <2>3
    <3>3. CASE co # L
      BY <3>1, <3>3, <2>3, <1>1 DEF StatusInv, Threads
    <3> QED BY <3>2, <3>3
  <2>8. ASSUME NEW co \in Coroutines
        PROVE  frames'[co] = frames[co]
                 \/ (Resumed(cstack, co) /\ frames'[co][Len(frames'[co])] = "lua")
    <3>1. CASE co # L
      BY <3>1, <2>3 DEF Threads
    <3>2. CASE co = L
      <4>1. Resumed(cstack, co)
        BY <3>2, <1>1, <1>2, TopResumed, LuaCallAssumption DEF Stands
      <4>2. CASE Depth = 0
        <5>1. frames[co] = <<>>
          BY <3>2, <4>2, <1>4 DEF Depth
        <5>2. arg = "lua"
          BY <4>1, <5>1, <1>1 DEF StatusInv
        <5> QED BY <3>2, <4>1, <4>2, <5>2, <2>2, <2>3
      <4>3. CASE Depth > 0
        <5>1. frames[co] # <<>> /\ frames[co][Len(frames[co])] = "lua"
          BY <3>2, <4>3, <1>1 DEF StatusInv, Depth
        <5> QED BY <3>2, <4>1, <4>3, <5>1, <2>2, <2>3 DEF Depth
      <4> QED BY <4>2, <4>3, <1>4
    <3> QED BY <3>1, <3>2
  <2>9. StatusInv'
    BY <2>7, <2>8, <1>1, <1>5, StatusKept
  <2> QED BY <2>4, <2>6, <2>9 DEF CallInv
<1>8. \A s \in Nat : s >= 2 => 2 * s \in Nat /\ 2 * s >= 2
  OBVIOUS
<1>9. /\ sizeCI \in [Threads -> Nat] /\ (\A th \in Threads : sizeCI[th] >= 2)
      /\ 2 * sizeCI[L] \in Nat /\ 2 * sizeCI[L] >= 2
  BY <1>1, <1>4, <1>8 DEF CallTypeOK
<1>10. \A s \in {sizeCI[L], 2 * sizeCI[L]} : sizeCI' = [sizeCI EXCEPT ![L] = s] =>
         sizeCI' \in [Threads -> Nat] /\ \A th \in Threads : sizeCI'[th] >= 2
  BY <1>4, <1>9
<1>11. (sizeCI' = sizeCI \/ \E s \in {sizeCI[L], 2 * sizeCI[L]} : sizeCI' = [sizeCI EXCEPT ![L] = s]) =>
         sizeCI' \in [Threads -> Nat] /\ \A th \in Threads : sizeCI'[th] >= 2
  BY <1>9, <1>10
<1> QED BY <1>6, <1>7, <1>11 DEF Precall

-----------------------------------------------------------------------------
(* The steps that take activations off the C stack.                         *)

LEMMA StackDrop ==
  ASSUME CallTypeOK, NEW lv \in Seq(Levels),
         Stands(cstack, lv, nCcalls, allowhook, frames, baseCcalls), Len(cstack) > 0,
         NEW d \in 1 .. Len(cstack),
         NEW ns \in Seq(Activations), ns = cstack', Dropped(ns, cstack, d),
         NEW mv \in Seq(Levels), Dropped(mv, lv, d), baseCcalls' = baseCcalls,
         \A th \in Threads : th # L =>
           nCcalls'[th] = nCcalls[th] /\ allowhook'[th] = allowhook[th] /\ frames'[th] = frames[th],
         Running(ns, mv, nCcalls', allowhook', frames', pc')
  PROVE  StackInv'
<1>1. PICK nc : nc = nCcalls'
  OBVIOUS
<1>2. PICK ah : ah = allowhook'
  OBVIOUS
<1>3. PICK fr : fr = frames'
  OBVIOUS
<1>4. PICK at : at = pc'
  OBVIOUS
<1>5. PICK cs : cs = cstack
  OBVIOUS
<1>6. PICK base : base = baseCcalls
  OBVIOUS
<1>7. cs \in Seq(Activations) /\ cs[1].t = L /\ d \in 0 .. Len(cs)
  BY <1>5, CallTyped DEF CallTypeOK
<1>8. \A k \in 1 .. Len(cs) : cs[k].t \in Threads
  BY <1>7, KindsOf
<1>9. Elsewhere(cs, nCcalls, allowhook, frames, nc, ah, fr)
  BY <1>1, <1>2, <1>3, <1>7, <1>8 DEF Elsewhere
<1>10. Stands(cs, lv, nCcalls, allowhook, frames, base)
  BY <1>5, <1>6
<1>11. Stands(cs, lv, nc, ah, fr, base)
  BY <1>7, <1>9, <1>10, StandsElsewhere
<1>12. Dropped(ns, cs, d)
  BY <1>5
<1>13. Stands(ns, mv, nc, ah, fr, base)
  BY <1>7, <1>11, <1>12, StandsDrop
<1>14. Running(ns, mv, nc, ah, fr, at)
  BY <1>1, <1>2, <1>3, <1>4
<1>15. base = baseCcalls'
  BY <1>6
<1> QED BY <1>1, <1>2, <1>3, <1>4, <1>13, <1>14, <1>15, StackNext

\* What a step finds where d activations are dropped.
LEMMA Uncovered ==
  ASSUME NEW cs \in Seq(Activations), NEW lv \in Seq(Levels), Chain(cs, lv),
         NEW d \in 1 .. Len(cs), NEW ns, Dropped(ns, cs, d), NEW mv, Dropped(mv, lv, d)
  PROVE  /\ Len(ns) = Len(cs) - d /\ cs[d] \in Activations /\ lv[d] \in Levels
         /\ Len(ns) = 0 => Outermost(cs[d], lv[d])
         /\ Len(ns) > 0 => /\ ns[1] = cs[d + 1] /\ mv[1] = lv[d + 1]
                            /\ cs[d + 1] \in Activations /\ lv[d + 1] \in Levels
                            /\ Linked(cs[d], lv[d], cs[d + 1], lv[d + 1])
<1>1. Len(cs) \in Nat /\ Len(lv) = Len(cs) /\ Links(cs, lv) /\ d \in Nat
  BY DEF Chain
<1>2. /\ Len(ns) = Len(cs) - d /\ Len(mv) = Len(cs) - d
      /\ \A k \in 1 .. Len(ns) : ns[k] = cs[k + d]
      /\ \A k \in 1 .. Len(mv) : mv[k] = lv[k + d]
  BY <1>1 DEF Dropped
<1>3. cs[d] \in Activations /\ lv[d] \in Levels
  BY <1>1
<1>4. Len(ns) = 0 => Outermost(cs[d], lv[d])
  <2>1. Len(ns) = 0 => d = Len(cs) /\ Len(cs) > 0
    BY <1>1, <1>2
  <2> QED BY <2>1, <1>1 DEF Links
<1>5. ASSUME Len(ns) > 0
      PROVE  /\ ns[1] = cs[d + 1] /\ mv[1] = lv[d + 1]
             /\ cs[d + 1] \in Activations /\ lv[d + 1] \in Levels
             /\ Linked(cs[d], lv[d], cs[d + 1], lv[d + 1])
  <2>1. 1 \in 1 .. Len(ns) /\ 1 \in 1 .. Len(mv) /\ 1 + d = d + 1 /\ d + 1 \in 1 .. Len(cs)
        /\ d \in 1 .. Len(cs) - 1
    BY <1>1, <1>2, <1>5
  <2>2. ns[1] = cs[1 + d] /\ mv[1] = lv[1 + d]
    BY <2>1, <1>2
  <2>3. cs[d + 1] \in Activations /\ lv[d + 1] \in Levels
    BY <2>1, <1>1
  <2>4. Linked(cs[d], lv[d], cs[d + 1], lv[d + 1])
    BY <2>1, <1>1 DEF Links
  <2> QED BY <2>1, <2>2, <2>3, <2>4
<1> QED BY <1>2, <1>3, <1>4, <1>5

\* A call info less.
LEMMA TailOf ==
  ASSUME CallTypeOK, Depth > 0, frames' = [frames EXCEPT ![L] = Tail(@)]
  PROVE  /\ frames' \in [Threads -> Seq(Kinds)] /\ Len(frames'[L]) = Depth - 1
         /\ \A th \in Threads : th # L => frames'[th] = frames[th]
         /\ Depth = 1 => frames'[L] = <<>>
         /\ Depth > 1 => frames'[L] # <<>>
                          /\ frames'[L][Len(frames'[L])] = frames[L][Len(frames[L])]
<1>1. L \in Threads /\ frames[L] \in Seq(Kinds) /\ Len(frames[L]) = Depth /\ Depth \in Nat
  BY CallTyped DEF Depth
<1>2. PICK fl : fl = Tail(frames[L])
  OBVIOUS
<1>3. /\ fl \in Seq(Kinds) /\ Len(fl) = Depth - 1
      /\ \A k \in 1 .. Depth - 1 : fl[k] = frames[L][k + 1]
  BY <1>1, <1>2
<1>4. Depth = 1 => fl = <<>>
  BY <1>3
<1>5. Depth > 1 => fl # <<>> /\ fl[Len(fl)] = frames[L][Len(frames[L])]
  <2>1. Depth > 1 => Depth - 1 \in 1 .. Depth - 1 /\ Depth - 1 + 1 = Depth
    BY <1>1
  <2> QED BY <2>1, <1>1, <1>3
<1>6. /\ frames' \in [Threads -> Seq(Kinds)] /\ frames'[L] = fl
      /\ \A th \in Threads : th # L => frames'[th] = frames[th]
  BY <1>1, <1>2, <1>3 DEF CallTypeOK
<1> QED BY <1>3, <1>4, <1>5, <1>6

LEMMA ReturnStatus ==
  ASSUME CallTypeOK, StatusInv, NEW lv, Chain(cstack, lv), pc = "run", Depth > 0, L # Main => Depth > 1,
         frames' = [frames EXCEPT ![L] = Tail(@)], thStatus' = thStatus, fresh' = fresh,
         NEW ns, ns = cstack', \A co \in Coroutines : Resumed(ns, co) <=> Resumed(cstack, co)
  PROVE  StatusInv'
<1>1. Depth \in Nat /\ L \in Threads
  BY CallTyped
<1>2. \A co \in Coroutines : co \in Threads /\ co # Main
  BY LuaCallAssumption DEF Threads
<1>3. ASSUME NEW co \in Coroutines
      PROVE  /\ Resumed(cstack, co) => frames'[co] # <<>>
             /\ frames'[co] = frames[co]
                  \/ (Resumed(cstack, co) /\ frames'[co][Len(frames'[co])] = "lua")
  <2>1. CASE co # L
    <3>1. Fed(frames)
      BY HasFrames
    <3>2. frames'[co] = frames[co]
      BY <2>1, <1>2, TailOf
    <3> QED BY <3>1, <3>2 DEF Fed
  <2>2. CASE co = L
    <3>1. Depth > 1
      BY <2>2, <1>2
    <3>2. frames'[L] # <<>> /\ frames'[L][Len(frames'[L])] = frames[L][Len(frames[L])]
      BY <3>1, TailOf
    <3>3. frames[L] # <<>>
      BY <3>1 DEF Depth
    <3>4. Resumed(cstack, L)
      BY <2>2, <1>2, TopResumed
    <3>5. frames[L][Len(frames[L])] = "lua"
      BY <2>2, <3>3 DEF StatusInv
    <3> QED BY <2>2, <3>2, <3>4, <3>5
  <2> QED BY <2>1, <2>2
<1>4. Fed(frames')
  BY <1>3 DEF Fed
<1> QED BY <1>3, <1>4, StatusKept

\* luaD_poscall.
LEMMA ReturnKeeps ==
  ASSUME CallInv, Return
  PROVE  CallInv'
<1>1. CallTypeOK /\ StatusInv /\ StackInv
  BY DEF CallInv
<1>2. PICK lv \in Seq(Levels) :
        /\ Stands(cstack, lv, nCcalls, allowhook, frames, baseCcalls)
        /\ Running(cstack, lv, nCcalls, allowhook, frames, pc)
  BY <1>1 DEF StackInv
<1>3. pc = "run" /\ Depth > 0 /\ Len(cstack) > 1 /\ Depth > cstack[1].depth
  BY <1>1, <1>2, Runner DEF Return
<1>4. /\ L \in Threads /\ Depth \in Nat /\ nCcalls[L] \in Nat /\ L = cstack[1].t
      /\ Head(cstack) = cstack[1] /\ cstack \in Seq(Activations) /\ Len(cstack) \in Nat
  BY <1>1, <1>3, CallTyped DEF CallTypeOK
<1>5. /\ nCcalls[L] = lv[1].n /\ allowhook[L] = lv[1].hook /\ lv[1].n \in Nat /\ lv[2].n \in Nat
      /\ Recurses(cstack[1]) /\ ~Saves(cstack[1]) /\ cstack[1] \in Activations
      /\ lv[1].n > lv[2].n /\ Linked(cstack[1], lv[1], cstack[2], lv[2])
      /\ cstack[2] \in Activations /\ Len(lv) = Len(cstack)
      /\ cstack[1].depth \in Nat /\ cstack[2].depth \in Nat
  BY <1>1, <1>2, <1>3, <1>4, RunsAbove, CallTyped, KindsOf
<1>6. Chain(cstack, lv) /\ Blocks(cstack)
  BY <1>2 DEF Stands, Chain
<1>7. /\ frames' = [frames EXCEPT ![L] = Tail(@)] /\ thStatus' = thStatus /\ fresh' = fresh
      /\ sizeCI' = sizeCI /\ baseCcalls' = baseCcalls
  BY DEF Return
<1>8. /\ frames' \in [Threads -> Seq(Kinds)] /\ Len(frames'[L]) = Depth - 1
      /\ \A th \in Threads : th # L => frames'[th] = frames[th]
      /\ Depth = 1 => frames'[L] = <<>>
  BY <1>1, <1>3, <1>7, TailOf
<1>9. L # Main /\ cstack[1].kind # "resume" => cstack[1].depth > 0
  <2>1. 1 \in 1 .. Len(cstack)
    BY <1>3, <1>4
  <2> QED BY <2>1, <1>4, <1>6 DEF Blocks
<1>10. CASE WithinVM
  <2>1. cstack # <<>>
    BY <1>3
  <2>2. Depth - 1 > cstack[1].depth
    BY <2>1, <1>3, <1>4, <1>5, <1>10 DEF WithinVM, Awaited
  <2>3. /\ nCcalls' = nCcalls /\ allowhook' = allowhook /\ errfunc' = errfunc /\ cstack' = cstack
        /\ pc' = pc /\ arg' = arg
    BY <1>10 DEF WithinVM
  <2>4. CallTypeOK'
    BY <2>3, <1>1, <1>7, <1>8 DEF CallTypeOK
  <2>5. Len(frames'[L]) > cstack[1].depth /\ Len(frames'[L]) >= cstack[1].depth
    BY <2>2, <1>4, <1>5, <1>8
  <2>6. Running(cstack, lv, nCcalls', allowhook', frames', pc')
    BY <2>3, <2>5, <1>3, <1>4, <1>5 DEF Running
  <2>7. StackInv'
    BY <2>3, <2>6, <1>1, <1>2, <1>7, <1>8, StackSame
  <2>8. StatusInv'
    <3>1. Depth > 1
      BY <2>2, <1>4, <1>5
    <3> QED BY <3>1, <2>3, <1>1, <1>3, <1>6, <1>7, ReturnStatus
  <2> QED BY <2>4, <2>7, <2>8 DEF CallInv
<1>11. CASE Finished
  <2>1. cstack[1].depth = Depth - 1 /\ nCcalls' = [nCcalls EXCEPT ![L] = @ - 1]
    BY <1>4, <1>11 DEF Finished, Awaited
  <2>2. /\ nCcalls' \in [Threads -> Nat] /\ nCcalls'[L] = lv[1].n - 1
        /\ \A th \in Threads : th # L => nCcalls'[th] = nCcalls[th]
    <3>1. nCcalls[L] - 1 \in Nat
      BY <1>5
    <3> QED BY <3>1, <2>1, <1>1, <1>4, <1>5 DEF CallTypeOK
  <2>3. CASE /\ cstack[1].kind = "call" /\ cstack[2].kind \in {"pcall", "hook"}
             /\ cstack[2].depth = Depth - 1 /\ cstack[2].t = L
             /\ cstack' = SubSeq(cstack, 3, Len(cstack))
             /\ errfunc' = IF cstack[2].kind = "pcall" THEN [errfunc EXCEPT ![L] = cstack[2].errfunc]
                                                      ELSE errfunc
             /\ allowhook' = AfterHook(cstack[2])
             /\ UNCHANGED <<pc, arg>>
    <3>1. PICK b : b = cstack[2]
      OBVIOUS
    <3>2. b \in Activations /\ b.t = L /\ b.depth = Depth - 1 /\ Saves(b) /\ b.kind # "resume"
          /\ (b.kind = "pcall" => b.errfunc \in {"none", "function"})
      BY <3>1, <2>3, <1>5, KindsOf DEF Saves
    <3>3. PICK ns : ns = SubSeq(cstack, 2 + 1, Len(cstack))
      OBVIOUS
    <3>4. PICK mv : mv = SubSeq(lv, 2 + 1, Len(lv))
      OBVIOUS
    <3>5. /\ 2 \in 1 .. Len(cstack) /\ 2 \in 0 .. Len(cstack) /\ 2 \in 0 .. Len(lv)
          /\ Len(cstack) > 0
      BY <1>3, <1>4, <1>5
    <3>6. ns \in Seq(Activations) /\ Dropped(ns, cstack, 2) /\ ns = cstack'
      BY <3>3, <3>5, <2>3, <1>4, Drop
    <3>7. mv \in Seq(Levels) /\ Dropped(mv, lv, 2)
      BY <3>4, <3>5, Drop
    <3>8. /\ Len(ns) = Len(cstack) - 2 /\ Len(ns) \in Nat
          /\ Len(ns) = 0 => Outermost(b, lv[2])
          /\ Len(ns) > 0 => ns[1] \in Activations /\ mv[1] \in Levels /\ Linked(b, lv[2], ns[1], mv[1])
      <4>1. 2 + 1 = 3
        OBVIOUS
      <4> QED BY <4>1, <3>1, <3>5, <3>6, <3>7, <1>4, <1>6, Uncovered, SMTT(30)
    <3>9. lv[1].n = lv[2].n + 1 /\ lv[1].hook = lv[2].hook
      BY <2>3, <1>5 DEF Linked
    <3>10. /\ allowhook' \in [Threads -> BOOLEAN]
           /\ \A th \in Threads : th # L => allowhook'[th] = allowhook[th]
           /\ b.kind = "hook" => allowhook'[L] = TRUE
           /\ b.kind = "pcall" => allowhook'[L] = lv[2].hook
      BY <3>1, <3>2, <3>9, <2>3, <1>1, <1>4, <1>5 DEF AfterHook, CallTypeOK
    <3>11. nCcalls'[L] = lv[2].n
      BY <3>9, <2>2, <1>5
    <3>12. pc' = "run"
      BY <2>3, <1>3
    <3>13. Running(ns, mv, nCcalls', allowhook', frames', "run")
      <4>1. CASE Len(ns) = 0
        <5>1. L = Main /\ b.depth = 0 /\ lv[2].n = 0 /\ lv[2].hook = TRUE /\ b.kind = "pcall"
          BY <4>1, <3>2, <3>8 DEF Outermost
        <5>2. frames'[L] = <<>>
          BY <5>1, <3>2, <1>4, <1>8
        <5> QED BY <5>1, <5>2, <4>1, <3>10, <3>11 DEF Running
      <4>2. CASE Len(ns) > 0
        <5>1. /\ ns[1].t = L /\ ~Saves(ns[1]) /\ b.depth > ns[1].depth /\ lv[2].n = mv[1].n
              /\ b.kind = "pcall" => lv[2].hook = mv[1].hook
              /\ b.kind = "hook" => mv[1].hook = TRUE
          BY <4>2, <3>2, <3>8 DEF Linked, Saves
        <5>2. mv[1].n \in Nat /\ ns[1].depth \in Nat
          BY <4>2, <3>8, KindsOf DEF Levels
        <5>3. allowhook'[L] = mv[1].hook
          BY <5>1, <3>2, <3>10 DEF Saves
        <5>4. Len(frames'[L]) > ns[1].depth /\ Len(frames'[L]) >= ns[1].depth
          BY <5>1, <5>2, <3>2, <1>4, <1>8
        <5>5. nCcalls'[L] = mv[1].n /\ nCcalls'[L] >= mv[1].n
          BY <5>1, <5>2, <3>11
        <5> QED BY <5>1, <5>3, <5>4, <5>5, <4>2 DEF Running
      <4> QED BY <4>1, <4>2, <3>8
    <3>14. Running(ns, mv, nCcalls', allowhook', frames', pc')
      BY <3>12, <3>13
    <3>15. StackInv'
      BY <3>5, <3>6, <3>7, <3>10, <3>14, <2>2, <1>1, <1>2, <1>7, <1>8, StackDrop
    <3>16. CallTypeOK'
      <4>1. errfunc' \in [Threads -> {"none", "function"}]
        BY <3>1, <3>2, <2>3, <1>1, <1>4 DEF CallTypeOK
      <4>2. pc' = pc /\ arg' = arg
        BY <2>3
      <4> QED BY <4>1, <4>2, <3>6, <3>10, <2>2, <1>1, <1>7, <1>8 DEF CallTypeOK
    <3>17. \A co \in Coroutines : Resumed(ns, co) <=> Resumed(cstack, co)
      <4>1. \A k \in 1 .. 2 - 1 : cstack[k].kind # "resume"
        BY <2>3
      <4> QED BY <4>1, <3>1, <3>2, <3>5, <3>6, <1>4, <1>6, ResumedDrop
    <3>18. L # Main => Depth > 1
      BY <2>1, <2>3, <1>4, <1>9
    <3>19. StatusInv'
      BY <3>6, <3>17, <3>18, <1>1, <1>3, <1>6, <1>7, ReturnStatus
    <3> QED BY <3>15, <3>16, <3>19 DEF CallInv
  <2>4. PICK ns : ns = Tail(cstack)
    OBVIOUS
  <2>5. PICK mv : mv = Tail(lv)
    OBVIOUS
  <2>6. 1 \in 1 .. Len(cstack) /\ Len(cstack) > 0 /\ Len(lv) > 0
    BY <1>3, <1>4, <1>5
  <2>7. ns \in Seq(Activations) /\ Dropped(ns, cstack, 1)
    BY <2>4, <2>6, <1>4, DropFirst
  <2>8. mv \in Seq(Levels) /\ Dropped(mv, lv, 1)
    BY <2>5, <2>6, DropFirst
  <2>9. Len(ns) > 0 /\ ns[1] = cstack[2] /\ mv[1] = lv[2]
    <3>1. 1 + 1 = 2
      OBVIOUS
    <3>2. Len(ns) = Len(cstack) - 1 /\ (Len(ns) > 0 => ns[1] = cstack[2] /\ mv[1] = lv[2])
      BY <3>1, <2>6, <2>7, <2>8, <1>4, <1>6, Uncovered
    <3> QED BY <3>2, <1>3, <1>4
  <2>10. ASSUME cstack' = Tail(cstack), UNCHANGED <<errfunc, allowhook>>,
                pc' \in {"run", "throw"}
         PROVE  CallTypeOK'
    BY <2>2, <2>4, <2>7, <2>10, <1>1, <1>7, <1>8 DEF CallTypeOK
  <2>11. ASSUME cstack[1].kind # "resume" PROVE \A co \in Coroutines : Resumed(ns, co) <=> Resumed(cstack, co)
    <3>1. \A k \in 1 .. 1 - 1 : cstack[k].kind # "resume"
      OBVIOUS
    <3> QED BY <3>1, <2>6, <2>7, <2>11, <1>4, <1>6, ResumedDrop
  <2>12. CASE /\ cstack[1].kind = "call"
              /\ ~(cstack[2].kind \in {"pcall", "hook"} /\ cstack[2].depth = Depth - 1 /\ cstack[2].t = L)
              /\ cstack' = Tail(cstack) /\ UNCHANGED <<errfunc, allowhook, pc, arg>>
    <3>1. ~Saves(cstack[2])
      BY <2>1, <2>12, <1>4, <1>5 DEF Linked, Saves
    <3>2. /\ cstack[2].t = L /\ lv[1].n = lv[2].n + 1 /\ lv[1].hook = lv[2].hook
          /\ cstack[1].depth > cstack[2].depth
      BY <3>1, <2>12, <1>4, <1>5 DEF Linked
    <3>3. nCcalls'[L] = lv[2].n /\ nCcalls'[L] >= lv[2].n
      BY <3>2, <2>2, <1>5
    <3>4. Len(frames'[L]) > cstack[2].depth /\ Len(frames'[L]) >= cstack[2].depth
      BY <3>2, <2>1, <1>4, <1>5, <1>8
    <3>5. allowhook'[L] = lv[2].hook
      BY <3>2, <2>12, <1>5
    <3>6. Running(ns, mv, nCcalls', allowhook', frames', pc')
      BY <3>1, <3>2, <3>3, <3>4, <3>5, <2>9 DEF Running
    <3>7. allowhook' = allowhook /\ ns = cstack'
      BY <2>4, <2>12
    <3>8. StackInv'
      BY <3>6, <3>7, <2>2, <2>6, <2>7, <2>8, <1>1, <1>2, <1>7, <1>8, StackDrop
    <3>9. L # Main => Depth > 1
      BY <2>1, <2>12, <1>4, <1>9
    <3>10. StatusInv'
      BY <3>7, <3>9, <2>11, <2>12, <1>1, <1>3, <1>6, <1>7, ReturnStatus
    <3>11. CallTypeOK'
      BY <2>10, <2>12, <1>3
    <3> QED BY <3>8, <3>10, <3>11 DEF CallInv
  <2>13. CASE /\ cstack[1].kind = "handler"
              /\ cstack' = Tail(cstack) /\ pc' = "throw" /\ UNCHANGED <<errfunc, allowhook>>
    <3>1. /\ cstack[2].t = L /\ lv[1].hook = lv[2].hook /\ cstack[1].depth >= cstack[2].depth
      BY <2>13, <1>4, <1>5 DEF Linked
    <3>2. nCcalls'[L] >= lv[2].n
      BY <2>2, <1>5
    <3>3. Len(frames'[L]) >= cstack[2].depth
      BY <3>1, <2>1, <1>4, <1>5, <1>8
    <3>4. allowhook'[L] = lv[2].hook
      BY <3>1, <2>13, <1>5
    <3>5. Running(ns, mv, nCcalls', allowhook', frames', pc')
      BY <3>1, <3>2, <3>3, <3>4, <2>9, <2>13 DEF Running
    <3>6. allowhook' = allowhook /\ ns = cstack'
      BY <2>4, <2>13
    <3>7. StackInv'
      BY <3>5, <3>6, <2>2, <2>6, <2>7, <2>8, <1>1, <1>2, <1>7, <1>8, StackDrop
    <3>8. L # Main => Depth > 1
      BY <2>1, <2>13, <1>4, <1>9
    <3>9. StatusInv'
      BY <3>6, <3>8, <2>11, <2>13, <1>1, <1>3, <1>6, <1>7, ReturnStatus
    <3>10. CallTypeOK'
      BY <2>10, <2>13
    <3> QED BY <3>7, <3>9, <3>10 DEF CallInv
  <2>14. CASE /\ cstack[1].kind = "resume"
              /\ cstack' = Tail(cstack) /\ UNCHANGED <<errfunc, allowhook, pc, arg>>
    <3>1. cstack[1].depth = 0 /\ ~Saves(cstack[2]) /\ L # Main
      BY <2>14, <1>4, <1>5 DEF Linked
    <3>2. frames'[L] = <<>>
      BY <3>1, <2>1, <1>4, <1>8
    <3>3. 1 \in 1 .. Len(cstack) - 1 /\ 1 + 1 = 2
      BY <1>3, <1>4
    <3>4. Waits(cstack[2], lv[2], nCcalls, allowhook, frames)
      BY <3>3, <2>14, <1>2 DEF Stands, Waiting
    <3>5. cstack[2].t # L
      BY <3>3, <2>14, <1>4, <1>6, WaitsElsewhere
    <3>6. cstack[2].t \in Threads
      BY <1>5, KindsOf
    <3>7. PICK th : th = cstack[2].t
      OBVIOUS
    <3>8. nCcalls'[th] = nCcalls[th] /\ frames'[th] = frames[th] /\ allowhook'[th] = allowhook[th]
      BY <3>5, <3>6, <3>7, <2>2, <2>14, <1>8
    <3>9. nCcalls[th] = lv[2].n /\ allowhook[th] = lv[2].hook /\ Len(frames[th]) > cstack[2].depth
      BY <3>4, <3>7 DEF Waits
    <3>10. frames[th] \in Seq(Kinds) /\ Len(frames[th]) \in Nat
      BY <3>6, <3>7, <1>1 DEF CallTypeOK
    <3>11. nCcalls'[th] >= lv[2].n /\ Len(frames'[th]) >= cstack[2].depth
      BY <3>8, <3>9, <3>10, <1>5
    <3>12. Running(ns, mv, nCcalls', allowhook', frames', pc')
      BY <3>1, <3>7, <3>8, <3>9, <3>11, <2>9 DEF Running
    <3>13. allowhook' = allowhook /\ ns = cstack'
      BY <2>4, <2>14
    <3>14. StackInv'
      BY <3>12, <3>13, <2>2, <2>6, <2>7, <2>8, <1>1, <1>2, <1>7, <1>8, StackDrop
    <3>15. L \in Coroutines
      BY <3>1, <1>4 DEF Threads
    <3>16. \A co \in Coroutines : Resumed(ns, co) <=> Resumed(cstack, co) /\ co # L
      <4>1. \A k \in 1 .. 1 - 1 : cstack[k].kind # "resume"
        OBVIOUS
      <4> QED BY <4>1, <2>6, <2>7, <2>14, <1>4, <1>6, ResumedDrop
    <3>17. Resumed(cstack, L)
      BY <2>6, <2>14, <1>4 DEF Resumed
    <3>18. thStatus'[L] = "ok"
      BY <3>15, <3>17, <1>1, <1>7 DEF StatusInv
    <3>19. \A co \in Coroutines : co # L => thStatus'[co] = thStatus[co] /\ frames'[co] = frames[co]
      BY <1>7, <1>8 DEF Threads
    <3>20. PICK l : l = L
      OBVIOUS
    <3>21. StatusInv'
      BY <3>2, <3>13, <3>15, <3>16, <3>17, <3>18, <3>19, <3>20, <1>1, <1>3, <1>7, StatusLeft
    <3>22. CallTypeOK'
      BY <2>10, <2>14, <1>3
    <3> QED BY <3>14, <3>21, <3>22 DEF CallInv
  <2>15. Len(cstack) > 1 => (IF Len(cstack) > 1 THEN cstack[2] ELSE Head(cstack)) = cstack[2]
    OBVIOUS
  <2> QED BY <2>3, <2>12, <2>13, <2>14, <2>15, <1>3, <1>4, <1>11 DEF Finished
<1> QED BY <1>10, <1>11 DEF Return

\* L->errorJmp: there is one, and only activations of the thread that fails are above it.
LEMMA Jump ==
  ASSUME CallTypeOK, NEW lv, Chain(cstack, lv), Len(cstack) > 0
  PROVE  /\ ErrorJmp \in 1 .. Len(cstack) /\ cstack[ErrorJmp].t = L
         /\ cstack[ErrorJmp].kind \in {"pcall", "resume"}
         /\ \A k \in 1 .. ErrorJmp - 1 : cstack[k].kind # "resume"
         /\ cstack[1].depth >= cstack[ErrorJmp].depth
<1> DEFINE T == {k \in DOMAIN cstack : cstack[k].t = L /\ cstack[k].kind \in {"pcall", "resume"}}
<1>1. /\ Len(cstack) \in Nat /\ DOMAIN cstack = 1 .. Len(cstack) /\ L = cstack[1].t
      /\ 1 \in 1 .. Len(cstack) /\ Len(cstack) \in 1 .. Len(cstack)
  BY CallTyped DEF CallTypeOK
<1>2. Blocks(cstack) /\ Links(cstack, lv)
  BY DEF Chain
<1>3. T # {}
  <2>1. CASE L = Main
    <3>1. cstack[Len(cstack)].t = Main /\ cstack[Len(cstack)].kind = "pcall"
      BY <1>2 DEF Links, Outermost
    <3> QED BY <2>1, <3>1, <1>1
  <2>2. CASE L # Main
    <3>1. Resumed(cstack, L)
      BY <2>2, TopResumed
    <3> QED BY <3>1, <1>1 DEF Resumed
  <2> QED BY <2>1, <2>2
<1>4. T \in SUBSET Nat
  BY <1>1
<1>5. \E k \in T : \A q \in T : k <= q
  BY <1>3, <1>4, Least
<1>6. ErrorJmp = CHOOSE x \in T : \A y \in T : x <= y
  BY DEF ErrorJmp, Min
<1>7. ErrorJmp \in T /\ \A q \in T : ErrorJmp <= q
  BY <1>5, <1>6, Zenon
<1>8. PICK e : e = ErrorJmp
  OBVIOUS
<1>9. /\ e \in 1 .. Len(cstack) /\ cstack[e].t = L /\ cstack[e].kind \in {"pcall", "resume"}
      /\ \A q \in T : e <= q
  BY <1>1, <1>7, <1>8
<1>10. ASSUME e # 1
       PROVE  cstack[1].depth >= cstack[e].depth /\ \A k \in 1 .. e : cstack[k].t = L
  <2>1. 1 < e
    BY <1>9, <1>10
  <2> QED BY <2>1, <1>1, <1>2, <1>9 DEF Blocks
<1>11. cstack[1].depth \in Nat
  BY <1>1, KindsOf, CallTyped
<1>12. ASSUME NEW k \in 1 .. e - 1, cstack[k].kind = "resume" PROVE FALSE
  <2>1. e # 1 /\ k \in 1 .. e /\ k \in 1 .. Len(cstack) /\ ~(e <= k)
    BY <1>9, <1>1
  <2>2. cstack[k].t = L
    BY <2>1, <1>10
  <2>3. k \in T
    BY <2>1, <2>2, <1>1, <1>12
  <2> QED BY <2>1, <2>3, <1>9
<1>13. cstack[1].depth >= cstack[e].depth
  BY <1>10, <1>11
<1> QED BY <1>8, <1>9, <1>12, <1>13

\* luaD_throw, and what luaD_pcall or lua_resume do when it comes to them.
LEMMA ThrowKeeps ==
  ASSUME CallInv, Throw
  PROVE  CallInv'
<1>1. CallTypeOK /\ StatusInv /\ StackInv
  BY DEF CallInv
<1>2. PICK lv \in Seq(Levels) :
        /\ Stands(cstack, lv, nCcalls, allowhook, frames, baseCcalls)
        /\ Running(cstack, lv, nCcalls, allowhook, frames, pc)
  BY <1>1 DEF StackInv
<1>3. pc = "throw" /\ Len(cstack) > 0
  BY <1>1, <1>2, CallTyped DEF Throw, Running
<1>4. /\ L \in Threads /\ Depth \in Nat /\ nCcalls[L] \in Nat /\ L = cstack[1].t
      /\ frames[L] \in Seq(Kinds) /\ Len(frames[L]) = Depth
      /\ cstack \in Seq(Activations) /\ Len(cstack) \in Nat /\ cstack[1] \in Activations
  BY <1>1, <1>3, CallTyped DEF CallTypeOK, Depth
<1>5. nCcalls[L] >= lv[1].n /\ Depth >= cstack[1].depth
  BY <1>2, <1>3, <1>4 DEF Running
<1>6. Chain(cstack, lv) /\ Blocks(cstack) /\ Len(lv) = Len(cstack)
  BY <1>2 DEF Stands, Chain
<1>7. PICK e : e = ErrorJmp
  OBVIOUS
<1>8. /\ e \in 1 .. Len(cstack) /\ cstack[e].t = L /\ cstack[e].kind \in {"pcall", "resume"}
      /\ \A k \in 1 .. e - 1 : cstack[k].kind # "resume"
      /\ cstack[1].depth >= cstack[e].depth
  BY <1>1, <1>3, <1>6, <1>7, Jump
<1>9. PICK a : a = cstack[e]
  OBVIOUS
<1>10. /\ a \in Activations /\ a.t = L /\ a.depth \in Nat /\ a.depth <= Depth
       /\ a.kind = "pcall" => a.nCcalls \in Nat /\ a.allowhook \in BOOLEAN
                               /\ a.errfunc \in {"none", "function"}
  <2>1. a \in Activations /\ a.t = L
    BY <1>4, <1>8, <1>9
  <2>2. a.depth \in Nat /\ cstack[1].depth \in Nat
    BY <2>1, <1>4, KindsOf
  <2> QED BY <2>1, <2>2, <1>4, <1>5, <1>8, <1>9, KindsOf
<1>11. PICK ns : ns = SubSeq(cstack, e + 1, Len(cstack))
  OBVIOUS
<1>12. PICK mv : mv = SubSeq(lv, e + 1, Len(lv))
  OBVIOUS
<1>13. e \in 0 .. Len(cstack) /\ e \in 0 .. Len(lv)
  BY <1>6, <1>8
<1>14. ns \in Seq(Activations) /\ Dropped(ns, cstack, e) /\ ns = cstack'
  BY <1>4, <1>7, <1>11, <1>13, Drop DEF Throw
<1>15. mv \in Seq(Levels) /\ Dropped(mv, lv, e)
  BY <1>12, <1>13, Drop
<1>16. /\ Len(ns) = Len(cstack) - e /\ Len(ns) \in Nat
       /\ Len(ns) = 0 => Outermost(a, lv[e])
       /\ Len(ns) > 0 => /\ ns[1] \in Activations /\ mv[1] \in Levels /\ ns[1] = cstack[e + 1]
                          /\ mv[1] = lv[e + 1] /\ Linked(a, lv[e], ns[1], mv[1])
  <2>1. Len(ns) = Len(cstack) - e /\ Len(cstack) - e \in Nat
    BY <1>4, <1>8, <1>14 DEF Dropped
  <2>2. /\ Len(ns) = 0 => Outermost(cstack[e], lv[e])
        /\ Len(ns) > 0 => /\ ns[1] = cstack[e + 1] /\ mv[1] = lv[e + 1]
                           /\ cstack[e + 1] \in Activations /\ lv[e + 1] \in Levels
                           /\ Linked(cstack[e], lv[e], cstack[e + 1], lv[e + 1])
    BY <1>4, <1>6, <1>8, <1>14, <1>15, Uncovered
  <2> QED BY <2>1, <2>2, <1>9
<1>17. /\ pc' = "run" /\ arg' = "none" /\ fresh' = fresh /\ baseCcalls' = baseCcalls
  BY DEF Throw
<1>18. Fed(frames)
  BY <1>1, <1>3, HasFrames
<1>19. CASE /\ a.kind = "pcall"
            /\ frames' = [frames EXCEPT ![L] = SubSeq(@, Len(@) - a.depth + 1, Len(@))]
            /\ nCcalls' = [nCcalls EXCEPT ![L] = a.nCcalls]
            /\ allowhook' = [allowhook EXCEPT ![L] = a.allowhook]
            /\ errfunc' = [errfunc EXCEPT ![L] = a.errfunc]
            /\ sizeCI' = Limited(L, a.depth)
            /\ UNCHANGED thStatus
  <2>1. PICK g : g = SubSeq(frames[L], Len(frames[L]) - a.depth + 1, Len(frames[L]))
    OBVIOUS
  <2>2. g \in Seq(Kinds) /\ Dropped(g, frames[L], Depth - a.depth)
    <3>1. Depth - a.depth \in 0 .. Len(frames[L])
      BY <1>4, <1>10
    <3> QED BY <3>1, <2>1, <1>4, Drop
  <2>3. Len(g) = a.depth /\ (a.depth = 0 => g = <<>>)
        /\ (a.depth > 0 => g # <<>> /\ g[Len(g)] = frames[L][Len(frames[L])] /\ frames[L] # <<>>)
    <3>1. Len(g) = a.depth
      BY <2>2, <1>4, <1>10 DEF Dropped
    <3>2. a.depth = 0 => g = <<>>
      BY <3>1, <2>2
    <3>3. ASSUME a.depth > 0 PROVE g # <<>> /\ g[Len(g)] = frames[L][Len(frames[L])] /\ frames[L] # <<>>
      <4>1. a.depth \in 1 .. Len(g) /\ a.depth + (Depth - a.depth) = Depth /\ Depth > 0
        BY <3>1, <3>3, <1>4, <1>10
      <4>2. g[a.depth] = frames[L][Depth]
        BY <4>1, <2>2 DEF Dropped
      <4> QED BY <4>1, <4>2, <3>1, <3>3, <1>4
    <3> QED BY <3>1, <3>2, <3>3
  <2>4. /\ frames' \in [Threads -> Seq(Kinds)] /\ frames'[L] = g
        /\ \A th \in Threads : th # L => frames'[th] = frames[th]
    BY <2>1, <2>2, <1>1, <1>4, <1>19 DEF CallTypeOK
  <2>5. /\ nCcalls' \in [Threads -> Nat] /\ nCcalls'[L] = a.nCcalls
        /\ \A th \in Threads : th # L => nCcalls'[th] = nCcalls[th]
    BY <1>1, <1>4, <1>10, <1>19 DEF CallTypeOK
  <2>6. /\ allowhook' \in [Threads -> BOOLEAN] /\ allowhook'[L] = a.allowhook
        /\ \A th \in Threads : th # L => allowhook'[th] = allowhook[th]
    BY <1>1, <1>4, <1>10, <1>19 DEF CallTypeOK
  <2>7. errfunc' \in [Threads -> {"none", "function"}]
    BY <1>1, <1>4, <1>10, <1>19 DEF CallTypeOK
  <2>8. sizeCI' \in [Threads -> Nat] /\ \A th \in Threads : sizeCI'[th] >= 2
    <3>1. MaxCalls \in Nat
      BY LuaCallAssumption
    <3>2. CASE a.depth + 1 < MaxCalls
      <4>1. MaxCalls >= 2
        BY <3>1, <3>2, <1>10
      <4> QED BY <4>1, <3>1, <1>1, <1>4, <1>19 DEF Limited, CallTypeOK
    <3>3. CASE ~(a.depth + 1 < MaxCalls)
      BY <3>3, <1>1, <1>19 DEF Limited, CallTypeOK
    <3> QED BY <3>2, <3>3
  <2>9. CallTypeOK'
    BY <2>4, <2>5, <2>6, <2>7, <2>8, <1>1, <1>14, <1>17, <1>19 DEF CallTypeOK
  <2>10. Running(ns, mv, nCcalls', allowhook', frames', "run")
    <3>1. CASE Len(ns) = 0
      <4>1. L = Main /\ a.depth = 0 /\ a.nCcalls = 0 /\ a.allowhook = TRUE
        BY <3>1, <1>10, <1>16 DEF Outermost
      <4> QED BY <4>1, <3>1, <2>3, <2>4, <2>5, <2>6 DEF Running
    <3>2. CASE Len(ns) > 0
      <4>1. /\ ns[1].t = L /\ a.nCcalls = mv[1].n /\ a.allowhook = mv[1].hook
            /\ ~Saves(ns[1]) /\ a.depth > ns[1].depth
        BY <3>2, <1>10, <1>16, <1>19 DEF Linked, Saves
      <4>2. mv[1].n \in Nat /\ ns[1].depth \in Nat
        BY <3>2, <1>16, KindsOf DEF Levels
      <4>3. Len(frames'[L]) > ns[1].depth /\ Len(frames'[L]) >= ns[1].depth
        BY <4>1, <4>2, <2>3, <2>4, <1>10
      <4>4. nCcalls'[L] >= mv[1].n
        BY <4>1, <4>2, <2>5
      <4> QED BY <4>1, <4>3, <4>4, <3>2, <2>5, <2>6 DEF Running
    <3> QED BY <3>1, <3>2, <1>16
  <2>11. StackInv'
    <3>1. Running(ns, mv, nCcalls', allowhook', frames', pc')
      BY <2>10, <1>17
    <3> QED BY <3>1, <2>4, <2>5, <2>6, <1>1, <1>2, <1>3, <1>8, <1>14, <1>15, <1>17, StackDrop
  <2>12. \A co \in Coroutines : Resumed(ns, co) <=> Resumed(cstack, co)
    BY <1>4, <1>6, <1>8, <1>9, <1>14, <1>19, ResumedDrop
  <2>13. L # Main => a.depth > 0
    BY <1>6, <1>8, <1>9, <1>19 DEF Blocks
  <2>14. ASSUME NEW co \in Coroutines
         PROVE  /\ Resumed(cstack, co) => frames'[co] # <<>>
                /\ frames'[co] = frames[co]
                     \/ (Resumed(cstack, co) /\ frames'[co][Len(frames'[co])] = "lua")
    <3>1. CASE co # L
      BY <3>1, <2>4, <1>18 DEF Fed, Threads
    <3>2. CASE co = L
      <4>1. L # Main
        BY <3>2, LuaCallAssumption
      <4>2. Resumed(cstack, L)
        BY <4>1, <1>1, <1>6, TopResumed
      <4>3. g # <<>> /\ g[Len(g)] = frames[L][Len(frames[L])] /\ frames[L] # <<>>
        BY <4>1, <2>3, <2>13
      <4>4. frames[L][Len(frames[L])] = "lua"
        BY <3>2, <4>3, <1>1 DEF StatusInv
      <4> QED BY <3>2, <4>2, <4>3, <4>4, <2>4
    <3> QED BY <3>1, <3>2
  <2>15. Fed(frames')
    BY <2>14 DEF Fed
  <2>16. StatusInv'
    BY <2>12, <2>14, <2>15, <1>1, <1>14, <1>17, <1>19, StatusKept
  <2> QED BY <2>9, <2>11, <2>16 DEF CallInv
<1>20. CASE /\ a.kind = "resume"
            /\ thStatus' = [thStatus EXCEPT ![L] = "error"]
            /\ nCcalls' = [nCcalls EXCEPT ![L] = @ - 1]
            /\ UNCHANGED <<frames, allowhook, errfunc, sizeCI>>
  <2>1. Len(ns) > 0
    BY <1>16, <1>20 DEF Outermost
  <2>2. lv[e].n = mv[1].n + 1 /\ ~Saves(ns[1]) /\ L # Main
    BY <2>1, <1>10, <1>16, <1>20 DEF Linked
  <2>3. lv[1].n \in Nat /\ lv[e].n \in Nat /\ mv[1].n \in Nat /\ ns[1].depth \in Nat
        /\ ns[1].t \in Threads
    <3>1. 1 \in 1 .. Len(lv) /\ e \in 1 .. Len(lv)
      BY <1>3, <1>4, <1>6, <1>8
    <3>2. lv[1] \in Levels /\ lv[e] \in Levels
      BY <3>1
    <3> QED BY <3>2, <2>1, <1>16, KindsOf DEF Levels
  <2>4. lv[1].n >= lv[e].n
    <3>1. 1 \in 1 .. Len(cstack) /\ (e = 1 \/ 1 < e)
      BY <1>3, <1>4, <1>8
    <3>2. 1 < e => lv[1].n >= lv[e].n
      BY <3>1, <1>6, <1>8 DEF Chain, Counts
    <3> QED BY <3>1, <3>2, <2>3
  <2>5. /\ nCcalls' \in [Threads -> Nat]
        /\ \A th \in Threads : th # L => nCcalls'[th] = nCcalls[th]
    <3>1. nCcalls[L] - 1 \in Nat
      <4>1. nCcalls[L] >= 1
        BY ONLY <2>2, <2>3, <2>4, <1>4, <1>5
      <4> QED BY ONLY <4>1, <1>4
    <3> QED BY <3>1, <1>1, <1>4, <1>20 DEF CallTypeOK
  <2>6. /\ thStatus' \in [Threads -> {"ok", "yield", "error"}] /\ thStatus'[L] = "error"
        /\ \A th \in Threads : th # L => thStatus'[th] = thStatus[th]
    BY <1>1, <1>4, <1>20 DEF CallTypeOK
  <2>7. CallTypeOK'
    BY <2>5, <2>6, <1>1, <1>14, <1>17, <1>20 DEF CallTypeOK
  <2>8. e \in 1 .. Len(cstack) - 1
    BY <2>1, <1>4, <1>8, <1>16
  <2>9. Waits(ns[1], mv[1], nCcalls, allowhook, frames)
    BY <2>1, <2>8, <1>2, <1>9, <1>16, <1>20 DEF Stands, Waiting
  <2>10. ns[1].t # L
    BY <2>1, <2>8, <1>4, <1>6, <1>9, <1>16, <1>20, WaitsElsewhere
  <2>11. PICK th : th = ns[1].t
    OBVIOUS
  <2>12. nCcalls'[th] = mv[1].n /\ allowhook[th] = mv[1].hook /\ Len(frames[th]) > ns[1].depth
    BY <2>3, <2>5, <2>9, <2>10, <2>11 DEF Waits
  <2>13. nCcalls'[th] >= mv[1].n /\ Len(frames[th]) >= ns[1].depth
    <3>1. Len(frames[th]) \in Nat
      BY <2>3, <2>11, <1>1 DEF CallTypeOK
    <3> QED BY <3>1, <2>3, <2>12
  <2>14. Running(ns, mv, nCcalls', allowhook, frames, "run")
    BY <2>1, <2>2, <2>11, <2>12, <2>13 DEF Running
  <2>15. Running(ns, mv, nCcalls', allowhook', frames', pc')
    BY <2>14, <1>17, <1>20
  <2>16. StackInv'
    BY <2>5, <2>15, <1>1, <1>2, <1>3, <1>8, <1>14, <1>15, <1>17, <1>20, StackDrop
  <2>17. L \in Coroutines
    BY <2>2, <1>4 DEF Threads
  <2>18. \A co \in Coroutines : Resumed(ns, co) <=> Resumed(cstack, co) /\ co # L
    BY <1>4, <1>6, <1>8, <1>9, <1>14, <1>20, ResumedDrop
  <2>19. Resumed(cstack, L)
    BY <1>8, <1>9, <1>20 DEF Resumed
  <2>20. \A co \in Coroutines : co # L => thStatus'[co] = thStatus[co] /\ frames'[co] = frames[co]
    BY <2>6, <1>20 DEF Threads
  <2>21. frames'[L] = frames[L] /\ pc # "precall"
    BY <1>3, <1>20
  <2>22. PICK l : l = L
    OBVIOUS
  <2>23. StatusInv'
    BY <2>6, <2>17, <2>18, <2>19, <2>20, <2>21, <2>22, <1>1, <1>14, <1>17, StatusLeft
  <2> QED BY <2>7, <2>16, <2>23 DEF CallInv
<1> QED BY <1>7, <1>9, <1>19, <1>20 DEF Throw

\* lua_yield, which leaves the stack only from the function that was resumed.
LEMMA YieldKeeps ==
  ASSUME CallInv, Yield
  PROVE  CallInv'
<1>1. CallTypeOK /\ StatusInv /\ StackInv
  BY DEF CallInv
<1>2. PICK lv \in Seq(Levels) :
        /\ Stands(cstack, lv, nCcalls, allowhook, frames, baseCcalls)
        /\ Running(cstack, lv, nCcalls, allowhook, frames, pc)
  BY <1>1 DEF StackInv
<1>3. pc = "run" /\ Depth > 0 /\ Len(cstack) > 1 /\ Depth > cstack[1].depth /\ Head(frames[L]) = "C"
  BY <1>1, <1>2, Runner DEF Yield, Runs
<1>4. /\ L \in Threads /\ Depth \in Nat /\ nCcalls[L] \in Nat /\ L = cstack[1].t
      /\ frames[L] \in Seq(Kinds) /\ Len(frames[L]) = Depth
      /\ cstack \in Seq(Activations) /\ Len(cstack) \in Nat /\ Len(cstack) > 0
  BY <1>1, <1>3, CallTyped DEF CallTypeOK, Depth
<1>5. /\ nCcalls[L] = lv[1].n /\ lv[1].n \in Nat /\ lv[2].n \in Nat /\ lv[1].n > lv[2].n
      /\ Recurses(cstack[1]) /\ Linked(cstack[1], lv[1], cstack[2], lv[2])
      /\ cstack[2] \in Activations /\ Len(lv) = Len(cstack)
      /\ cstack[2].depth \in Nat /\ cstack[2].t \in Threads
  BY <1>1, <1>2, <1>3, <1>4, RunsAbove, KindsOf
<1>6. Chain(cstack, lv) /\ Blocks(cstack) /\ Bases(cstack, lv, baseCcalls)
  BY <1>2 DEF Stands, Chain
<1>7. /\ frames' = frames /\ sizeCI' = sizeCI /\ fresh' = fresh /\ baseCcalls' = baseCcalls
      /\ allowhook' = allowhook /\ errfunc' = errfunc /\ arg' = arg
  BY DEF Yield
<1>8. CASE nCcalls[L] > baseCcalls[L]
  <2>1. pc' = "error" /\ thStatus' = thStatus /\ nCcalls' = nCcalls /\ cstack' = cstack
    BY <1>8 DEF Yield
  <2>2. CallTypeOK'
    BY <2>1, <1>1, <1>7 DEF CallTypeOK
  <2>3. Running(cstack, lv, nCcalls', allowhook', frames', pc')
    BY <2>1, <1>2, <1>3, <1>7 DEF Running
  <2>4. StackInv'
    BY <2>1, <2>3, <1>1, <1>2, <1>7, StackSame
  <2>5. Fed(frames')
    BY <1>1, <1>3, <1>7, HasFrames
  <2>6. StatusInv'
    BY <2>1, <2>5, <1>1, <1>7, StatusKept
  <2> QED BY <2>2, <2>4, <2>6 DEF CallInv
<1>9. CASE ~(nCcalls[L] > baseCcalls[L])
  <2>1. /\ thStatus' = [thStatus EXCEPT ![L] = "yield"] /\ pc' = pc
        /\ cstack' = Tail(cstack) /\ nCcalls' = [nCcalls EXCEPT ![L] = @ - 1]
    BY <1>9 DEF Yield
  <2>2. L # Main
    BY <1>5, <1>6, <1>9 DEF Bases
  <2>3. cstack[1].kind = "resume"
    <3>1. Resumed(cstack, L)
      BY <2>2, <1>1, <1>6, TopResumed
    <3>2. PICK q \in 1 .. Len(cstack) : cstack[q].kind = "resume" /\ cstack[q].t = L
      BY <3>1 DEF Resumed
    <3>3. lv[q].n = baseCcalls[L]
      BY <3>2, <1>6 DEF Bases
    <3>4. ~(lv[1].n > lv[q].n)
      BY <3>3, <1>5, <1>9
    <3>5. ~(1 < q)
      BY <3>2, <3>4, <1>4, <1>5, <1>6 DEF Chain, Counts
    <3>6. q = 1
      BY <3>5
    <3> QED BY <3>2, <3>6
  <2>4. /\ nCcalls' \in [Threads -> Nat]
        /\ \A th \in Threads : th # L => nCcalls'[th] = nCcalls[th]
    <3>1. nCcalls[L] - 1 \in Nat
      BY <1>5
    <3> QED BY <3>1, <2>1, <1>1, <1>4 DEF CallTypeOK
  <2>5. /\ thStatus' \in [Threads -> {"ok", "yield", "error"}] /\ thStatus'[L] = "yield"
        /\ \A th \in Threads : th # L => thStatus'[th] = thStatus[th]
    BY <2>1, <1>1, <1>4 DEF CallTypeOK
  <2>6. PICK ns : ns = Tail(cstack)
    OBVIOUS
  <2>7. PICK mv : mv = Tail(lv)
    OBVIOUS
  <2>8. ns \in Seq(Activations) /\ Dropped(ns, cstack, 1) /\ ns = cstack'
    BY <2>1, <2>6, <1>4, DropFirst
  <2>9. mv \in Seq(Levels) /\ Dropped(mv, lv, 1)
    BY <2>7, <1>4, <1>5, DropFirst
  <2>10. 1 \in 1 .. Len(cstack) /\ 1 \in 1 .. Len(cstack) - 1 /\ 1 + 1 = 2
    BY <1>3, <1>4
  <2>11. Len(ns) > 0 /\ ns[1] = cstack[2] /\ mv[1] = lv[2]
    <3>1. Len(ns) = Len(cstack) - 1 /\ (Len(ns) > 0 => ns[1] = cstack[2] /\ mv[1] = lv[2])
      BY <2>8, <2>9, <2>10, <1>4, <1>6, Uncovered
    <3> QED BY <3>1, <1>3, <1>4
  <2>12. CallTypeOK'
    BY <2>1, <2>4, <2>5, <2>8, <1>1, <1>7 DEF CallTypeOK
  <2>13. ~Saves(cstack[2])
    BY <2>3, <1>5 DEF Linked
  <2>14. Waits(cstack[2], lv[2], nCcalls, allowhook, frames)
    BY <2>3, <2>10, <1>2 DEF Stands, Waiting
  <2>15. cstack[2].t # L
    BY <2>3, <2>10, <1>4, <1>6, WaitsElsewhere
  <2>16. PICK th : th = cstack[2].t
    OBVIOUS
  <2>17. nCcalls'[th] = lv[2].n /\ allowhook[th] = lv[2].hook /\ Len(frames[th]) > cstack[2].depth
    BY <2>4, <2>14, <2>15, <2>16, <1>5 DEF Waits
  <2>18. nCcalls'[th] >= lv[2].n /\ Len(frames[th]) >= cstack[2].depth
    <3>1. Len(frames[th]) \in Nat
      BY <2>16, <1>1, <1>5 DEF CallTypeOK
    <3> QED BY <3>1, <2>17, <1>5
  <2>19. Running(ns, mv, nCcalls', allowhook, frames, "run")
    BY <2>11, <2>13, <2>16, <2>17, <2>18 DEF Running
  <2>20. Running(ns, mv, nCcalls', allowhook', frames', pc')
    BY <2>1, <2>19, <1>3, <1>7
  <2>21. StackInv'
    BY <2>4, <2>8, <2>9, <2>10, <2>20, <1>1, <1>2, <1>4, <1>7, StackDrop
  <2>22. L \in Coroutines
    BY <2>2, <1>4 DEF Threads
  <2>23. \A co \in Coroutines : Resumed(ns, co) <=> Resumed(cstack, co) /\ co # L
    <3>1. \A k \in 1 .. 1 - 1 : cstack[k].kind # "resume"
      OBVIOUS
    <3> QED BY <3>1, <2>3, <2>8, <2>10, <1>4, <1>6, ResumedDrop
  <2>24. Resumed(cstack, L)
    BY <2>3, <2>10, <1>4 DEF Resumed
  <2>25. \A co \in Coroutines : co # L => thStatus'[co] = thStatus[co] /\ frames'[co] = frames[co]
    BY <2>5, <1>7 DEF Threads
  <2>26. Len(frames[L]) >= 2
    <3>1. frames[L] # <<>> /\ Head(frames[L]) = frames[L][1]
      BY <1>3, <1>4
    <3>2. frames[L][Len(frames[L])] = "lua"
      BY <3>1, <2>22, <1>1 DEF StatusInv
    <3>3. Len(frames[L]) # 1
      BY <3>1, <3>2, <1>3
    <3> QED BY <3>3, <1>3, <1>4
  <2>27. PICK l : l = L
    OBVIOUS
  <2>28. pc # "precall" /\ frames'[L] = frames[L]
    BY <1>3, <1>7
  <2>29. StatusInv'
    BY <2>5, <2>8, <2>22, <2>23, <2>24, <2>25, <2>26, <2>27, <2>28, <1>1, <1>7, StatusLeft
  <2> QED BY <2>12, <2>21, <2>29 DEF CallInv
<1> QED BY <1>8, <1>9

LEMMA StandsBase ==
  ASSUME NEW cs, NEW lv, NEW nc, NEW ah, NEW fr, NEW base, Stands(cs, lv, nc, ah, fr, base),
         NEW base2, base2[Main] = base[Main],
         \A k \in 1 .. Len(cs) : cs[k].kind = "resume" => base2[cs[k].t] = base[cs[k].t]
  PROVE  Stands(cs, lv, nc, ah, fr, base2)
BY DEF Stands, Bases

\* lua_resume.
LEMMA ResumeKeeps ==
  ASSUME CallInv, NEW co \in Coroutines, Resume(co)
  PROVE  CallInv'
<1>1. CallTypeOK /\ StatusInv /\ StackInv
  BY DEF CallInv
<1>2. PICK lv \in Seq(Levels) :
        /\ Stands(cstack, lv, nCcalls, allowhook, frames, baseCcalls)
        /\ Running(cstack, lv, nCcalls, allowhook, frames, pc)
  BY <1>1 DEF StackInv
<1>3. pc = "run" /\ Depth > 0 /\ Len(cstack) > 1 /\ Depth > cstack[1].depth
  BY <1>1, <1>2, Runner DEF Resume
<1>4. /\ L \in Threads /\ Depth \in Nat /\ nCcalls[L] \in Nat /\ L = cstack[1].t
      /\ cstack \in Seq(Activations) /\ Len(cstack) \in Nat /\ Len(cstack) > 0
      /\ 1 \in 1 .. Len(cstack)
  BY <1>1, <1>3, CallTyped DEF CallTypeOK
<1>5. /\ nCcalls[L] = lv[1].n /\ allowhook[L] = lv[1].hook /\ ~Saves(cstack[1])
      /\ Len(lv) = Len(cstack) /\ cstack[1].depth \in Nat
  BY <1>1, <1>2, <1>3, <1>4, RunsAbove, KindsOf
<1>6. Chain(cstack, lv) /\ Blocks(cstack)
  BY <1>2 DEF Stands, Chain
<1>7. co \in Threads /\ co # Main
  BY LuaCallAssumption DEF Threads
<1>8. /\ co # L /\ ~Resumed(cstack, co)
      /\ co \notin fresh => thStatus[co] = "yield" /\ Len(frames[co]) >= 2
      /\ co \in fresh => frames[co] = <<>>
  <2>1. CoStatus(co) = "suspended"
    BY DEF Resume
  <2>2. co # L /\ (thStatus[co] = "yield" \/ (thStatus[co] # "error" /\ co \in fresh))
    BY <2>1 DEF CoStatus
  <2>3. ~Resumed(cstack, co)
    BY <2>2, <1>1 DEF StatusInv
  <2> QED BY <2>2, <2>3, <1>1 DEF StatusInv
<1>9. \A k \in 1 .. Len(cstack) : cstack[k].t # co
  <2>1. SUFFICES ASSUME NEW k \in 1 .. Len(cstack), cstack[k].t = co PROVE FALSE
    OBVIOUS
  <2>2. PICK q \in k .. Len(cstack) : cstack[q].kind = "resume" /\ cstack[q].t = co
    BY <2>1, <1>6, <1>7 DEF Blocks
  <2>3. q \in 1 .. Len(cstack)
    BY <1>4
  <2> QED BY <2>2, <2>3, <1>8 DEF Resumed
<1>10. /\ frames[co] \in Seq(Kinds) /\ allowhook[co] \in BOOLEAN
       /\ sizeCI' = sizeCI /\ allowhook' = allowhook /\ errfunc' = errfunc
  BY <1>1, <1>7 DEF CallTypeOK, Resume
<1>11. Fed(frames)
  BY <1>1, <1>3, HasFrames
<1>12. CASE Level(co) >= MaxCCalls
  <2>1. nCcalls' = [nCcalls EXCEPT ![co] = nCcalls[L]]
        /\ UNCHANGED <<frames, thStatus, fresh, baseCcalls, cstack, pc, arg>>
    BY <1>12 DEF Resume, Level
  <2>2. PICK nc : nc = nCcalls'
    OBVIOUS
  <2>3. /\ nc \in [Threads -> Nat] /\ nc[L] = nCcalls[L]
        /\ \A th \in Threads : th # co => nc[th] = nCcalls[th]
    BY <2>1, <2>2, <1>1, <1>4, <1>7, <1>8 DEF CallTypeOK
  <2>4. Elsewhere(cstack, nCcalls, allowhook, frames, nc, allowhook, frames)
    BY <2>3, <1>4, <1>9, KindsOf DEF Elsewhere
  <2>5. Stands(cstack, lv, nc, allowhook, frames, baseCcalls)
    BY <2>4, <1>2, <1>4, StandsElsewhere
  <2>6. Running(cstack, lv, nc, allowhook, frames, pc)
    BY <2>3, <1>2, <1>4 DEF Running
  <2>7. StackInv'
    BY <2>1, <2>2, <2>5, <2>6, <1>10, StackNext
  <2>8. CallTypeOK'
    BY <2>1, <2>2, <2>3, <1>1, <1>10 DEF CallTypeOK
  <2>9. Fed(frames')
    BY <2>1, <1>11
  <2>10. StatusInv'
    BY <2>1, <2>9, <1>1, StatusKept
  <2> QED BY <2>7, <2>8, <2>10 DEF CallInv
<1>13. CASE ~(Level(co) >= MaxCCalls)
  <2>1. PICK n : n = nCcalls[L] + 1
    OBVIOUS
  <2>2. n \in Nat /\ n < MaxCCalls + ExtraCCalls /\ n = lv[1].n + 1
    <3>1. nCcalls[L] < MaxCCalls
      BY <1>4, <1>13, LuaCallAssumption DEF Level
    <3> QED BY <3>1, <2>1, <1>4, <1>5, LuaCallAssumption
  <2>3. /\ nCcalls' = [nCcalls EXCEPT ![co] = n] /\ baseCcalls' = [baseCcalls EXCEPT ![co] = n]
        /\ cstack' = <<[kind |-> "resume", t |-> co, depth |-> 0]>> \o cstack
        /\ fresh' = fresh \ {co} /\ thStatus' = [thStatus EXCEPT ![co] = "ok"]
        /\ IF co \in fresh
           THEN pc' = "precall" /\ arg' = "lua" /\ frames' = frames
           ELSE frames' = [frames EXCEPT ![co] = Tail(@)] /\ pc' = pc /\ arg' = arg
    BY <2>1, <1>13 DEF Resume, Level
  <2>4. PICK nc : nc = nCcalls'
    OBVIOUS
  <2>5. /\ nc \in [Threads -> Nat] /\ nc[co] = n
        /\ \A th \in Threads : th # co => nc[th] = nCcalls[th]
    BY <2>2, <2>3, <2>4, <1>1, <1>7 DEF CallTypeOK
  <2>6. PICK base : base = baseCcalls'
    OBVIOUS
  <2>7. /\ base \in [Threads -> Nat] /\ base[co] = n
        /\ \A th \in Threads : th # co => base[th] = baseCcalls[th]
    BY <2>2, <2>3, <2>6, <1>1, <1>7 DEF CallTypeOK
  <2>8. PICK fr : fr = frames'
    OBVIOUS
  <2>9. /\ fr \in [Threads -> Seq(Kinds)]
        /\ \A th \in Threads : th # co => fr[th] = frames[th]
        /\ co \in fresh => fr[co] = <<>>
        /\ co \notin fresh => Len(fr[co]) > 0 /\ fr[co][Len(fr[co])] = frames[co][Len(frames[co])]
    <3>1. CASE co \in fresh
      BY <3>1, <2>3, <2>8, <1>1, <1>8 DEF CallTypeOK
    <3>2. CASE co \notin fresh
      <4>1. PICK fl : fl = Tail(frames[co])
        OBVIOUS
      <4>2. Len(frames[co]) >= 2
        BY <3>2, <1>8
      <4>3. fl \in Seq(Kinds) /\ Len(fl) > 0 /\ fl[Len(fl)] = frames[co][Len(frames[co])]
        BY <4>1, <4>2, <1>10
      <4>4. frames' = [frames EXCEPT ![co] = fl]
        BY <3>2, <4>1, <2>3
      <4> QED BY <3>2, <4>3, <4>4, <2>8, <1>1, <1>7 DEF CallTypeOK
    <3> QED BY <3>1, <3>2
  <2>10. thStatus' \in [Threads -> {"ok", "yield", "error"}] /\ thStatus'[co] = "ok"
         /\ \A th \in Threads : th # co => thStatus'[th] = thStatus[th]
    BY <2>3, <1>1, <1>7 DEF CallTypeOK
  <2>11. PICK a : a = [kind |-> "resume", t |-> co, depth |-> 0]
    OBVIOUS
  <2>12. a \in Activations /\ a.kind = "resume" /\ a.t = co /\ a.depth = 0
    BY <2>11, <1>7 DEF Activations, Calls
  <2>13. PICK x : x = [n |-> n, hook |-> allowhook[co]]
    OBVIOUS
  <2>14. x \in Levels /\ x.n = n /\ x.hook = allowhook[co]
    BY <2>2, <2>13, <1>10 DEF Levels
  <2>15. Fits(a, x, cstack, lv)
    <3>1. Linked(a, x, cstack[1], lv[1])
      <4>1. ~Saves(a)
        BY <2>12 DEF Saves
      <4> QED BY <4>1, <2>2, <2>12, <2>14, <1>5, <1>7 DEF Linked
    <3> QED BY <3>1, <2>2, <2>12, <2>14, <1>4, <1>9 DEF Fits
  <2>16. \A k \in 1 .. Len(cstack) : cstack[k].t \in Threads /\ cstack[k].t # co
    BY <1>4, <1>9, KindsOf
  <2>17. Elsewhere(cstack, nCcalls, allowhook, frames, nc, allowhook, fr)
    BY <2>5, <2>9, <2>16 DEF Elsewhere
  <2>18. Stands(cstack, lv, nc, allowhook, fr, baseCcalls)
    BY <2>17, <1>2, <1>4, StandsElsewhere
  <2>19. Stands(cstack, lv, nc, allowhook, fr, base)
    <3>1. base[Main] = baseCcalls[Main]
      BY <2>7, <1>7 DEF Threads
    <3>2. \A k \in 1 .. Len(cstack) : base[cstack[k].t] = baseCcalls[cstack[k].t]
      BY <2>7, <2>16
    <3> QED BY <3>1, <3>2, <2>18, StandsBase
  <2>20. Waits(cstack[1], lv[1], nc, allowhook, fr)
    <3>1. nc[L] = nCcalls[L] /\ fr[L] = frames[L]
      BY <2>5, <2>9, <1>4, <1>8
    <3> QED BY <3>1, <1>3, <1>4, <1>5 DEF Waits, Depth
  <2>21. PICK ns : ns = <<a>> \o cstack
    OBVIOUS
  <2>22. PICK mv : mv = <<x>> \o lv
    OBVIOUS
  <2>23. ns \in Seq(Activations) /\ Pushed(ns, a, cstack) /\ ns = cstack'
    BY <2>3, <2>11, <2>12, <2>21, <1>4, Push
  <2>24. mv \in Seq(Levels) /\ Pushed(mv, x, lv)
    BY <2>14, <2>22, Push
  <2>25. x.n = base[a.t]
    BY <2>7, <2>12, <2>14
  <2>26. Stands(ns, mv, nc, allowhook, fr, base)
    BY <2>12, <2>14, <2>15, <2>19, <2>20, <2>23, <2>24, <2>25, <1>4, StandsPush
  <2>27. ns[1] = a /\ mv[1] = x /\ Len(ns) > 0
    BY <2>23, <2>24, <1>4 DEF Pushed
  <2>28. PICK at : at = pc'
    OBVIOUS
  <2>29. Running(ns, mv, nc, allowhook, fr, at)
    <3>1. nc[co] = x.n /\ nc[co] >= x.n /\ allowhook[co] = x.hook /\ ~Saves(a)
      BY <2>2, <2>5, <2>12, <2>14 DEF Saves
    <3>2. Len(fr[co]) \in Nat
      BY <2>9, <1>7
    <3>3. Len(fr[co]) >= 0 /\ (at = "run" => Len(fr[co]) > 0)
      BY <3>2, <2>3, <2>9, <2>28
    <3> QED BY <3>1, <3>3, <2>12, <2>27 DEF Running
  <2>30. StackInv'
    BY <2>4, <2>6, <2>8, <2>23, <2>24, <2>26, <2>28, <2>29, <1>10, StackNext
  <2>31. CallTypeOK'
    <3>1. pc' \in {"run", "precall"} /\ (pc' = "precall" => arg' \in Kinds)
      BY <2>3, <1>3 DEF Kinds
    <3>2. fresh' \subseteq Coroutines
      BY <2>3, <1>1 DEF CallTypeOK
    <3> QED BY <3>1, <3>2, <2>4, <2>5, <2>6, <2>7, <2>8, <2>9, <2>10, <2>23, <1>1, <1>10 DEF CallTypeOK
  <2>32. L' = co
    <3>1. ns # <<>> /\ Head(ns) = a
      BY <2>23, <2>27
    <3> QED BY <3>1, <2>12, <2>23 DEF L
  <2>33. ASSUME NEW o \in Coroutines
         PROVE  /\ Resumed(ns, o) => thStatus'[o] = "ok" /\ o \notin fresh'
                /\ thStatus'[o] = "ok" /\ ~Resumed(ns, o) => fr[o] = <<>>
                /\ thStatus'[o] = "yield" => Len(fr[o]) >= 2
                /\ fr[o] # <<>> => fr[o][Len(fr[o])] = "lua"
                /\ fr[o] = <<>> /\ Resumed(ns, o) => L' = o /\ pc' = "precall" /\ arg' = "lua"
                /\ o \in fresh' => thStatus'[o] = "ok"
    <3>1. Resumed(ns, o) <=> Resumed(cstack, o) \/ co = o
      BY <2>12, <2>23, <1>4, ResumedPush
    <3>2. CASE o = co
      <4>1. co \notin fresh => frames[co] # <<>>
        BY <1>8, <1>10
      <4>2. fr[co] # <<>> => fr[co][Len(fr[co])] = "lua"
        BY <4>1, <2>9, <1>1 DEF StatusInv
      <4>3. fr[co] = <<>> => co \in fresh
        BY <2>9
      <4> QED BY <3>1, <3>2, <4>2, <4>3, <2>3, <2>10, <2>32
    <3>3. CASE o # co
      <4>1. o \in Threads
        BY DEF Threads
      <4>2. fr[o] = frames[o] /\ thStatus'[o] = thStatus[o] /\ (o \in fresh' <=> o \in fresh)
        BY <3>3, <4>1, <2>3, <2>9, <2>10
      <4>3. Resumed(cstack, o) => frames[o] # <<>>
        BY <1>11 DEF Fed
      <4> QED BY <3>1, <3>3, <4>2, <4>3, <1>1 DEF StatusInv
    <3> QED BY <3>2, <3>3
  <2>34. StatusInv'
    BY <2>8, <2>23, <2>33 DEF StatusInv
  <2> QED BY <2>30, <2>31, <2>34 DEF CallInv
<1> QED BY <1>12, <1>13

-----------------------------------------------------------------------------
(* The theorems.                                                            *)

LEMMA CallInitInv == CallInit => CallInv
<1>1. SUFFICES ASSUME CallInit PROVE CallInv
  OBVIOUS
<1>2. CallTypeOK
  <2>1. BasicCI \in Nat /\ BasicCI >= 2
    BY LuaCallAssumption
  <2> QED BY <2>1, <1>1 DEF CallInit, CallTypeOK
<1>3. PICK lv : lv = <<>>
  OBVIOUS
<1>4. lv \in Seq(Levels) /\ Len(lv) = 0 /\ cstack = <<>> /\ Len(cstack) = 0 /\ Main \in Threads
  BY <1>1, <1>3 DEF CallInit, Threads
<1>5. Chain(cstack, lv)
  BY <1>4 DEF Chain, Links, Counts, Blocks
<1>6. Stands(cstack, lv, nCcalls, allowhook, frames, baseCcalls)
  BY <1>1, <1>4, <1>5 DEF CallInit, Stands, Waiting, Bases
<1>7. Running(cstack, lv, nCcalls, allowhook, frames, pc)
  BY <1>1, <1>4 DEF CallInit, Running
<1>8. StackInv
  BY <1>4, <1>6, <1>7 DEF StackInv
<1>9. \A co \in Coroutines : ~Resumed(cstack, co) /\ thStatus[co] = "ok" /\ frames[co] = <<>>
  BY <1>1, <1>4 DEF CallInit, Resumed, Threads
<1>10. StatusInv
  BY <1>9 DEF StatusInv
<1> QED BY <1>2, <1>8, <1>10 DEF CallInv

LEMMA CallStepInv == CallInv /\ [CallNext]_callVars => CallInv'
<1>1. SUFFICES ASSUME CallInv, [CallNext]_callVars PROVE CallInv'
  OBVIOUS
<1>2. CASE UNCHANGED callVars
  <2>1. CallTypeOK'
    BY <1>1, <1>2 DEF CallInv, CallTypeOK, callVars
  <2>2. StackInv'
    BY <1>1, <1>2 DEF CallInv, StackInv, callVars
  <2>3. StatusInv'
    <3>1. L' = L
      BY <1>2 DEF L, callVars
    <3> QED BY <3>1, <1>1, <1>2 DEF CallInv, StatusInv, callVars
  <2> QED BY <2>1, <2>2, <2>3 DEF CallInv
<1>3. ASSUME NEW f \in {"lua", "C"},
             VMCall(f) \/ ApiCall(f) \/ Hook(f) \/ \E ef \in {"none", "function"} : PCall(f, ef)
      PROVE  CallInv'
  <2>1. f \in Kinds
    BY DEF Kinds
  <2> QED BY <2>1, <1>1, <1>3, VMCallKeeps, ApiCallKeeps, HookKeeps, PCallKeeps
<1>4. CASE Precall
  BY <1>1, <1>4, PrecallKeeps
<1>5. CASE Return
  BY <1>1, <1>5, ReturnKeeps
<1>6. CASE Fail
  BY <1>1, <1>6, FailKeeps
<1>7. CASE ErrorMsg
  BY <1>1, <1>7, ErrorMsgKeeps
<1>8. CASE Throw
  BY <1>1, <1>8, ThrowKeeps
<1>9. CASE Yield
  BY <1>1, <1>9, YieldKeeps
<1>10. ASSUME NEW co \in Coroutines, Resume(co) PROVE CallInv'
  BY <1>1, <1>10, ResumeKeeps
<1> QED BY <1>1, <1>2, <1>3, <1>4, <1>5, <1>6, <1>7, <1>8, <1>9, <1>10 DEF CallNext

\* The types of the call infos and threads, the links of the C stack and the statuses of the
\* coroutines are as the invariant says, in every state.
THEOREM CallsStayLinked == CallSpec => []CallInv
BY CallInitInv, CallStepInv, PTL DEF CallSpec

\* The C stack is bounded, all threads together (luaD_call, lua_setlevel): every activation
\* that recurses in C runs with a higher count than those below it.
THEOREM StackBounded == CallSpec => []CStackBounded
<1>1. CallInv => CStackBounded
  <2>1. SUFFICES ASSUME CallInv PROVE CStackBounded
    OBVIOUS
  <2>2. CallTypeOK /\ StackInv
    BY <2>1 DEF CallInv
  <2>3. PICK lv \in Seq(Levels) : Stands(cstack, lv, nCcalls, allowhook, frames, baseCcalls)
    BY <2>2 DEF StackInv
  <2>4. PICK R : R = {i \in DOMAIN cstack : cstack[i].kind \in {"call", "handler", "resume"}}
    OBVIOUS
  <2>5. /\ Chain(cstack, lv) /\ Len(lv) = Len(cstack) /\ Len(cstack) \in Nat
        /\ DOMAIN cstack = 1 .. Len(cstack) /\ (\A k \in 1 .. Len(cstack) : lv[k].n \in Nat)
    <3>1. Chain(cstack, lv) /\ Len(lv) = Len(cstack) /\ Len(cstack) \in Nat
      BY <2>2, <2>3, CallTyped DEF Stands, Chain
    <3>2. \A k \in 1 .. Len(cstack) : lv[k] \in Levels
      BY <3>1
    <3> QED BY <3>1, <3>2, <2>2 DEF CallTypeOK, Levels
  <2>6. \A i \in R : i \in 1 .. Len(cstack) /\ Recurses(cstack[i])
    BY <2>4, <2>5 DEF Recurses
  <2>7. CASE R = {}
    <3>1. Cardinality(R) = 0
      BY <2>7, FS_EmptySet
    <3> QED BY <3>1, <2>4, LuaCallAssumption DEF CStackBounded
  <2>8. CASE R # {}
    <3>1. PICK n : n = lv[1].n
      OBVIOUS
    <3>2. Len(cstack) > 0 /\ 1 \in 1 .. Len(cstack)
      BY <2>5, <2>6, <2>8
    <3>3. n \in Nat /\ n < MaxCCalls + ExtraCCalls
      BY <3>1, <3>2, <2>5 DEF Chain, Counts
    <3>4. ASSUME NEW i \in R PROVE lv[i].n \in 1 .. n
      <4>1. i \in 1 .. Len(cstack) /\ Recurses(cstack[i])
        BY <2>6
      <4>2. cstack[Len(cstack)].kind = "pcall" /\ lv[Len(cstack)].n = 0
        BY <3>2, <2>5 DEF Chain, Links, Outermost
      <4>3. i < Len(cstack)
        BY <4>1, <4>2, <2>5 DEF Recurses
      <4>4. lv[i].n > lv[Len(cstack)].n
        BY <4>1, <4>3, <2>5 DEF Chain, Counts
      <4>5. i = 1 \/ lv[1].n >= lv[i].n
        BY <4>1, <3>2, <2>5 DEF Chain, Counts
      <4> QED BY <4>1, <4>2, <4>4, <4>5, <3>1, <3>3, <2>5
    <3>5. \A i, j \in R : lv[i].n = lv[j].n => i = j
      <4>1. SUFFICES ASSUME NEW i \in R, NEW j \in R, i < j PROVE lv[i].n > lv[j].n
        BY <3>4, <2>6
      <4> QED BY <4>1, <2>5, <2>6 DEF Chain, Counts
    <3>6. PICK g : g = [i \in R |-> lv[i].n]
      OBVIOUS
    <3>7. g \in Injection(R, 1 .. n)
      BY <3>4, <3>5, <3>6 DEF Injection, IsInjective
    <3>8. IsFiniteSet(1 .. n) /\ Cardinality(1 .. n) = n
      BY <3>3, FS_Interval
    <3>9. IsFiniteSet(R) /\ Cardinality(R) <= Cardinality(1 .. n)
      BY <3>7, <3>8, FS_Injection
    <3>10. Cardinality(R) \in Nat
      BY <3>9, FS_CardinalityType
    <3>11. Cardinality(R) < MaxCCalls + ExtraCCalls
      BY <3>3, <3>8, <3>9, <3>10, LuaCallAssumption
    <3> QED BY <3>11, <2>4 DEF CStackBounded
  <2> QED BY <2>7, <2>8
<1> QED BY <1>1, CallsStayLinked, PTL

\* coroutine.status tells the truth: a coroutine waits on the C stack once, and running and
\* normal are said of those that do, and of no other (costatus).
THEOREM StatusTold == CallSpec => []StatusTrue
<1>1. CallInv => StatusTrue
  <2>1. SUFFICES ASSUME CallInv, NEW co \in Coroutines,
                        NEW R, R = {i \in DOMAIN cstack : cstack[i].kind = "resume" /\ cstack[i].t = co}
                 PROVE  Cardinality(R) <= 1 /\ (CoStatus(co) \in {"running", "normal"} <=> R # {})
    BY DEF StatusTrue
  <2>2. CallTypeOK /\ StackInv /\ StatusInv
    BY <2>1 DEF CallInv
  <2>3. PICK lv \in Seq(Levels) : Stands(cstack, lv, nCcalls, allowhook, frames, baseCcalls)
    BY <2>2 DEF StackInv
  <2>4. Chain(cstack, lv) /\ Blocks(cstack) /\ Len(cstack) \in Nat /\ DOMAIN cstack = 1 .. Len(cstack)
    BY <2>2, <2>3, CallTyped DEF Stands, Chain, CallTypeOK
  <2>5. Resumed(cstack, co) <=> R # {}
    BY <2>1, <2>4 DEF Resumed
  <2>6. co \in Threads /\ co # Main
    BY LuaCallAssumption DEF Threads
  <2>7. Cardinality(R) <= 1
    <3>1. \A i, j \in R : i = j
      <4>1. \A i \in R : i \in 1 .. Len(cstack) /\ cstack[i].kind = "resume" /\ cstack[i].t = co
        BY <2>1, <2>4
      <4>2. \A i, j \in R : ~(i < j)
        BY <4>1, <2>4 DEF Blocks
      <4>3. \A i, j \in R : i \in Nat /\ j \in Nat /\ ~(i < j) /\ ~(j < i)
        BY <4>1, <4>2, <2>4
      <4> QED BY <4>3
    <3>2. CASE R = {}
      <4>1. Cardinality(R) = 0
        BY <3>2, FS_EmptySet
      <4> QED BY <4>1
    <3>3. CASE R # {}
      <4>1. PICK i : R = {i}
        BY <3>1, <3>3
      <4>2. Cardinality(R) = 1
        BY <4>1, FS_Singleton
      <4> QED BY <4>2
    <3> QED BY <3>2, <3>3
  <2>8. ASSUME Resumed(cstack, co) PROVE CoStatus(co) \in {"running", "normal"}
    <3>1. thStatus[co] = "ok" /\ (frames[co] # <<>> \/ co = L)
      BY <2>2, <2>8 DEF StatusInv
    <3> QED BY <3>1 DEF CoStatus
  <2>9. ASSUME CoStatus(co) \in {"running", "normal"} PROVE Resumed(cstack, co)
    <3>1. CASE co = L
      BY <3>1, <2>2, <2>4, <2>6, TopResumed
    <3>2. CASE co # L
      <4>1. thStatus[co] # "yield" /\ thStatus[co] # "error" /\ frames[co] # <<>>
        BY <3>2, <2>9 DEF CoStatus
      <4>2. thStatus[co] = "ok"
        BY <4>1, <2>2, <2>6 DEF CallTypeOK
      <4> QED BY <4>1, <4>2, <2>2 DEF StatusInv
    <3> QED BY <3>1, <3>2
  <2> QED BY <2>5, <2>7, <2>8, <2>9
<1> QED BY <1>1, CallsStayLinked, PTL

-----------------------------------------------------------------------------
(* Protected calls.                                                         *)

\* What an activation of luaD_pcall has saved is what it runs with.
LEMMA SavedLevel ==
  ASSUME NEW cs \in Seq(Activations), NEW lv, Chain(cs, lv),
         NEW d \in 1 .. Len(cs), cs[d].kind = "pcall"
  PROVE  cs[d].nCcalls = lv[d].n /\ cs[d].allowhook = lv[d].hook
<1>1. Len(cs) \in Nat /\ Links(cs, lv)
  BY DEF Chain
<1>2. CASE d = Len(cs)
  <2>1. Len(cs) > 0
    BY <1>1, <1>2
  <2>2. Outermost(cs[Len(cs)], lv[Len(cs)])
    BY <2>1, <1>1 DEF Links
  <2> QED BY <2>2, <1>2 DEF Outermost
<1>3. CASE d # Len(cs)
  <2>1. d \in 1 .. Len(cs) - 1
    BY <1>1, <1>3
  <2>2. Linked(cs[d], lv[d], cs[d + 1], lv[d + 1])
    BY <1>1, <2>1 DEF Links
  <2> QED BY <2>2 DEF Linked
<1> QED BY <1>2, <1>3

LEMMA Growing ==
  ASSUME CallTypeOK, NEW kind, NEW under \in Seq(Activations), NEW f, Call(kind, under, f)
  PROVE  Len(cstack') >= Len(cstack)
<1>1. cstack \in Seq(Activations) /\ Len(cstack) \in Nat /\ Len(under) \in Nat
  BY DEF CallTypeOK
<1>2. under \o cstack \in Seq(Activations) /\ Len(under \o cstack) = Len(under) + Len(cstack)
  BY <1>1
<1>3. \A x : Len(<<x>> \o under \o cstack) = 1 + Len(under) + Len(cstack)
  <2>1. SUFFICES ASSUME NEW x PROVE Len(<<x>> \o under \o cstack) = 1 + Len(under) + Len(cstack)
    OBVIOUS
  <2>2. PICK S : S = Activations \cup {x}
    OBVIOUS
  <2>3. <<x>> \in Seq(S) /\ under \in Seq(S) /\ cstack \in Seq(S)
    BY <2>2, <1>1
  <2> QED BY <2>3
<1>4. CASE cstack' = under \o cstack
  BY <1>1, <1>2, <1>4
<1>5. CASE cstack' = <<Activation(kind)>> \o under \o cstack
  <2>1. Len(cstack') = 1 + Len(under) + Len(cstack)
    BY <1>3, <1>5
  <2> QED BY <2>1, <1>1
<1> QED BY <1>4, <1>5 DEF Call

\* Which steps take what from the C stack.
LEMMA Shrinking ==
  ASSUME CallInv, [CallNext]_callVars, ~(Len(cstack') >= Len(cstack))
  PROVE  (Return /\ Finished) \/ Throw \/ (Yield /\ ~(nCcalls[L] > baseCcalls[L]))
<1>1. CallTypeOK /\ Len(cstack) \in Nat /\ Len(cstack) >= Len(cstack) /\ <<>> \in Seq(Activations)
  BY CallTyped DEF CallInv
<1>2. ASSUME cstack' = cstack PROVE FALSE
  BY <1>1, <1>2
<1>3. ASSUME NEW kind, NEW under \in Seq(Activations), NEW f, Call(kind, under, f) PROVE FALSE
  BY <1>1, <1>3, Growing
<1>4. CASE UNCHANGED callVars
  BY <1>2, <1>4 DEF callVars
<1>5. ASSUME NEW f \in {"lua", "C"},
             VMCall(f) \/ ApiCall(f) \/ Hook(f) \/ \E ef \in {"none", "function"} : PCall(f, ef)
      PROVE  FALSE
  <2>1. CASE VMCall(f)
    BY <2>1, <1>2 DEF VMCall
  <2>2. CASE ApiCall(f)
    BY <2>2, <1>1, <1>3 DEF ApiCall
  <2>3. CASE Hook(f)
    <3>1. <<Activation("hook")>> \in Seq(Activations)
      <4>1. Activation("hook") \in Activations
        BY <1>1, CallTyped DEF Activation, Activations, Calls
      <4> QED BY <4>1
    <3> QED BY <3>1, <2>3, <1>3 DEF Hook
  <2>4. CASE \E ef \in {"none", "function"} : PCall(f, ef)
    <3>1. PICK u : u = [kind |-> "pcall", t |-> L, depth |-> Depth, nCcalls |-> nCcalls[L],
                        allowhook |-> allowhook[L], errfunc |-> errfunc[L]]
      OBVIOUS
    <3>2. u \in Activations
      BY <3>1, <1>1, CallTyped DEF Activations, PCalls
    <3>3. <<u>> \in Seq(Activations)
      BY <3>2
    <3>4. Call("call", <<u>>, f)
      BY <3>1, <2>4 DEF PCall
    <3> QED BY <3>3, <3>4, <1>3
  <2> QED BY <2>1, <2>2, <2>3, <2>4, <1>5
<1>6. CASE Precall
  BY <1>2, <1>6 DEF Precall
<1>7. CASE Return
  BY <1>2, <1>7 DEF Return, WithinVM
<1>8. CASE Fail
  BY <1>2, <1>8 DEF Fail
<1>9. CASE ErrorMsg
  BY <1>1, <1>2, <1>3, <1>9 DEF ErrorMsg
<1>10. CASE Yield
  BY <1>2, <1>10 DEF Yield
<1>11. ASSUME NEW co \in Coroutines, Resume(co) PROVE FALSE
  <2>1. CASE Level(co) >= MaxCCalls
    BY <2>1, <1>2, <1>11 DEF Resume
  <2>2. CASE ~(Level(co) >= MaxCCalls)
    <3>1. PICK a : a = [kind |-> "resume", t |-> co, depth |-> 0]
      OBVIOUS
    <3>2. a \in Activations
      BY <3>1 DEF Activations, Calls, Threads
    <3>3. cstack' = <<a>> \o cstack
      BY <3>1, <2>2, <1>11 DEF Resume
    <3>4. Len(cstack') = Len(cstack) + 1
      BY <3>2, <3>3, <1>1, Push DEF CallTypeOK, Pushed
    <3> QED BY <3>4, <1>1
  <2> QED BY <2>1, <2>2
<1> QED BY <1>4, <1>5, <1>6, <1>7, <1>8, <1>9, <1>10, <1>11 DEF CallNext

\* What luaD_pcall is left with.
Restored(a) ==
  /\ Len(frames'[a.t]) = a.depth /\ nCcalls'[a.t] = a.nCcalls
  /\ allowhook'[a.t] = a.allowhook /\ errfunc'[a.t] = a.errfunc

LEMMA ReturnRestores ==
  ASSUME CallInv, Return, Finished, NEW i \in 1 .. Len(cstack), cstack[i].kind = "pcall",
         Len(cstack') = Len(cstack) - i
  PROVE  Restored(cstack[i])
<1>1. CallTypeOK /\ StackInv
  BY DEF CallInv
<1>2. PICK lv \in Seq(Levels) :
        /\ Stands(cstack, lv, nCcalls, allowhook, frames, baseCcalls)
        /\ Running(cstack, lv, nCcalls, allowhook, frames, pc)
  BY <1>1 DEF StackInv
<1>3. pc = "run" /\ Depth > 0 /\ Len(cstack) > 1 /\ Depth > cstack[1].depth
  BY <1>1, <1>2, Runner DEF Return
<1>4. /\ L \in Threads /\ Depth \in Nat /\ nCcalls[L] \in Nat
      /\ Head(cstack) = cstack[1] /\ cstack \in Seq(Activations) /\ Len(cstack) \in Nat
  BY <1>1, <1>3, CallTyped DEF CallTypeOK
<1>5. /\ nCcalls[L] = lv[1].n /\ allowhook[L] = lv[1].hook /\ lv[1].n \in Nat /\ lv[2].n \in Nat
      /\ Linked(cstack[1], lv[1], cstack[2], lv[2]) /\ Recurses(cstack[1])
  BY <1>1, <1>2, <1>3, RunsAbove
<1>6. Chain(cstack, lv)
  BY <1>2 DEF Stands
<1>7. Len(frames'[L]) = Depth - 1
  BY <1>1, <1>3, TailOf DEF Return
<1>8. nCcalls'[L] = lv[1].n - 1
  BY <1>1, <1>4, <1>5 DEF Finished, CallTypeOK
<1>9. CASE cstack' = Tail(cstack)
  <2>1. Len(cstack') = Len(cstack) - 1
    BY <1>3, <1>4, <1>9
  <2>2. i = 1
    BY <2>1, <1>4
  <2> QED BY <2>2, <1>5 DEF Recurses
<1>10. CASE /\ cstack[1].kind = "call" /\ cstack[2].kind \in {"pcall", "hook"}
            /\ cstack[2].depth = Depth - 1 /\ cstack[2].t = L
            /\ cstack' = SubSeq(cstack, 3, Len(cstack))
            /\ errfunc' = IF cstack[2].kind = "pcall" THEN [errfunc EXCEPT ![L] = cstack[2].errfunc]
                                                     ELSE errfunc
            /\ allowhook' = AfterHook(cstack[2])
  <2>1. Len(cstack') = Len(cstack) - 2
    BY <1>3, <1>4, <1>10
  <2>2. i = 2
    BY <2>1, <1>4
  <2>3. lv[1].n = lv[2].n + 1 /\ lv[1].hook = lv[2].hook
    BY <1>5, <1>10 DEF Linked
  <2>4. cstack[2].nCcalls = lv[2].n /\ cstack[2].allowhook = lv[2].hook
    BY <2>2, <1>4, <1>6, SavedLevel
  <2>5. nCcalls'[L] = lv[2].n
    BY <2>3, <1>5, <1>8
  <2>6. allowhook'[L] = lv[2].hook
    BY <2>2, <2>3, <1>5, <1>10 DEF AfterHook
  <2>7. errfunc'[L] = cstack[2].errfunc
    BY <2>2, <1>1, <1>4, <1>10 DEF CallTypeOK
  <2> QED BY <2>2, <2>4, <2>5, <2>6, <2>7, <1>7, <1>10 DEF Restored
<1>11. Len(cstack) > 1 => (IF Len(cstack) > 1 THEN cstack[2] ELSE Head(cstack)) = cstack[2]
  OBVIOUS
<1> QED BY <1>3, <1>4, <1>9, <1>10, <1>11 DEF Finished

LEMMA ThrowRestores ==
  ASSUME CallInv, Throw, NEW i \in 1 .. Len(cstack), cstack[i].kind = "pcall",
         Len(cstack') = Len(cstack) - i
  PROVE  Restored(cstack[i])
<1>1. CallTypeOK /\ StackInv
  BY DEF CallInv
<1>2. PICK lv \in Seq(Levels) :
        /\ Stands(cstack, lv, nCcalls, allowhook, frames, baseCcalls)
        /\ Running(cstack, lv, nCcalls, allowhook, frames, pc)
  BY <1>1 DEF StackInv
<1>3. /\ Len(cstack) > 0 /\ L \in Threads /\ Depth \in Nat /\ frames[L] \in Seq(Kinds)
      /\ Len(frames[L]) = Depth /\ L = cstack[1].t
      /\ cstack \in Seq(Activations) /\ Len(cstack) \in Nat /\ cstack[1] \in Activations
  BY <1>1, CallTyped DEF CallTypeOK, Depth
<1>4. Depth >= cstack[1].depth
  BY <1>2, <1>3 DEF Running
<1>5. Chain(cstack, lv)
  BY <1>2 DEF Stands
<1>6. PICK e : e = ErrorJmp
  OBVIOUS
<1>7. e \in 1 .. Len(cstack) /\ cstack[e].t = L /\ cstack[1].depth >= cstack[e].depth
  BY <1>1, <1>3, <1>5, <1>6, Jump
<1>8. cstack' = SubSeq(cstack, e + 1, Len(cstack))
  BY <1>6 DEF Throw
<1>9. e \in 0 .. Len(cstack)
  BY <1>7
<1>10. Len(cstack') = Len(cstack) - e
  BY <1>3, <1>8, <1>9, Drop DEF Dropped
<1>11. i = e
  BY <1>3, <1>7, <1>10
<1>12. PICK a : a = cstack[e]
  OBVIOUS
<1>13. a \in Activations /\ a.kind = "pcall" /\ a.t = L
  BY <1>3, <1>7, <1>11, <1>12
<1>14. a.depth \in Nat /\ cstack[1].depth \in Nat /\ a.depth <= Depth
  <2>1. a.depth \in Nat /\ cstack[1].depth \in Nat
    BY <1>3, <1>13, KindsOf
  <2> QED BY <2>1, <1>3, <1>4, <1>7, <1>12
<1>15. /\ frames' = [frames EXCEPT ![L] = SubSeq(@, Len(@) - a.depth + 1, Len(@))]
       /\ nCcalls' = [nCcalls EXCEPT ![L] = a.nCcalls]
       /\ allowhook' = [allowhook EXCEPT ![L] = a.allowhook]
       /\ errfunc' = [errfunc EXCEPT ![L] = a.errfunc]
  BY <1>6, <1>12, <1>13 DEF Throw
<1>16. Len(frames'[L]) = a.depth
  <2>1. Depth - a.depth \in 0 .. Len(frames[L]) /\ Depth - (Depth - a.depth) = a.depth
    BY <1>3, <1>14
  <2>2. frames'[L] = SubSeq(frames[L], Depth - a.depth + 1, Len(frames[L]))
    BY <1>1, <1>3, <1>15 DEF CallTypeOK
  <2>3. Len(SubSeq(frames[L], Depth - a.depth + 1, Len(frames[L]))) = Len(frames[L]) - (Depth - a.depth)
    BY <2>1, <1>3, Drop DEF Dropped
  <2> QED BY <2>1, <2>2, <2>3, <1>3
<1>17. nCcalls'[L] = a.nCcalls /\ allowhook'[L] = a.allowhook /\ errfunc'[L] = a.errfunc
  BY <1>1, <1>3, <1>15 DEF CallTypeOK
<1> QED BY <1>11, <1>12, <1>13, <1>16, <1>17 DEF Restored

\* A protected call restores the call infos, the count of C calls, the hooks and the error
\* handler, whether it returns or an error comes to it (luaD_pcall).
THEOREM PcallsRestore == CallSpec => PcallRestores
<1> DEFINE Back ==
      \A i \in DOMAIN cstack :
        LET a == cstack[i] IN
        a.kind = "pcall" /\ Len(cstack') = Len(cstack) - i =>
          /\ Len(frames'[a.t]) = a.depth /\ nCcalls'[a.t] = a.nCcalls
          /\ allowhook'[a.t] = a.allowhook /\ errfunc'[a.t] = a.errfunc
<1>1. CallInv /\ [CallNext]_callVars => [Back]_callVars
  <2>1. SUFFICES ASSUME CallInv, [CallNext]_callVars, NEW i \in DOMAIN cstack,
                        cstack[i].kind = "pcall", Len(cstack') = Len(cstack) - i
                 PROVE  Restored(cstack[i])
    BY DEF Restored
  <2>2. CallTypeOK /\ Len(cstack) \in Nat /\ i \in 1 .. Len(cstack)
    BY SMTT(60), <2>1, CallTyped DEF CallInv, CallTypeOK
  <2>3. ~(Len(cstack') >= Len(cstack))
    BY <2>1, <2>2
  <2>4. CASE Return /\ Finished
    BY <2>1, <2>2, <2>4, ReturnRestores
  <2>5. CASE Throw
    BY <2>1, <2>2, <2>5, ThrowRestores
  <2>6. CASE Yield /\ ~(nCcalls[L] > baseCcalls[L])
    <3>1. PICK lv \in Seq(Levels) :
            /\ Stands(cstack, lv, nCcalls, allowhook, frames, baseCcalls)
            /\ Running(cstack, lv, nCcalls, allowhook, frames, pc)
      BY <2>1 DEF CallInv, StackInv
    <3>2. pc = "run" /\ Len(cstack) > 1 /\ cstack \in Seq(Activations)
      BY <3>1, <2>2, <2>6, Runner DEF Yield, CallTypeOK
    <3>3. Recurses(cstack[1])
      BY <3>1, <3>2, <2>2, RunsAbove
    <3>4. Len(cstack') = Len(cstack) - 1
      BY <3>2, <2>6 DEF Yield
    <3>5. i = 1
      BY <3>4, <2>1, <2>2
    <3> QED BY <3>3, <3>5, <2>1 DEF Recurses
  <2> QED BY <2>1, <2>3, <2>4, <2>5, <2>6, Shrinking
<1>2. CallSpec => [][Back]_callVars
  BY <1>1, CallInitInv, CallStepInv, PTL DEF CallSpec
<1> QED BY <1>2 DEF PcallRestores

-----------------------------------------------------------------------------
(* The module loader.                                                       *)

Loadings == [kind : {"loader", "module"}, name : Modules, protected : BOOLEAN]
RequireTypeOK ==
  /\ loaded \in [Modules -> {"nil", "false", "sentinel", "value"}]
  /\ loading \in Seq(Loadings)
  /\ failed \subseteq Modules

RunsAt(k, m) == loading[k].kind = "module" /\ loading[k].name = m

\* The entry of a module that runs is true, so that no loader is called for it: what runs
\* inside it has another name, or is a module that it has required before it was begun.
Entered ==
  \A k \in 1 .. Len(loading) : loading[k].kind = "module" =>
    /\ loaded[loading[k].name] \in {"sentinel", "value"}
    /\ \A j \in 1 .. k - 1 : loading[j].name # loading[k].name

\* Nobody else has the sentinel.
Marks ==
  \A m \in Modules : loaded[m] = "sentinel" =>
    m \in failed \/ \E k \in 1 .. Len(loading) : RunsAt(k, m)

RequireInv == RequireTypeOK /\ Entered /\ Marks

LEMMA RequireTyped ==
  ASSUME RequireTypeOK
  PROVE  /\ Len(loading) \in Nat
         /\ \A k \in 1 .. Len(loading) : loading[k] \in Loadings /\ loading[k].name \in Modules
         /\ loading # <<>> =>
              /\ Len(loading) >= 1 /\ Head(loading) = loading[1] /\ loading[1] \in Loadings
              /\ Tail(loading) \in Seq(Loadings) /\ Len(Tail(loading)) = Len(loading) - 1
              /\ \A i \in 1 .. Len(loading) - 1 : Tail(loading)[i] = loading[i + 1]
<1>1. loading \in Seq(Loadings)
  BY DEF RequireTypeOK
<1>2. Len(loading) \in Nat /\ \A k \in 1 .. Len(loading) : loading[k] \in Loadings
  BY <1>1
<1>3. \A k \in 1 .. Len(loading) : loading[k].name \in Modules
  BY <1>2 DEF Loadings
<1>4. loading # <<>> =>
        /\ Len(loading) >= 1 /\ Head(loading) = loading[1]
        /\ Tail(loading) \in Seq(Loadings) /\ Len(Tail(loading)) = Len(loading) - 1
        /\ \A i \in 1 .. Len(loading) - 1 : Tail(loading)[i] = loading[i + 1]
  BY <1>1
<1> QED BY <1>2, <1>3, <1>4

LEMMA RequireInitInv == RequireInit => RequireInv
BY DEF RequireInit, RequireInv, RequireTypeOK, Entered, Marks

\* What is left when the innermost are ended.
LEMMA Ended ==
  ASSUME NEW S, NEW st \in Seq(S), NEW n \in 1 .. Len(st)
  PROVE  LET rest == SubSeq(st, n + 1, Len(st)) IN
         /\ rest \in Seq(S) /\ Len(rest) = Len(st) - n
         /\ \A i \in 1 .. Len(rest) : rest[i] = st[i + n]
OBVIOUS

LEMMA RaiseKeeps ==
  ASSUME RequireInv, Raise
  PROVE  RequireInv'
<1>1. PICK last \in DOMAIN loading :
        /\ \A k \in 1 .. last - 1 : ~loading[k].protected
        /\ loading[last].protected \/ last = Len(loading)
        /\ loading' = SubSeq(loading, last + 1, Len(loading))
        /\ failed' = failed \cup {loading[k].name : k \in {n \in 1 .. last : loading[n].kind = "module"}}
        /\ UNCHANGED loaded
  BY Zenon DEF Raise
<1>2. loading \in Seq(Loadings) /\ Len(loading) \in Nat /\ last \in 1 .. Len(loading)
  BY DEF RequireInv, RequireTypeOK
<1>3. /\ loading' \in Seq(Loadings) /\ Len(loading') = Len(loading) - last
      /\ \A i \in 1 .. Len(loading') : loading'[i] = loading[i + last]
  BY <1>1, <1>2, Ended
<1>4. \A k \in 1 .. Len(loading) : loading[k] \in Loadings /\ loading[k].name \in Modules
  BY RequireTyped DEF RequireInv
<1>5. RequireTypeOK'
  BY <1>1, <1>2, <1>3, <1>4 DEF RequireInv, RequireTypeOK
<1>6. Entered'
  <2> SUFFICES ASSUME NEW k \in 1 .. Len(loading'), loading'[k].kind = "module"
               PROVE  /\ loaded'[loading'[k].name] \in {"sentinel", "value"}
                      /\ \A j \in 1 .. k - 1 : loading'[j].name # loading'[k].name
    BY DEF Entered
  <2>1. k + last \in 1 .. Len(loading) /\ loading'[k] = loading[k + last]
    BY <1>2, <1>3
  <2>2. ASSUME NEW j \in 1 .. k - 1
        PROVE  j + last \in 1 .. (k + last) - 1 /\ loading'[j] = loading[j + last]
    <3>1. j \in 1 .. Len(loading')
      BY <1>2, <1>3
    <3> QED BY <1>2, <1>3, <3>1
  <2> QED BY <1>1, <2>1, <2>2 DEF RequireInv, Entered
<1>7. Marks'
  <2> SUFFICES ASSUME NEW m \in Modules, loaded[m] = "sentinel", m \notin failed'
               PROVE  \E k \in 1 .. Len(loading') : RunsAt(k, m)'
    BY <1>1 DEF Marks
  <2>1. PICK k \in 1 .. Len(loading) : RunsAt(k, m)
    BY <1>1 DEF RequireInv, Marks
  <2>2. k > last
    BY <1>1, <1>2, <2>1 DEF RunsAt
  <2>3. k - last \in 1 .. Len(loading') /\ (k - last) + last = k
    BY <1>2, <1>3, <2>2
  <2>4. loading'[k - last] = loading[k]
    BY <1>3, <2>3
  <2> QED BY <2>1, <2>3, <2>4 DEF RunsAt
<1> QED BY <1>5, <1>6, <1>7 DEF RequireInv

\* A loader is called above what runs, or the innermost is replaced by its module.
LEMMA Replaced ==
  ASSUME NEW S, NEW f \in S, NEW st \in Seq(S)
  PROVE  /\ <<f>> \o st \in Seq(S) /\ Len(<<f>> \o st) = Len(st) + 1
         /\ (<<f>> \o st)[1] = f /\ \A i \in 1 .. Len(st) : (<<f>> \o st)[i + 1] = st[i]
         /\ \A i \in 2 .. Len(st) + 1 : (<<f>> \o st)[i] = st[i - 1]
OBVIOUS

LEMMA RequireKeeps ==
  ASSUME RequireInv, NEW m \in Modules, NEW protected \in BOOLEAN, Require(m, protected)
  PROVE  RequireInv'
<1> DEFINE new == [kind |-> "loader", name |-> m, protected |-> protected]
<1>1. CASE Raise
  BY <1>1, RaiseKeeps
<1>2. ASSUME loaded[m] \in {"nil", "false"}, loading' = <<new>> \o loading, UNCHANGED <<loaded, failed>>
      PROVE  RequireInv'
  <2>1. loading \in Seq(Loadings) /\ new \in Loadings /\ Len(loading) \in Nat
    BY RequireTyped DEF RequireInv, RequireTypeOK, Loadings
  <2>2. /\ loading' \in Seq(Loadings) /\ Len(loading') = Len(loading) + 1 /\ loading'[1] = new
        /\ \A i \in 2 .. Len(loading) + 1 : loading'[i] = loading[i - 1]
        /\ \A i \in 1 .. Len(loading) : loading'[i + 1] = loading[i]
    BY <1>2, <2>1, Replaced
  <2>3. Entered'
    <3> SUFFICES ASSUME NEW k \in 1 .. Len(loading'), loading'[k].kind = "module"
                 PROVE  /\ loaded'[loading'[k].name] \in {"sentinel", "value"}
                        /\ \A j \in 1 .. k - 1 : loading'[j].name # loading'[k].name
      BY DEF Entered
    <3>1. k # 1 /\ k - 1 \in 1 .. Len(loading) /\ loading'[k] = loading[k - 1]
      BY <2>1, <2>2
    <3>2. /\ loaded[loading[k - 1].name] \in {"sentinel", "value"}
          /\ \A j \in 1 .. (k - 1) - 1 : loading[j].name # loading[k - 1].name
      BY <3>1 DEF RequireInv, Entered
    <3>3. ASSUME NEW j \in 1 .. k - 1 PROVE loading'[j].name # loading'[k].name
      <4>1. CASE j = 1
        BY <1>2, <2>2, <3>1, <3>2, <4>1
      <4>2. CASE j # 1
        <5>1. j - 1 \in 1 .. (k - 1) - 1 /\ j \in 2 .. Len(loading) + 1
          BY <3>1, <2>1, <2>2, <4>2
        <5> QED BY <2>2, <3>1, <3>2, <5>1
      <4> QED BY <4>1, <4>2
    <3> QED BY <1>2, <3>1, <3>2, <3>3
  <2>4. Marks'
    <3> SUFFICES ASSUME NEW n \in Modules, loaded[n] = "sentinel", n \notin failed
                 PROVE  \E k \in 1 .. Len(loading') : RunsAt(k, n)'
      BY <1>2 DEF Marks
    <3>1. PICK k \in 1 .. Len(loading) : RunsAt(k, n)
      BY DEF RequireInv, Marks
    <3>2. k + 1 \in 1 .. Len(loading') /\ loading'[k + 1] = loading[k]
      BY <2>1, <2>2
    <3> QED BY <3>1, <3>2 DEF RunsAt
  <2> QED BY <1>2, <2>2, <2>3, <2>4 DEF RequireInv, RequireTypeOK
<1> QED BY <1>1, <1>2 DEF Require

LEMMA FindsKeeps ==
  ASSUME RequireInv, LoaderFinds
  PROVE  RequireInv'
<1> DEFINE m == loading[1].name
           new == [loading[1] EXCEPT !.kind = "module"]
<1>1. loading \in Seq(Loadings) /\ Len(loading) \in Nat /\ Len(loading) >= 1 /\ loading[1] \in Loadings
  BY RequireTyped DEF RequireInv, RequireTypeOK, LoaderFinds
<1>2. /\ new \in Loadings /\ m \in Modules /\ new.name = m /\ new.kind = "module" /\ loading[1].kind = "loader"
      /\ loaded' = [loaded EXCEPT ![m] = "sentinel"] /\ loading' = <<new>> \o Tail(loading)
      /\ failed' = failed
  <2>1. Head(loading) = loading[1] /\ m \in Modules
    BY <1>1, RequireTyped DEF RequireInv, LoaderFinds
  <2>2. new \in Loadings /\ new.name = m /\ new.kind = "module"
    BY <1>1 DEF Loadings
  <2> QED BY <2>1, <2>2 DEF LoaderFinds, Marked, Top, Rest
<1>3. Tail(loading) \in Seq(Loadings) /\ Len(Tail(loading)) = Len(loading) - 1
      /\ \A i \in 1 .. Len(loading) - 1 : Tail(loading)[i] = loading[i + 1]
  BY RequireTyped DEF RequireInv, LoaderFinds
<1> HIDE DEF m, new
<1>4. /\ loading' \in Seq(Loadings) /\ Len(loading') = Len(loading) /\ loading'[1] = new
      /\ \A i \in 2 .. Len(loading) : loading'[i] = Tail(loading)[i - 1]
  BY <1>1, <1>2, <1>3, Replaced
<1>5. \A i \in 2 .. Len(loading) : loading'[i] = loading[i]
  <2> SUFFICES ASSUME NEW i \in 2 .. Len(loading) PROVE loading'[i] = loading[i]
    OBVIOUS
  <2>1. i - 1 \in 1 .. Len(loading) - 1 /\ (i - 1) + 1 = i
    BY <1>1
  <2> QED BY <1>3, <1>4, <2>1
<1>6. loaded \in [Modules -> {"nil", "false", "sentinel", "value"}]
  BY DEF RequireInv, RequireTypeOK
<1>7. Entered'
  <2> SUFFICES ASSUME NEW k \in 1 .. Len(loading), loading'[k].kind = "module"
               PROVE  /\ loaded'[loading'[k].name] \in {"sentinel", "value"}
                      /\ \A j \in 1 .. k - 1 : loading'[j].name # loading'[k].name
    BY <1>4 DEF Entered
  <2>1. CASE k = 1
    BY <1>1, <1>2, <1>4, <1>6, <2>1
  <2>2. CASE k # 1
    <3>1. k \in 2 .. Len(loading) /\ loading'[k] = loading[k]
      BY <1>1, <1>5, <2>2
    <3>2. /\ loaded[loading[k].name] \in {"sentinel", "value"}
          /\ \A j \in 1 .. k - 1 : loading[j].name # loading[k].name
      BY <3>1 DEF RequireInv, Entered
    <3>3. loading[k].name # m /\ loading[k].name \in Modules
      BY <1>1, <3>1, <3>2, RequireTyped DEF m, RequireInv
    <3>4. \A j \in 1 .. k - 1 : loading'[j].name = loading[j].name
      BY <1>1, <1>2, <1>4, <1>5, <3>1 DEF m
    <3> QED BY <1>2, <1>6, <3>1, <3>2, <3>3, <3>4
  <2> QED BY <2>1, <2>2
<1>8. Marks'
  <2> SUFFICES ASSUME NEW n \in Modules, loaded'[n] = "sentinel", n \notin failed
               PROVE  \E k \in 1 .. Len(loading') : RunsAt(k, n)'
    BY <1>2 DEF Marks
  <2>1. CASE n = m
    <3>1. 1 \in 1 .. Len(loading') /\ RunsAt(1, n)'
      BY <1>1, <1>2, <1>4, <2>1 DEF RunsAt
    <3> QED BY <3>1
  <2>2. CASE n # m
    <3>1. PICK k \in 1 .. Len(loading) : RunsAt(k, n)
      BY <1>2, <1>6, <2>2 DEF RequireInv, Marks
    <3>2. k # 1
      BY <1>2, <3>1 DEF RunsAt
    <3>3. k \in 1 .. Len(loading') /\ loading'[k] = loading[k]
      BY <1>1, <1>4, <1>5, <3>2
    <3> QED BY <3>1, <3>3 DEF RunsAt
  <2> QED BY <2>1, <2>2
<1>9. RequireTypeOK'
  BY <1>2, <1>4, <1>6 DEF RequireInv, RequireTypeOK
<1> QED BY <1>7, <1>8, <1>9 DEF RequireInv

LEMMA ReturnsKeeps ==
  ASSUME RequireInv, NEW result \in {"nil", "false", "value"}, ModuleReturns(result)
  PROVE  RequireInv'
<1> DEFINE m == loading[1].name
<1>1. loading \in Seq(Loadings) /\ Len(loading) \in Nat /\ Len(loading) >= 1 /\ loading[1] \in Loadings
  BY RequireTyped DEF RequireInv, RequireTypeOK, ModuleReturns
<1>2. loaded \in [Modules -> {"nil", "false", "sentinel", "value"}] /\ failed \subseteq Modules
  BY DEF RequireInv, RequireTypeOK
<1>3. /\ m \in Modules /\ loading' = Tail(loading) /\ failed' = failed
      /\ \E entry \in {"nil", "false", "value"} : loaded' = [loaded EXCEPT ![m] = entry]
  <2>1. Head(loading) = loading[1] /\ m \in Modules
    BY <1>1, RequireTyped DEF RequireInv, ModuleReturns
  <2>2. loaded[m] \in {"nil", "false", "sentinel", "value"}
    BY <1>2, <2>1
  <2>3. \E entry \in {"nil", "false", "value"} : loaded' = [loaded EXCEPT ![m] = entry]
    <3> DEFINE given == IF result = "nil" THEN loaded[m] ELSE result
               entry == IF given = "sentinel" THEN "value" ELSE given
    <3>1. loaded' = [loaded EXCEPT ![m] = entry]
      BY <2>1 DEF ModuleReturns, Top
    <3>2. entry \in {"nil", "false", "value"}
      BY <2>2
    <3> QED BY <3>1, <3>2
  <2> QED BY <2>1, <2>3 DEF ModuleReturns, Rest
<1>4. /\ loading' \in Seq(Loadings) /\ Len(loading') = Len(loading) - 1
      /\ \A i \in 1 .. Len(loading') : loading'[i] = loading[i + 1]
  BY <1>1, <1>3, RequireTyped DEF RequireInv, ModuleReturns
<1> HIDE DEF m
<1>5. Entered'
  <2> SUFFICES ASSUME NEW k \in 1 .. Len(loading'), loading'[k].kind = "module"
               PROVE  /\ loaded'[loading'[k].name] \in {"sentinel", "value"}
                      /\ \A j \in 1 .. k - 1 : loading'[j].name # loading'[k].name
    BY DEF Entered
  <2>1. k + 1 \in 2 .. Len(loading) /\ loading'[k] = loading[k + 1]
    BY <1>1, <1>4
  <2>2. /\ loaded[loading[k + 1].name] \in {"sentinel", "value"}
        /\ \A j \in 1 .. (k + 1) - 1 : loading[j].name # loading[k + 1].name
    BY <2>1 DEF RequireInv, Entered
  <2>3. loading[k + 1].name # m /\ loading[k + 1].name \in Modules
    BY <1>1, <2>1, <2>2, RequireTyped DEF m, RequireInv
  <2>4. ASSUME NEW j \in 1 .. k - 1 PROVE loading'[j].name # loading'[k].name
    <3>1. j + 1 \in 1 .. (k + 1) - 1 /\ j \in 1 .. Len(loading')
      BY <1>1, <1>4
    <3> QED BY <1>4, <2>1, <2>2, <3>1
  <2> QED BY <1>2, <1>3, <2>1, <2>2, <2>3, <2>4
<1>6. Marks'
  <2> SUFFICES ASSUME NEW n \in Modules, loaded'[n] = "sentinel", n \notin failed
               PROVE  \E k \in 1 .. Len(loading') : RunsAt(k, n)'
    BY <1>3 DEF Marks
  <2>1. n # m /\ loaded[n] = "sentinel"
    BY <1>2, <1>3
  <2>2. PICK k \in 1 .. Len(loading) : RunsAt(k, n)
    BY <2>1 DEF RequireInv, Marks
  <2>3. k # 1
    BY <2>1, <2>2 DEF RunsAt, m
  <2>4. k - 1 \in 1 .. Len(loading') /\ (k - 1) + 1 = k
    BY <1>1, <1>4, <2>3
  <2>5. loading'[k - 1] = loading[k]
    BY <1>4, <2>4
  <2> QED BY <2>2, <2>4, <2>5 DEF RunsAt
<1>7. RequireTypeOK'
  BY <1>2, <1>3, <1>4 DEF RequireTypeOK
<1> QED BY <1>5, <1>6, <1>7 DEF RequireInv

LEMMA ModuleKeeps ==
  ASSUME RequireInv, NEW m \in Modules, Module(m)
  PROVE  RequireInv'
<1>1. /\ loaded \in [Modules -> {"nil", "false", "sentinel", "value"}]
      /\ loaded' = [loaded EXCEPT ![m] = "value"] /\ UNCHANGED <<loading, failed>>
  BY DEF Module, RequireInv, RequireTypeOK
<1>2. \A n \in Modules : loaded'[n] = "value" \/ loaded'[n] = loaded[n]
  BY <1>1
<1>3. \A k \in 1 .. Len(loading) : loading[k].name \in Modules
  BY RequireTyped DEF RequireInv
<1>4. Entered'
  BY <1>1, <1>2, <1>3 DEF RequireInv, Entered
<1>5. Marks'
  BY <1>1, <1>2 DEF RequireInv, Marks, RunsAt
<1>6. RequireTypeOK'
  BY <1>1 DEF RequireInv, RequireTypeOK
<1> QED BY <1>4, <1>5, <1>6 DEF RequireInv

\* Two modules of one name would be one inside the other.
LEMMA InvLoadedOnce == RequireInv => LoadedOnce
<1> SUFFICES ASSUME RequireInv, NEW m \in Modules
             PROVE  LET running == {k \in DOMAIN loading : loading[k].kind = "module" /\ loading[k].name = m} IN
                    /\ Cardinality(running) <= 1
                    /\ loaded[m] = "sentinel" => running # {} \/ m \in failed
  BY DEF LoadedOnce
<1> DEFINE running == {k \in DOMAIN loading : loading[k].kind = "module" /\ loading[k].name = m}
<1>1. DOMAIN loading = 1 .. Len(loading) /\ Len(loading) \in Nat
  BY DEF RequireInv, RequireTypeOK
<1>2. loaded[m] = "sentinel" => running # {} \/ m \in failed
  BY <1>1 DEF RequireInv, Marks, RunsAt
<1>3. \A k, l \in running : k = l
  BY <1>1 DEF RequireInv, Entered
<1> HIDE DEF running
<1>4. running = {} \/ \E k : running = {k}
  BY <1>3
<1>5. Cardinality(running) <= 1
  <2>1. Cardinality({}) = 0 /\ \A k : Cardinality({k}) = 1
    BY FS_EmptySet, FS_Singleton
  <2>2. CASE running = {}
    BY <2>1, <2>2
  <2>3. ASSUME NEW k, running = {k} PROVE Cardinality(running) <= 1
    BY <2>1, <2>3
  <2> QED BY <1>4, <2>2, <2>3
<1> QED BY <1>2, <1>5 DEF running

\* However modules and loaders require each other, call each other protected and fail: no
\* module is begun while it runs, and the sentinel is only that of one that runs or that
\* failed (ll_require).
THEOREM OneAtATime == RequireSpec => []LoadedOnce
<1>1. RequireInv /\ [RequireNext]_requireVars => RequireInv'
  <2> SUFFICES ASSUME RequireInv, [RequireNext]_requireVars PROVE RequireInv'
    OBVIOUS
  <2>1. CASE LoadingFails
    BY <2>1, RaiseKeeps DEF LoadingFails
  <2>2. CASE UNCHANGED requireVars
    BY <2>2 DEF requireVars, RequireInv, RequireTypeOK, Entered, Marks, RunsAt
  <2> QED BY <2>1, <2>2, RequireKeeps, FindsKeeps, ReturnsKeeps, ModuleKeeps DEF RequireNext
<1> QED BY <1>1, RequireInitInv, InvLoadedOnce, PTL DEF RequireSpec
-----------------------------------------------------------------------------
(* References: the free ones are a list without repetition, none of which   *)
(* is held.                                                                 *)

Indices == 1 .. MaxRefs
\* An index before a list.
Put(ref, list) == <<ref>> \o list
Held == [ref : Indices, val : RefValues]
RefTypeOK ==
  /\ t \in [0 .. MaxRefs -> RefValues \cup (0 .. MaxRefs)]
  /\ refs \in Seq(Held)

\* The indices of table `tab' that are linked from its index 0, in the order of the list.
Chained(tab, list) ==
  /\ tab[0] = IF list = <<>> THEN 0 ELSE list[1]
  /\ \A i \in 1 .. Len(list) : tab[list[i]] = IF i = Len(list) THEN 0 ELSE list[i + 1]
  /\ \A i, j \in 1 .. Len(list) : list[i] = list[j] => i = j
IsFree(list) ==
  /\ Chained(t, list)
  /\ \A k \in 1 .. Len(refs) : \A i \in 1 .. Len(list) : refs[k].ref # list[i]

RefInv == RefTypeOK /\ RefsKept /\ \E list \in Seq(Indices) : IsFree(list)

LEMMA RefInit == AuxInit => RefInv
<1> SUFFICES ASSUME AuxInit PROVE RefInv
  OBVIOUS
<1>1. MaxRefs \in Nat
  BY LuaAuxiliaryAssumption
<1>2. RefTypeOK /\ RefsKept
  BY <1>1 DEF AuxInit, RefTypeOK, RefsKept
<1>3. <<>> \in Seq(Indices) /\ IsFree(<<>>)
  BY <1>1 DEF AuxInit, IsFree, Chained
<1> QED BY <1>2, <1>3 DEF RefInv

\* The first of a list, and what is left.
LEMMA Popped ==
  ASSUME NEW S, NEW st \in Seq(S), st # <<>>
  PROVE  /\ Len(st) \in Nat /\ Len(st) >= 1 /\ st[1] \in S
         /\ Tail(st) \in Seq(S) /\ Len(Tail(st)) = Len(st) - 1
         /\ \A i \in 1 .. Len(Tail(st)) : Tail(st)[i] = st[i + 1]
OBVIOUS

LEMMA EmptyList ==
  ASSUME NEW S, NEW st \in Seq(S)
  PROVE  st = <<>> <=> Len(st) = 0
OBVIOUS

\* The first of the list, and the list without it.
LEMMA Unlinked ==
  ASSUME MaxRefs \in Nat, NEW tab \in [0 .. MaxRefs -> RefValues \cup (0 .. MaxRefs)],
         NEW list \in Seq(Indices), Chained(tab, list), tab[0] # 0, NEW v \in RefValues,
         NEW new, new = [tab EXCEPT ![0] = tab[tab[0]], ![tab[0]] = v]
  PROVE  /\ tab[0] = list[1] /\ Len(list) >= 1 /\ list[1] \in Indices /\ Tail(list) \in Seq(Indices)
         /\ Len(Tail(list)) = Len(list) - 1
         /\ \A i \in 1 .. Len(Tail(list)) : Tail(list)[i] = list[i + 1]
         /\ Chained(new, Tail(list))
<1>0. list # <<>> /\ tab[0] = list[1]
  BY DEF Chained
<1>1. /\ Len(list) \in Nat /\ Len(list) >= 1
      /\ list[1] \in Indices /\ Tail(list) \in Seq(Indices) /\ Len(Tail(list)) = Len(list) - 1
      /\ \A i \in 1 .. Len(Tail(list)) : Tail(list)[i] = list[i + 1]
  BY <1>0, Popped
<1>2. 1 \in 1 .. Len(list) /\ \A i \in 1 .. Len(list) : list[i] \in Indices
  BY <1>1
<1> DEFINE rest == Tail(list)
<1>3. (rest = <<>> <=> Len(list) = 1) /\ Len(rest) \in Nat /\ Len(rest) = Len(list) - 1
  <2>1. Len(rest) = Len(list) - 1 /\ rest \in Seq(Indices)
    BY <1>1
  <2> HIDE DEF rest
  <2>2. rest = <<>> <=> Len(rest) = 0
    BY <2>1, EmptyList
  <2> QED BY <1>1, <2>1, <2>2
<1> HIDE DEF rest
<1>4. new[0] = tab[list[1]]
  BY <1>0, <1>1 DEF Indices
<1>5. new[0] = IF rest = <<>> THEN 0 ELSE rest[1]
  <2>1. tab[list[1]] = IF 1 = Len(list) THEN 0 ELSE list[1 + 1]
    BY <1>2 DEF Chained
  <2>2. Len(list) # 1 => rest[1] = list[1 + 1]
    BY <1>1 DEF rest
  <2> QED BY <1>3, <1>4, <2>1, <2>2
<1>6. ASSUME NEW i \in 1 .. Len(rest)
      PROVE  new[rest[i]] = IF i = Len(rest) THEN 0 ELSE rest[i + 1]
  <2>0. i \in Nat /\ i + 1 \in 1 .. Len(list) /\ i + 1 # 1 /\ (i = Len(rest) <=> i + 1 = Len(list))
    BY <1>1 DEF rest
  <2>1. rest[i] = list[i + 1] /\ (i # Len(rest) => rest[i + 1] = list[(i + 1) + 1])
    <3>1. i # Len(rest) => i + 1 \in 1 .. Len(rest)
      BY <1>3
    <3> QED BY <1>1, <3>1 DEF rest
  <2>2. list[i + 1] # list[1] /\ list[i + 1] \in Indices
    BY <1>2, <2>0 DEF Chained
  <2>3. new[list[i + 1]] = tab[list[i + 1]]
    BY <1>0, <1>1, <2>2 DEF Indices
  <2>4. tab[list[i + 1]] = IF i + 1 = Len(list) THEN 0 ELSE list[(i + 1) + 1]
    BY <2>0 DEF Chained
  <2> QED BY <2>0, <2>1, <2>3, <2>4
<1>7. ASSUME NEW i \in 1 .. Len(rest), NEW j \in 1 .. Len(rest), rest[i] = rest[j]
      PROVE  i = j
  <2>1. i + 1 \in 1 .. Len(list) /\ j + 1 \in 1 .. Len(list) /\ list[i + 1] = list[j + 1]
    BY <1>1, <1>7 DEF rest
  <2> QED BY <2>1 DEF Chained
<1>8. Chained(new, rest)
  BY <1>5, <1>6, <1>7 DEF Chained
<1> QED BY <1>0, <1>1, <1>8 DEF rest

LEMMA RefKeeps ==
  ASSUME RefInv, NEW v \in RefValues, Ref(v)
  PROVE  RefInv'
<1>0. MaxRefs \in Nat /\ 0 \notin RefValues
  BY LuaAuxiliaryAssumption
<1>1. PICK list \in Seq(Indices) : IsFree(list)
  BY DEF RefInv
<1>2. PICK ref \in IF FirstFree # 0 THEN {FirstFree} ELSE {n + 1 : n \in Borders} :
        ref <= MaxRefs /\ t' = Taken(ref, v) /\ refs' = Append(refs, [ref |-> ref, val |-> v])
  BY DEF Ref
<1>3. t \in [0 .. MaxRefs -> RefValues \cup (0 .. MaxRefs)] /\ refs \in Seq(Held)
  BY DEF RefInv, RefTypeOK
<1>4. \A k \in 1 .. Len(refs) : refs[k].ref \in Indices /\ refs[k].val \in RefValues /\ t[refs[k].ref] = refs[k].val
  <2>1. \A k \in 1 .. Len(refs) : refs[k] \in Held
    BY <1>3
  <2>2. DOMAIN refs = 1 .. Len(refs)
    BY <1>3
  <2> QED BY <2>1, <2>2 DEF RefInv, RefsKept, Held
\* The index is not held, and there is a list after it was taken.
<1>5. /\ ref \in Indices /\ \A k \in 1 .. Len(refs) : refs[k].ref # ref
      /\ t' = [t EXCEPT ![0] = t[t[0]], ![ref] = v]
      /\ \E rest \in Seq(Indices) :
           /\ Chained(t', rest)
           /\ \A i \in 1 .. Len(rest) : rest[i] # ref
           /\ \A k \in 1 .. Len(refs) : \A i \in 1 .. Len(rest) : refs[k].ref # rest[i]
  <2>1. CASE FirstFree # 0
    <3>1. ref = t[0] /\ t' = [t EXCEPT ![0] = t[t[0]], ![t[0]] = v]
      BY <1>2, <2>1 DEF FirstFree, FreeListRef, Taken
    <3>2. /\ t[0] = list[1] /\ Len(list) >= 1 /\ list[1] \in Indices /\ Tail(list) \in Seq(Indices)
          /\ Len(Tail(list)) = Len(list) - 1
          /\ \A i \in 1 .. Len(Tail(list)) : Tail(list)[i] = list[i + 1]
          /\ Chained(t', Tail(list))
      BY <1>0, <1>1, <1>3, <2>1, <3>1, Unlinked DEF IsFree, FirstFree, FreeListRef
    <3>3. ASSUME NEW i \in 1 .. Len(Tail(list))
          PROVE  /\ Tail(list)[i] # ref
                 /\ \A k \in 1 .. Len(refs) : refs[k].ref # Tail(list)[i]
      <4>1. i + 1 \in 1 .. Len(list) /\ 1 \in 1 .. Len(list) /\ i + 1 # 1 /\ Tail(list)[i] = list[i + 1]
        BY <3>2
      <4> QED BY <1>1, <3>1, <3>2, <4>1 DEF IsFree, Chained
    <3>4. \A k \in 1 .. Len(refs) : refs[k].ref # ref
      BY <1>1, <3>1, <3>2 DEF IsFree
    <3> QED BY <3>1, <3>2, <3>3, <3>4
  <2>2. CASE FirstFree = 0
    <3>1. t[0] = 0 /\ t' = [t EXCEPT ![0] = t[t[0]], ![ref] = v]
      BY <1>2, <2>2 DEF FirstFree, FreeListRef, Taken
    <3>2. PICK n \in Borders : ref = n + 1
      BY <1>2, <2>2
    <3>3. ref \in Indices /\ t[ref] = 0
      BY <1>0, <1>2, <1>3, <3>2 DEF Borders, Indices
    <3>4. \A k \in 1 .. Len(refs) : refs[k].ref # ref
      BY <1>0, <1>4, <3>3
    <3>5. t'[0] = 0
      BY <1>0, <1>3, <3>1, <3>3 DEF Indices
    <3>6. Chained(t', <<>>) /\ <<>> \in Seq(Indices) /\ \A i \in 1 .. Len(<<>>) : FALSE
      BY <3>5 DEF Chained
    <3> QED BY <3>1, <3>3, <3>4, <3>6
  <2> QED BY <2>1, <2>2
<1> DEFINE new == [ref |-> ref, val |-> v]
<1>6. /\ refs' \in Seq(Held) /\ Len(refs') = Len(refs) + 1 /\ Len(refs) \in Nat
      /\ refs'[Len(refs) + 1] = new /\ \A k \in 1 .. Len(refs) : refs'[k] = refs[k]
  <2>1. new \in Held
    BY <1>5 DEF Held
  <2> HIDE DEF Held
  <2> QED BY <1>2, <1>3, <2>1
<1>7. t[t[0]] \in RefValues \cup (0 .. MaxRefs)
  <2>1. t[0] \in 0 .. MaxRefs
    BY <1>0, <1>1 DEF IsFree, Chained, Indices
  <2> QED BY <1>3, <2>1
<1>8. RefTypeOK'
  BY <1>3, <1>5, <1>6, <1>7 DEF RefTypeOK
<1>9. RefsKept'
  <2>1. \A k \in 1 .. Len(refs) : t'[refs[k].ref] = refs[k].val
    BY <1>3, <1>4, <1>5 DEF Indices
  <2>2. t'[ref] = v
    BY <1>3, <1>5 DEF Indices
  <2>3. \A k \in 1 .. Len(refs') : t'[refs'[k].ref] = refs'[k].val
    BY <1>6, <2>1, <2>2
  <2>4. \A k, n \in 1 .. Len(refs') : refs'[k].ref = refs'[n].ref => k = n
    <3> SUFFICES ASSUME NEW k \in 1 .. Len(refs'), NEW n \in 1 .. Len(refs'), refs'[k].ref = refs'[n].ref
                 PROVE  k = n
      OBVIOUS
    <3>1. CASE k \in 1 .. Len(refs) /\ n \in 1 .. Len(refs)
      <4>1. DOMAIN refs = 1 .. Len(refs)
        BY <1>3
      <4> QED BY <1>6, <3>1, <4>1 DEF RefInv, RefsKept
    <3>2. CASE k = Len(refs) + 1 /\ n \in 1 .. Len(refs)
      BY <1>5, <1>6, <3>2
    <3>3. CASE n = Len(refs) + 1 /\ k \in 1 .. Len(refs)
      BY <1>5, <1>6, <3>3
    <3> QED BY <1>6, <3>1, <3>2, <3>3
  <2>5. DOMAIN refs' = 1 .. Len(refs')
    BY <1>6
  <2> QED BY <2>3, <2>4, <2>5 DEF RefsKept
<1>10. \E rest \in Seq(Indices) : IsFree(rest)'
  <2>1. PICK rest \in Seq(Indices) :
           /\ Chained(t', rest)
           /\ \A i \in 1 .. Len(rest) : rest[i] # ref
           /\ \A k \in 1 .. Len(refs) : \A i \in 1 .. Len(rest) : refs[k].ref # rest[i]
    BY <1>5
  <2>2. ASSUME NEW k \in 1 .. Len(refs'), NEW i \in 1 .. Len(rest) PROVE refs'[k].ref # rest[i]
    <3>1. CASE k \in 1 .. Len(refs)
      BY <1>6, <2>1, <3>1
    <3>2. CASE k = Len(refs) + 1
      BY <1>6, <2>1, <3>2
    <3> QED BY <1>6, <3>1, <3>2
  <2> QED BY <2>1, <2>2 DEF IsFree
<1> QED BY <1>8, <1>9, <1>10 DEF RefInv

LEMMA Joined ==
  ASSUME NEW S, NEW a \in Seq(S), NEW b \in Seq(S)
  PROVE  /\ a \o b \in Seq(S) /\ Len(a \o b) = Len(a) + Len(b)
         /\ \A i \in 1 .. Len(a) + Len(b) : (a \o b)[i] = IF i <= Len(a) THEN a[i] ELSE b[i - Len(a)]
OBVIOUS

\* The references without one, each of which was at its place or at the next.
LEMMA Removed ==
  ASSUME NEW S, NEW st \in Seq(S), NEW k \in 1 .. Len(st)
  PROVE  /\ RemoveAt(st, k) \in Seq(S) /\ Len(RemoveAt(st, k)) = Len(st) - 1
         /\ \A i \in 1 .. Len(st) - 1 : RemoveAt(st, k)[i] = IF i < k THEN st[i] ELSE st[i + 1]
<1> DEFINE a == SubSeq(st, 1, k - 1)
           b == SubSeq(st, k + 1, Len(st))
<1>1. /\ a \in Seq(S) /\ Len(a) = k - 1 /\ \A i \in 1 .. k - 1 : a[i] = st[i]
      /\ b \in Seq(S) /\ Len(b) = Len(st) - k /\ \A i \in 1 .. Len(st) - k : b[i] = st[i + k]
  OBVIOUS
<1>2. RemoveAt(st, k) = a \o b
  BY DEF RemoveAt
<1> HIDE DEF a, b
<1>3. /\ a \o b \in Seq(S) /\ Len(a \o b) = Len(a) + Len(b)
      /\ \A i \in 1 .. Len(a) + Len(b) : (a \o b)[i] = IF i <= Len(a) THEN a[i] ELSE b[i - Len(a)]
  BY <1>1, Joined
<1>4. ASSUME NEW i \in 1 .. Len(st) - 1
      PROVE  (a \o b)[i] = IF i < k THEN st[i] ELSE st[i + 1]
  <2>1. CASE i < k
    BY <1>1, <1>3, <2>1
  <2>2. CASE ~ (i < k)
    <3>1. i - Len(a) \in 1 .. Len(st) - k /\ (i - Len(a)) + k = i + 1 /\ ~ (i <= Len(a))
          /\ i \in 1 .. Len(a) + Len(b)
      BY <1>1, <2>2
    <3> QED BY <1>1, <1>3, <2>2, <3>1
  <2> QED BY <2>1, <2>2
<1> QED BY <1>1, <1>2, <1>3, <1>4

\* An index that is put before a list it is not in.
LEMMA ChainKept ==
  ASSUME MaxRefs \in Nat, NEW tab \in [0 .. MaxRefs -> RefValues \cup (0 .. MaxRefs)],
         NEW list \in Seq(Indices), Chained(tab, list), NEW ref \in Indices,
         \A i \in 1 .. Len(list) : list[i] # ref,
         NEW new, new = [tab EXCEPT ![ref] = tab[0], ![0] = ref]
  PROVE  /\ Put(ref, list) \in Seq(Indices) /\ Len(Put(ref, list)) = Len(list) + 1
         /\ Put(ref, list)[1] = ref
         /\ \A i \in 2 .. Len(list) + 1 : Put(ref, list)[i] = list[i - 1]
         /\ Chained(new, Put(ref, list))
<1> DEFINE longer == Put(ref, list)
<1>1. /\ longer \in Seq(Indices) /\ Len(longer) = Len(list) + 1 /\ Len(list) \in Nat
      /\ longer[1] = ref /\ longer # <<>>
      /\ \A i \in 2 .. Len(list) + 1 : longer[i] = list[i - 1]
  BY DEF Put
<1>2. list = <<>> <=> Len(list) = 0
  BY EmptyList
<1>3. \A i \in 1 .. Len(list) : list[i] \in Indices
  OBVIOUS
<1> HIDE DEF longer
<1>4. new[0] = ref /\ new[ref] = tab[0]
  BY DEF Indices
<1>5. ASSUME NEW i \in 1 .. Len(longer)
      PROVE  new[longer[i]] = IF i = Len(longer) THEN 0 ELSE longer[i + 1]
  <2>1. CASE i = 1
    <3>1. Len(list) # 0 => longer[1 + 1] = list[1]
      BY <1>1
    <3>2. tab[0] = IF list = <<>> THEN 0 ELSE list[1]
      BY DEF Chained
    <3> QED BY <1>1, <1>2, <1>4, <2>1, <3>1, <3>2
  <2>2. CASE i # 1
    <3>1. i - 1 \in 1 .. Len(list) /\ longer[i] = list[i - 1] /\ (i - 1 = Len(list) <=> i = Len(longer))
      BY <1>1, <2>2
    <3>2. i # Len(longer) => longer[i + 1] = list[(i - 1) + 1]
      <4>1. (i + 1) - 1 = (i - 1) + 1 /\ (i # Len(longer) => i + 1 \in 2 .. Len(list) + 1)
        BY <1>1, <2>2
      <4> QED BY <1>1, <4>1
    <3>3. tab[list[i - 1]] = IF i - 1 = Len(list) THEN 0 ELSE list[(i - 1) + 1]
      BY <3>1 DEF Chained
    <3>4. new[list[i - 1]] = tab[list[i - 1]]
      BY <1>3, <3>1 DEF Indices
    <3> QED BY <3>1, <3>2, <3>3, <3>4
  <2> QED BY <2>1, <2>2
<1>6. ASSUME NEW i \in 1 .. Len(longer), NEW j \in 1 .. Len(longer), longer[i] = longer[j]
      PROVE  i = j
  <2>0. \A n \in 1 .. Len(longer) : n # 1 => n - 1 \in 1 .. Len(list) /\ longer[n] = list[n - 1]
    BY <1>1
  <2>1. CASE i = 1 /\ j # 1
    BY <1>1, <1>6, <2>0, <2>1
  <2>2. CASE i # 1 /\ j = 1
    BY <1>1, <1>6, <2>0, <2>2
  <2>3. CASE i # 1 /\ j # 1
    <3>1. i - 1 \in 1 .. Len(list) /\ j - 1 \in 1 .. Len(list) /\ list[i - 1] = list[j - 1]
      BY <1>1, <1>6, <2>3
    <3> QED BY <3>1 DEF Chained
  <2> QED BY <2>1, <2>2, <2>3
<1>7. Chained(new, longer)
  BY <1>1, <1>4, <1>5, <1>6 DEF Chained
<1> QED BY <1>1, <1>7 DEF longer

LEMMA UnrefKeeps ==
  ASSUME RefInv, NEW k \in DOMAIN refs, Unref(k)
  PROVE  RefInv'
<1>0. MaxRefs \in Nat
  BY LuaAuxiliaryAssumption
<1>1. PICK list \in Seq(Indices) : IsFree(list)
  BY DEF RefInv
<1>2. /\ t \in [0 .. MaxRefs -> RefValues \cup (0 .. MaxRefs)] /\ refs \in Seq(Held)
      /\ DOMAIN refs = 1 .. Len(refs) /\ Len(refs) \in Nat
  BY DEF RefInv, RefTypeOK
<1> DEFINE ref == refs[k].ref
<1>3. \A n \in 1 .. Len(refs) : refs[n] \in Held /\ refs[n].ref \in Indices /\ refs[n].val \in RefValues
  <2>1. \A n \in 1 .. Len(refs) : refs[n] \in Held
    BY <1>2
  <2> QED BY <2>1 DEF Held
<1>4. /\ \A n \in 1 .. Len(refs) : t[refs[n].ref] = refs[n].val
      /\ \A n, m \in 1 .. Len(refs) : refs[n].ref = refs[m].ref => n = m
  BY <1>2 DEF RefInv, RefsKept
<1>5. /\ k \in 1 .. Len(refs) /\ ref \in Indices
      /\ t' = [t EXCEPT ![ref] = t[0], ![0] = ref] /\ refs' = RemoveAt(refs, k)
  BY <1>2, <1>3 DEF Unref, FirstFree, FreeListRef
<1>6. /\ refs' \in Seq(Held) /\ Len(refs') = Len(refs) - 1 /\ DOMAIN refs' = 1 .. Len(refs')
      /\ \A i \in 1 .. Len(refs) - 1 : refs'[i] = IF i < k THEN refs[i] ELSE refs[i + 1]
  <2>1. /\ refs' \in Seq(Held) /\ Len(refs') = Len(refs) - 1
        /\ \A i \in 1 .. Len(refs) - 1 : refs'[i] = IF i < k THEN refs[i] ELSE refs[i + 1]
    BY <1>2, <1>5, Removed
  <2> QED BY <2>1
\* Each of the others was at a place of its own.
<1> DEFINE at(i) == IF i < k THEN i ELSE i + 1
<1>7. \A i \in 1 .. Len(refs') : at(i) \in 1 .. Len(refs) /\ at(i) # k /\ refs'[i] = refs[at(i)]
  BY <1>2, <1>5, <1>6
<1>8. \A i, j \in 1 .. Len(refs') : at(i) = at(j) => i = j
  BY <1>2, <1>5, <1>6
<1> HIDE DEF at
<1>9. \A i \in 1 .. Len(list) : list[i] # ref
  BY <1>1, <1>5 DEF IsFree
<1>10. t[0] \in 0 .. MaxRefs
  BY <1>0, <1>1 DEF IsFree, Chained, Indices
<1> HIDE DEF ref
<1>11. RefTypeOK'
  BY <1>0, <1>2, <1>5, <1>6, <1>10 DEF RefTypeOK, Indices
<1>12. RefsKept'
  <2>1. ASSUME NEW i \in 1 .. Len(refs') PROVE t'[refs'[i].ref] = refs'[i].val
    <3>1. refs[at(i)].ref # ref /\ refs[at(i)].ref \in Indices
      BY <1>3, <1>4, <1>5, <1>7 DEF ref
    <3>2. t'[refs[at(i)].ref] = t[refs[at(i)].ref]
      BY <1>2, <1>5, <3>1 DEF Indices
    <3> QED BY <1>4, <1>7, <3>2
  <2>2. ASSUME NEW i \in 1 .. Len(refs'), NEW j \in 1 .. Len(refs'), refs'[i].ref = refs'[j].ref
        PROVE  i = j
    BY SMTT(60), <1>4, <1>7, <1>8, <2>2
  <2> QED BY <1>6, <2>1, <2>2 DEF RefsKept
<1>13. \E longer \in Seq(Indices) : IsFree(longer)'
  <2>1. /\ Put(ref, list) \in Seq(Indices) /\ Len(Put(ref, list)) = Len(list) + 1 /\ Len(list) \in Nat
        /\ Put(ref, list)[1] = ref
        /\ \A i \in 2 .. Len(list) + 1 : Put(ref, list)[i] = list[i - 1]
        /\ Chained(t', Put(ref, list))
    <3>1. Chained(t, list) /\ Len(list) \in Nat
      BY <1>1 DEF IsFree
    <3>2. t' = [t EXCEPT ![ref] = t[0], ![0] = ref] /\ ref \in Indices
      BY <1>5
    <3> QED BY <1>0, <1>2, <1>9, <3>1, <3>2, ChainKept
  <2> DEFINE longer == Put(ref, list)
  <2>2. ASSUME NEW n \in 1 .. Len(refs'), NEW i \in 1 .. Len(longer)
        PROVE  refs'[n].ref # longer[i]
    <3>1. CASE i = 1
      BY <1>4, <1>5, <1>7, <2>1, <3>1 DEF ref
    <3>2. CASE i # 1
      <4>1. i - 1 \in 1 .. Len(list) /\ longer[i] = list[i - 1]
        BY <2>1, <3>2
      <4> QED BY <1>1, <1>7, <4>1 DEF IsFree
    <3> QED BY <3>1, <3>2
  <2> HIDE DEF longer
  <2>3. longer \in Seq(Indices) /\ Chained(t', longer)
    BY <2>1 DEF longer
  <2> QED BY <2>2, <2>3 DEF IsFree
<1> QED BY <1>11, <1>12, <1>13 DEF RefInv

\* However references are made and given back: each that is held refers to its value, and
\* no two are the same (luaL_ref, luaL_unref).
THEOREM ReferencesKept == AuxSpec => []RefsKept
<1>1. RefInv /\ [AuxNext]_auxVars => RefInv'
  <2> SUFFICES ASSUME RefInv, [AuxNext]_auxVars PROVE RefInv'
    OBVIOUS
  <2>1. CASE UNCHANGED <<t, refs>>
    BY SMTT(60), <2>1 DEF RefInv, RefTypeOK, RefsKept, IsFree, Chained
  <2>2. AddChar \/ (\E n \in Lengths : AddValue(n)) \/ UNCHANGED auxVars => UNCHANGED <<t, refs>>
    BY DEF AddChar, AddValue, auxVars
  <2> QED BY <2>1, <2>2, RefKeeps, UnrefKeeps DEF AuxNext
<1>2. RefInv => RefsKept
  BY DEF RefInv
<1> QED BY <1>1, <1>2, RefInit, PTL DEF AuxSpec

-----------------------------------------------------------------------------
(* Buffers: what is on the stack, from the bottom up, and then in the array *)
(* is what was added.                                                       *)

Numbers(n) == [k \in 1 .. n |-> k]
After(m, n) == [k \in 1 .. n |-> m + k]
OnStack(strings) == FlattenSeq(Reverse(strings))
BufferInv ==
  /\ buffer \in Seq(Nat) /\ stack \in Seq(Seq(Nat)) /\ added \in Nat
  /\ OnStack(stack) \o buffer = Numbers(added) /\ Len(stack) < Limit

\* A string on top of the others comes last.
LEMMA AddedOnTop ==
  ASSUME NEW S, NEW strings \in Seq(Seq(S)), NEW v \in Seq(S)
  PROVE  <<v>> \o strings \in Seq(Seq(S)) /\ OnStack(<<v>> \o strings) = OnStack(strings) \o v
<1>1. <<v>> \in Seq(Seq(S)) /\ Reverse(<<v>>) = <<v>>
  BY DEF Reverse
<1>2. <<v>> \o strings \in Seq(Seq(S)) /\ Reverse(<<v>> \o strings) = Reverse(strings) \o <<v>>
  BY <1>1, ReverseConcat, ConcatProperties
<1>3. FlattenSeq(Reverse(strings) \o <<v>>) = FlattenSeq(Reverse(strings)) \o FlattenSeq(<<v>>)
  BY ZenonT(60), <1>1, ReverseFacts, FlattenConcat
<1>4. FlattenSeq(<<v>>) = v
  BY FlattenOne
<1> QED BY <1>2, <1>3, <1>4 DEF OnStack

\* Joining the topmost strings changes nothing but how many they are.
LEMMA Adjusted ==
  ASSUME NEW S, NEW strings \in Seq(Seq(S))
  PROVE  /\ AdjustStack(strings) \in Seq(Seq(S)) /\ Len(AdjustStack(strings)) < Limit
         /\ OnStack(AdjustStack(strings)) = OnStack(strings)
<1>0. Limit \in Nat /\ Limit > 1
  BY LuaAuxiliaryAssumption
<1>1. PICK lvl \in Nat : lvl = Len(strings)
  BY LenProperties
<1>2. CASE lvl <= 1
  <2>1. AdjustStack(strings) = strings
    BY <1>1, <1>2 DEF AdjustStack
  <2> QED BY <2>1, <1>0, <1>1, <1>2
<1>3. CASE ~(lvl <= 1)
  <2> DEFINE enough(n) == n = lvl \/ (lvl - n + 1 < Limit /\ TopLength(strings, n) <= Len(strings[n + 1]))
             T == {n \in 1 .. lvl : enough(n)}
  <2>1. T \subseteq Nat /\ lvl \in T
    BY <1>3
  <2>2. PICK n : n = Min(T)
    OBVIOUS
  <2>3. n \in T
    <3> HIDE DEF T
    <3> QED BY <2>1, <2>2, MinIsLeast
  <2>4. n \in 1 .. lvl /\ n \in Nat /\ lvl - n + 1 < Limit
    BY <1>0, <2>3
  <2>5. PICK top \in Seq(Seq(S)), rest \in Seq(Seq(S)) :
          top = SubSeq(strings, 1, n) /\ rest = SubSeq(strings, n + 1, lvl)
    <3>1. SubSeq(strings, 1, n) \in Seq(Seq(S)) /\ SubSeq(strings, n + 1, lvl) \in Seq(Seq(S))
      BY <1>1, <2>4
    <3> QED BY <3>1
  <2>6. strings = top \o rest /\ Len(rest) = lvl - n
    BY <1>1, <2>4, <2>5
  <2>7. PICK joined \in Seq(S) : joined = FlattenSeq(Reverse(top))
    BY ReverseFacts, FlattenType
  <2>8. AdjustStack(strings) = <<joined>> \o rest
    BY <1>1, <1>3, <2>2, <2>5, <2>7 DEF AdjustStack
  <2>9. AdjustStack(strings) \in Seq(Seq(S)) /\ OnStack(AdjustStack(strings)) = OnStack(rest) \o joined
    BY <2>8, AddedOnTop
  <2>10. OnStack(strings) = OnStack(rest) \o joined
    <3>1. PICK a \in Seq(Seq(S)), b \in Seq(Seq(S)) : a = Reverse(rest) /\ b = Reverse(top)
      BY ReverseFacts
    <3>2. Reverse(strings) = a \o b
      BY <2>6, <3>1, ReverseConcat
    <3>3. FlattenSeq(a \o b) = FlattenSeq(a) \o FlattenSeq(b)
      BY FlattenConcat
    <3> QED BY <2>7, <3>1, <3>2, <3>3 DEF OnStack
  <2>11. Len(AdjustStack(strings)) = 1 + (lvl - n)
    BY <2>6, <2>8
  <2> QED BY <2>4, <2>9, <2>10, <2>11
<1> QED BY <1>2, <1>3

\* emptybuffer.
LEMMA Emptied ==
  ASSUME BufferInv
  PROVE  EmptyBuffer \in Seq(Seq(Nat)) /\ OnStack(EmptyBuffer) = Numbers(added)
<1>1. CASE buffer = <<>>
  <2>1. OnStack(stack) \in Seq(Nat)
    BY ReverseFacts, FlattenType DEF BufferInv, OnStack
  <2>2. OnStack(stack) \o <<>> = OnStack(stack)
    BY <2>1, ConcatEmptySeq
  <2> QED BY <1>1, <2>2 DEF BufferInv, EmptyBuffer
<1>2. CASE buffer # <<>>
  <2>1. EmptyBuffer = <<buffer>> \o stack
    BY <1>2 DEF EmptyBuffer
  <2> QED BY <2>1, AddedOnTop DEF BufferInv
<1> QED BY <1>1, <1>2

LEMMA Added ==
  ASSUME NEW m \in Nat, NEW n \in Nat
  PROVE  /\ Numbers(m) \in Seq(Nat) /\ After(m, n) \in Seq(Nat)
         /\ Numbers(m) \o After(m, n) = Numbers(m + n)
         /\ Numbers(m) \o <<m + 1>> = Numbers(m + 1)
<1>1. Numbers(m) \in Seq(Nat) /\ Numbers(m + n) \in Seq(Nat) /\ Numbers(m + 1) \in Seq(Nat)
  BY DEF Numbers
<1>2. After(m, n) \in Seq(Nat)
  BY DEF After
<1> QED BY <1>1, <1>2 DEF Numbers, After

LEMMA AddCharKeeps ==
  ASSUME BufferInv, AddChar
  PROVE  BufferInv'
<1>1. PICK n \in Nat, c \in Nat : n = added /\ c = n + 1 /\ added' = c
  BY DEF BufferInv, AddChar
<1>2. CASE Len(buffer) < BufferSize
  <2>1. buffer' = Append(buffer, c) /\ stack' = stack
    BY <1>1, <1>2 DEF AddChar
  <2>2. PICK below \in Seq(Nat), b \in Seq(Nat) : below = OnStack(stack) /\ b = buffer
    BY ReverseFacts, FlattenType DEF BufferInv, OnStack
  <2>3. below \o Append(b, c) = (below \o b) \o <<c>> /\ Append(b, c) \in Seq(Nat)
    BY <1>1
  <2>4. below \o b = Numbers(n)
    BY <1>1, <2>2 DEF BufferInv
  <2>5. below \o Append(b, c) = Numbers(c)
    BY <1>1, <2>3, <2>4, Added
  <2> QED BY <1>1, <2>1, <2>2, <2>3, <2>5 DEF BufferInv
<1>3. CASE ~(Len(buffer) < BufferSize)
  <2>1. stack' = AdjustStack(EmptyBuffer) /\ buffer' = <<c>>
    BY <1>1, <1>3 DEF AddChar
  <2>2. stack' \in Seq(Seq(Nat)) /\ Len(stack') < Limit /\ OnStack(stack') = Numbers(n)
    BY <1>1, <2>1, Emptied, Adjusted
  <2>3. Numbers(n) \o <<c>> = Numbers(c)
    BY <1>1, Added
  <2> QED BY <1>1, <2>1, <2>2, <2>3 DEF BufferInv
<1> QED BY <1>2, <1>3

LEMMA AddValueKeeps ==
  ASSUME BufferInv, NEW len \in Lengths, AddValue(len)
  PROVE  BufferInv'
<1>1. PICK n \in Nat, d \in Nat : n = added /\ d = len /\ added' = n + d
  BY LuaAuxiliaryAssumption DEF BufferInv, AddValue
<1>2. PICK v \in Seq(Nat) : v = After(n, d)
  BY Added
<1>3. Numbers(n) \o v = Numbers(n + d) /\ n + d \in Nat /\ Numbers(n + d) \in Seq(Nat)
  <2>1. PICK a \in Nat : a = n + d
    OBVIOUS
  <2>2. Numbers(n) \o v = Numbers(n + d)
    BY <1>2, Added
  <2>3. Numbers(a) \in Seq(Nat)
    BY Added
  <2> QED BY <2>1, <2>2, <2>3
<1>4. CASE len <= BufferSize - Len(buffer)
  <2>1. buffer' = buffer \o v /\ stack' = stack
    BY <1>1, <1>2, <1>4 DEF AddValue, After
  <2>2. PICK below \in Seq(Nat), b \in Seq(Nat) : below = OnStack(stack) /\ b = buffer
    BY ReverseFacts, FlattenType DEF BufferInv, OnStack
  <2>3. below \o (b \o v) = (below \o b) \o v /\ b \o v \in Seq(Nat)
    BY SMTT(60), ConcatAssociative, ConcatProperties
  <2>4. below \o b = Numbers(n)
    BY <1>1, <2>2 DEF BufferInv
  <2> QED BY <1>1, <1>3, <2>1, <2>2, <2>3, <2>4 DEF BufferInv
<1>5. CASE ~(len <= BufferSize - Len(buffer))
  <2>1. stack' = AdjustStack(<<v>> \o EmptyBuffer) /\ buffer' = <<>>
    BY <1>1, <1>2, <1>5 DEF AddValue, WithValue, After
  <2>2. EmptyBuffer \in Seq(Seq(Nat)) /\ OnStack(EmptyBuffer) = Numbers(n)
    BY <1>1, Emptied
  <2>3. PICK all \in Seq(Seq(Nat)) : all = <<v>> \o EmptyBuffer /\ OnStack(all) = Numbers(n + d)
    BY <1>3, <2>2, AddedOnTop
  <2>4. stack' \in Seq(Seq(Nat)) /\ Len(stack') < Limit /\ OnStack(stack') = Numbers(n + d)
    BY <2>1, <2>3, Adjusted
  <2>5. Numbers(n + d) \o <<>> = Numbers(n + d)
    BY <1>3, Added, ConcatEmptySeq
  <2> QED BY <1>1, <1>3, <2>1, <2>4, <2>5 DEF BufferInv
<1> QED BY <1>4, <1>5

LEMMA BufferInit == AuxInit => BufferInv
<1> SUFFICES ASSUME AuxInit PROVE BufferInv
  OBVIOUS
<1>1. OnStack(<<>>) = <<>> /\ Numbers(0) = <<>>
  <2>1. Reverse(<<>>) = <<>>
    BY DEF Reverse
  <2> QED BY <2>1, FlattenEmpty DEF OnStack, Numbers
<1>2. Limit > 0
  BY LuaAuxiliaryAssumption
<1> QED BY <1>1, <1>2 DEF AuxInit, BufferInv

\* A buffer gives back what was added to it, in order, however its strings were joined and
\* wherever a value was put below or on top of them, and never takes LIMIT places of the
\* stack (luaL_addvalue, adjuststack).
THEOREM BufferInOrder == AuxSpec => []BufferKept
<1>1. BufferInv /\ [AuxNext]_auxVars => BufferInv'
  <2> SUFFICES ASSUME BufferInv, [AuxNext]_auxVars PROVE BufferInv'
    OBVIOUS
  <2>1. ASSUME UNCHANGED <<buffer, stack, added>> PROVE BufferInv'
    BY <2>1 DEF BufferInv, OnStack
  <2>2. ASSUME NEW v \in RefValues, Ref(v) PROVE BufferInv'
    BY <2>1, <2>2 DEF Ref
  <2>3. ASSUME NEW k \in DOMAIN refs, Unref(k) PROVE BufferInv'
    BY <2>1, <2>3 DEF Unref
  <2>4. CASE UNCHANGED auxVars
    BY <2>1, <2>4 DEF auxVars
  <2> QED BY <2>2, <2>3, <2>4, AddCharKeeps, AddValueKeeps DEF AuxNext
<1>2. BufferInv => BufferKept
  BY DEF BufferInv, BufferKept, OnStack, Numbers
<1> QED BY <1>1, <1>2, BufferInit, PTL DEF AuxSpec

-----------------------------------------------------------------------------
(* MD5.  Division, and what is cut from a sequence.                         *)

LEMMA Divide ==
  ASSUME NEW a \in Nat, NEW b \in Nat \ {0}
  PROVE  a \div b \in Nat /\ a % b \in 0 .. b - 1 /\ a = (a \div b) * b + (a % b)
OBVIOUS

LEMMA DivideIs ==
  ASSUME NEW a \in Nat, NEW b \in Nat \ {0}, NEW q \in Int, NEW r \in 0 .. b - 1, a = q * b + r
  PROVE  a \div b = q /\ a % b = r
<1>1. PICK x \in Nat, y \in 0 .. b - 1 : x = a \div b /\ y = a % b /\ a = x * b + y
  BY Divide
<1>2. CASE x <= q - 1
  <2>1. x * b <= (q - 1) * b
    BY <1>1, <1>2
  <2>2. (q - 1) * b = q * b - b
    OBVIOUS
  <2> QED BY <1>1, <2>1, <2>2
<1>3. CASE q <= x - 1
  <2>1. q * b <= (x - 1) * b
    BY <1>1, <1>3
  <2>2. (x - 1) * b = x * b - b
    OBVIOUS
  <2> QED BY <1>1, <2>1, <2>2
<1>4. CASE x = q
  BY <1>1, <1>4
<1> QED BY <1>1, <1>2, <1>3, <1>4

LEMMA DivideSmall ==
  ASSUME NEW b \in Nat \ {0}, NEW a \in 0 .. b - 1
  PROVE  a \div b = 0 /\ a % b = a
OBVIOUS

LEMMA AddMod ==
  ASSUME NEW a \in Nat, NEW b \in Nat, NEW w \in Nat \ {0}
  PROVE  ((a % w) + b) % w = (a + b) % w /\ ((a % w) + (b % w)) % w = (a + b) % w
<1>1. PICK x \in Nat, y \in 0 .. w - 1 : y = a % w /\ a = x * w + y
  BY Divide
<1>2. PICK c \in Nat, d \in 0 .. w - 1 : d = b % w /\ b = c * w + d
  BY Divide
<1>3. PICK q \in Nat, r \in 0 .. w - 1 : r = (y + d) % w /\ y + d = q * w + r
  <2>1. y + d \in Nat
    OBVIOUS
  <2> QED BY <2>1, Divide
<1> PICK xw \in Int, cw \in Int, qw \in Int : xw = x * w /\ cw = c * w /\ qw = q * w
  OBVIOUS
<1>4. a + b = (x + c + q) * w + r
  <2>1. (x + c + q) * w = xw + cw + qw
    OBVIOUS
  <2>2. a = xw + y /\ b = cw + d /\ y + d = qw + r
    BY <1>1, <1>2, <1>3
  <2>3. a + b = (xw + cw + qw) + r
    BY ONLY <2>2, a \in Nat, b \in Nat, y \in Int, d \in Int, xw \in Int, cw \in Int, qw \in Int, r \in Int
  <2> QED BY <2>1, <2>3
<1>5. y + b = (c + q) * w + r
  <2>1. (c + q) * w = cw + qw
    OBVIOUS
  <2>2. b = cw + d /\ y + d = qw + r
    BY <1>2, <1>3
  <2>3. y + b = (cw + qw) + r
    BY ONLY <2>2, b \in Nat, y \in Int, d \in Int, cw \in Int, qw \in Int, r \in Int
  <2> QED BY <2>1, <2>3
<1>6. (a + b) % w = r
  <2>1. a + b \in Nat /\ x + c + q \in Int
    OBVIOUS
  <2> QED BY <2>1, <1>4, DivideIs
<1>7. (y + b) % w = r
  <2>1. y + b \in Nat /\ c + q \in Int
    OBVIOUS
  <2> QED BY <2>1, <1>5, DivideIs
<1> QED BY <1>1, <1>2, <1>3, <1>6, <1>7

\* The bytes of a word, which are a multiple of a block.
LEMMA WordBytes ==
  \E k \in Nat \ {0} : Word = 8 * (k * Block) /\ Word \div 8 = k * Block /\ k * Block \in Nat \ {0}
<1>1. Word \in Nat \ {0} /\ Block \in Nat \ {0, 1} /\ 8 * Block \in Nat \ {0} /\ Word % (8 * Block) = 0
  BY Md5StreamAssumption
<1>2. PICK k \in Nat : Word = k * (8 * Block) + 0
  BY <1>1, Divide
<1>3. k * (8 * Block) = 8 * (k * Block)
  BY <1>1
<1>4. k # 0
  BY <1>1, <1>2
<1>5. k * Block \in Nat
  BY <1>1
<1>6. k * Block # 0
  BY <1>1, <1>2, <1>3
<1> QED BY <1>1, <1>2, <1>3, <1>4, <1>5, <1>6

\* Numbers of bytes that fill blocks, and the words that count bytes in bits.
Multiple(n) == \E q \in Nat : n = q * Block
CountOf(n)  == (8 * n) % Word

LEMMA Multiples ==
  /\ Multiple(0) /\ Multiple(Block)
  /\ \A x, y \in Nat : Multiple(x) /\ Multiple(y) => Multiple(x + y)
<1>1. Block \in Nat
  BY Md5StreamAssumption
<1>2. 0 = 0 * Block /\ Block = 1 * Block
  BY <1>1
<1>3. ASSUME NEW x \in Nat, NEW y \in Nat, Multiple(x), Multiple(y) PROVE Multiple(x + y)
  <2>1. PICK a \in Nat, b \in Nat : x = a * Block /\ y = b * Block
    BY <1>3 DEF Multiple
  <2>2. (a + b) * Block = a * Block + b * Block /\ a + b \in Nat
    BY <1>1
  <2> QED BY <2>1, <2>2 DEF Multiple
<1> QED BY <1>2, <1>3 DEF Multiple

LEMMA RemainderIs ==
  ASSUME NEW n \in Nat, NEW r \in 0 .. Block - 1, r <= n, Multiple(n - r)
  PROVE  n % Block = r
<1>1. Block \in Nat \ {0}
  BY Md5StreamAssumption
<1>2. PICK q \in Nat : n - r = q * Block
  BY DEF Multiple
<1>3. q * Block \in Nat
  BY <1>1
<1>4. n = q * Block + r
  BY <1>2, <1>3
<1> QED BY <1>1, <1>4, DivideIs

\* The count of bits, as the low word keeps it, tells how full the block is.
LEMMA CountTells ==
  ASSUME NEW n \in Nat
  PROVE  /\ CountOf(n) \in Nat /\ CountOf(n) < Word /\ (CountOf(n) \div 8) % Block = n % Block
         /\ (8 * n) \div Word = n \div (Word \div 8) /\ (8 * n) \div Word \in Nat
<1>1. PICK k \in Nat \ {0}, w \in Nat \ {0} : Word = 8 * w /\ Word \div 8 = w /\ w = k * Block
  BY WordBytes
<1>2. Block \in Nat \ {0, 1} /\ Word \in Nat \ {0}
  BY Md5StreamAssumption
<1>3. PICK q \in Nat, r \in 0 .. w - 1 : n \div w = q /\ n % w = r /\ n = q * w + r
  BY Divide
<1>4. 8 * n = q * (8 * w) + 8 * r /\ 8 * r \in 0 .. 8 * w - 1
  <2>1. q * (8 * w) = 8 * (q * w)
    OBVIOUS
  <2> QED BY <2>1, <1>3
<1>5. (8 * n) % Word = 8 * r /\ (8 * n) \div Word = q
  <2>1. PICK a \in Nat, b \in Nat \ {0} : a = 8 * n /\ b = 8 * w /\ b = Word
    BY <1>1
  <2>2. PICK z \in 0 .. b - 1 : z = 8 * r /\ a = q * b + z
    BY <2>1, <1>4
  <2>3. a % b = z /\ a \div b = q
    BY ONLY a \in Nat, b \in Nat \ {0}, z \in 0 .. b - 1, q \in Nat, <2>2, DivideIs
  <2> QED BY <2>1, <2>2, <2>3
<1>6. (8 * r) \div 8 = r
  OBVIOUS
<1>7. PICK x \in Nat, y \in 0 .. Block - 1 : r % Block = y /\ r = x * Block + y
  <2>1. r \in Nat /\ Block \in Nat \ {0}
    BY <1>2
  <2> QED BY ZenonT(60), <2>1, Divide
<1>8. n = (q * k + x) * Block + y
  <2>1. q * (k * Block) = (q * k) * Block
    BY <1>2
  <2>2. (q * k + x) * Block = (q * k) * Block + x * Block
    BY <1>2
  <2> QED BY <2>1, <2>2, <1>1, <1>3, <1>7, <1>2
<1>9. n % Block = y
  <2>1. q * k + x \in Int
    OBVIOUS
  <2> QED BY <2>1, <1>2, <1>8, DivideIs
<1>10. 8 * r \in Nat /\ 8 * r < Word
  BY <1>1
<1> QED BY <1>1, <1>3, <1>5, <1>6, <1>7, <1>9, <1>10 DEF CountOf

Chunks(a, n) == [k \in 1 .. n |-> SubSeq(a, (k - 1) * Block + 1, k * Block)]

LEMMA ChunksJoined ==
  ASSUME NEW S, NEW a \in Seq(S), NEW n \in Nat, n * Block <= Len(a)
  PROVE  /\ Chunks(a, n) \in Seq(Seq(S)) /\ Len(Chunks(a, n)) = n
         /\ \A k \in 1 .. n : Len(Chunks(a, n)[k]) = Block
         /\ FlattenSeq(Chunks(a, n)) = SubSeq(a, 1, n * Block)
<1>1. Block \in Nat \ {0}
  BY Md5StreamAssumption
<1>2. ASSUME NEW k \in 1 .. n
      PROVE  /\ (k - 1) * Block \in Nat /\ k * Block = (k - 1) * Block + Block /\ k * Block <= Len(a)
             /\ k * Block \in Nat
  <2>1. k * Block <= n * Block
    BY <1>1
  <2>2. (k - 1) * Block = k * Block - Block
    BY <1>1
  <2>3. (k - 1) * Block \in Nat /\ k * Block \in Nat
    BY <1>1
  <2>4. n * Block \in Int /\ Len(a) \in Int
    BY <1>1
  <2> QED BY <2>1, <2>2, <2>3, <2>4, <1>1
<1>3. ASSUME NEW k \in 1 .. n
      PROVE  /\ SubSeq(a, (k - 1) * Block + 1, k * Block) \in Seq(S)
             /\ Len(SubSeq(a, (k - 1) * Block + 1, k * Block)) = Block
  <2>1. PICK b \in Nat, c \in Nat : b = (k - 1) * Block /\ c = k * Block /\ c = b + Block /\ c <= Len(a)
    BY <1>2
  <2>2. SubSeq(a, b + 1, c) \in Seq(S) /\ Len(SubSeq(a, b + 1, c)) = Block
    BY ONLY <2>1, <1>1, a \in Seq(S)
  <2> QED BY <2>1, <2>2
<1>4. ASSUME NEW q \in 0 .. n
      PROVE  /\ Chunks(a, q) \in Seq(Seq(S)) /\ Len(Chunks(a, q)) = q
             /\ \A k \in 1 .. q : Chunks(a, q)[k] = SubSeq(a, (k - 1) * Block + 1, k * Block)
  <2>1. PICK c : c = Chunks(a, q)
    OBVIOUS
  <2>2. \A k \in 1 .. q : c[k] = SubSeq(a, (k - 1) * Block + 1, k * Block)
    BY <2>1 DEF Chunks
  <2>3. \A k \in 1 .. q : SubSeq(a, (k - 1) * Block + 1, k * Block) \in Seq(S)
    <3>1. \A k \in 1 .. q : k \in 1 .. n
      OBVIOUS
    <3> QED BY <3>1, <1>3
  <2>4. c \in [1 .. q -> Seq(S)]
    BY <2>1, <2>3 DEF Chunks
  <2>5. c \in Seq(Seq(S)) /\ Len(c) = q
    BY <2>4
  <2> QED BY <2>1, <2>2, <2>5
<1> DEFINE T == {q \in 0 .. n : FlattenSeq(Chunks(a, q)) = SubSeq(a, 1, q * Block)}
<1>5. 0 \in T
  <2>1. Chunks(a, 0) = <<>>
    BY DEF Chunks
  <2>2. SubSeq(a, 1, 0) = <<>> /\ 0 * Block = 0
    BY <1>1
  <2>3. FlattenSeq(Chunks(a, 0)) = SubSeq(a, 1, 0 * Block)
    BY <2>1, <2>2, FlattenEmpty
  <2> QED BY <2>3
<1>6. ASSUME NEW q \in 0 .. n - 1, q \in T PROVE q + 1 \in T
  <2>1. q + 1 \in 1 .. n /\ (q + 1) - 1 = q /\ q \in 0 .. n /\ q + 1 \in 0 .. n
    OBVIOUS
  <2>2. PICK b \in Nat, c \in Nat : b = q * Block /\ c = (q + 1) * Block /\ c = b + Block /\ c <= Len(a)
    BY <1>2, <2>1
  <2>3. PICK piece \in Seq(S) : piece = SubSeq(a, b + 1, c)
    BY <1>3, <2>1, <2>2
  <2>4. Chunks(a, q + 1) = Append(Chunks(a, q), piece)
    <3>1. PICK x, y : x = Chunks(a, q) /\ y = Chunks(a, q + 1)
      OBVIOUS
    <3>2. x \in Seq(Seq(S)) /\ y \in Seq(Seq(S)) /\ Len(x) = q /\ Len(y) = q + 1
      BY <3>1, <1>4, <2>1
    <3>3. ASSUME NEW k \in 1 .. q PROVE y[k] = x[k]
      <4>1. k \in 1 .. q + 1
        OBVIOUS
      <4> QED BY <3>1, <4>1, <1>4, <2>1
    <3>4. y[q + 1] = piece
      <4>1. q + 1 \in 1 .. q + 1
        OBVIOUS
      <4> QED BY <3>1, <4>1, <1>4, <2>1, <2>2, <2>3
    <3> QED BY <3>1, <3>2, <3>3, <3>4
  <2>5. FlattenSeq(Chunks(a, q + 1)) = SubSeq(a, 1, b) \o piece
    <3>1. FlattenSeq(Chunks(a, q)) = SubSeq(a, 1, b)
      BY <1>6, <2>2
    <3> QED BY <3>1, <2>1, <2>4, <1>4, FlattenAppend
  <2>6. SubSeq(a, 1, b) \o piece = SubSeq(a, 1, c)
    BY <2>2, <2>3, <1>1, CutJoined
  <2> QED BY <2>1, <2>2, <2>5, <2>6
<1>7. n \in T
  <2>1. n \in 0 .. n
    OBVIOUS
  <2> HIDE DEF T
  <2> QED BY <2>1, <1>5, <1>6, Induct
<1>8. n \in 0 .. n
  OBVIOUS
<1> QED BY <1>3, <1>4, <1>7, <1>8

\* Sequences put together in another order.
Associates(x, y, z) == (x \o y) \o z = x \o (y \o z)

LEMMA Associative ==
  ASSUME NEW S, NEW x \in Seq(S), NEW y \in Seq(S), NEW z \in Seq(S)
  PROVE  Associates(x, y, z)
BY ConcatAssociative DEF Associates

Regroups(f, b, head, g, kept) == ((f \o (b \o head)) \o g) \o kept = (f \o b) \o (head \o (g \o kept))

LEMMA Regrouped ==
  ASSUME NEW S, NEW f \in Seq(S), NEW b \in Seq(S), NEW head \in Seq(S),
         NEW g \in Seq(S), NEW kept \in Seq(S)
  PROVE  Regroups(f, b, head, g, kept)
<1>1. f \o b \in Seq(S) /\ b \o head \in Seq(S) /\ g \o kept \in Seq(S)
  BY ConcatProperties
<1>2. PICK x \in Seq(S), y \in Seq(S), z \in Seq(S) : x = f \o b /\ y = b \o head /\ z = g \o kept
  BY <1>1
<1>3. Associates(f, b, head) /\ f \o y \in Seq(S)
  BY Associative, ConcatProperties
<1>4. PICK w \in Seq(S) : w = f \o y
  BY <1>3
<1>5. Associates(w, g, kept) /\ Associates(x, head, z)
  BY Associative
<1> QED BY ONLY <1>2, <1>3, <1>4, <1>5 DEF Associates, Regroups

LEMMA CutOff ==
  ASSUME NEW S, NEW a \in Seq(S), NEW n \in 0 .. Len(a)
  PROVE  /\ SubSeq(a, 1, n) \in Seq(S) /\ SubSeq(a, n + 1, Len(a)) \in Seq(S)
         /\ Len(SubSeq(a, 1, n)) = n /\ Len(SubSeq(a, n + 1, Len(a))) = Len(a) - n
         /\ SubSeq(a, 1, n) \o SubSeq(a, n + 1, Len(a)) = a
<1>1. SubSeq(a, 1, n) \in Seq(S) /\ SubSeq(a, n + 1, Len(a)) \in Seq(S)
  OBVIOUS
<1>2. Len(SubSeq(a, 1, n)) = n /\ Len(SubSeq(a, n + 1, Len(a))) = Len(a) - n
  OBVIOUS
<1>3. PICK m \in Nat : m = Len(a) /\ n \in 0 .. m
  OBVIOUS
<1>4. SubSeq(a, 1, n) \o SubSeq(a, n + 1, m) = SubSeq(a, 1, m)
  <2>1. PICK b \in Nat, c \in Nat, d \in Nat : 
          b = 1 /\ c = n /\ d = n + 1 /\ 1 <= b /\ b <= d /\ d = c + 1 /\ c <= m /\ m <= Len(a)
    BY <1>3
  <2>2. SubSeq(a, b, c) \o SubSeq(a, d, m) = SubSeq(a, b, m)
    BY ONLY <2>1, CutJoined
  <2> QED BY <2>1, <2>2
<1>5. SubSeq(a, 1, m) = a
  BY <1>3
<1> QED BY <1>1, <1>2, <1>3, <1>4, <1>5

EachLong(ss, n) == \A k \in 1 .. Len(ss) : Len(ss[k]) = n

LEMMA JoinedLong ==
  ASSUME NEW S, NEW x \in Seq(Seq(S)), NEW g \in Seq(Seq(S)), NEW n \in Nat, EachLong(x, n), EachLong(g, n)
  PROVE  EachLong(x \o g, n)
<1> SUFFICES ASSUME NEW k \in 1 .. Len(x \o g) PROVE Len((x \o g)[k]) = n
  BY DEF EachLong
<1>1. PICK h \in Nat, q \in Nat : h = Len(x) /\ q = Len(g)
  OBVIOUS
<1>2. Len(x \o g) = h + q
  BY <1>1
<1>3. CASE k <= h
  <2>1. (x \o g)[k] = x[k] /\ k \in 1 .. h
    BY <1>1, <1>2, <1>3
  <2> QED BY <2>1, <1>1 DEF EachLong
<1>4. CASE k > h
  <2>1. (x \o g)[k] = g[k - h] /\ k - h \in 1 .. q
    BY <1>1, <1>2, <1>4
  <2> QED BY <2>1, <1>1 DEF EachLong
<1> QED BY <1>3, <1>4, <1>1

LEMMA ExtendedLong ==
  ASSUME NEW S, NEW a \in Seq(Seq(S)), NEW b \in Seq(S), NEW n \in Nat, EachLong(a, n), Len(b) = n
  PROVE  EachLong(Append(a, b), n)
<1> SUFFICES ASSUME NEW k \in 1 .. Len(a) + 1 PROVE Len(Append(a, b)[k]) = n
  BY DEF EachLong
<1>1. CASE k = Len(a) + 1
  BY <1>1
<1>2. CASE k \in 1 .. Len(a)
  BY <1>2 DEF EachLong
<1> QED BY <1>1, <1>2

\* Blocks, one more, and the blocks behind it.
Extension(S, y, a, b, g, n) ==
  /\ y = (a \o <<b>>) \o g /\ y \in Seq(Seq(S)) /\ EachLong(y, n)
  /\ FlattenSeq(y) = (FlattenSeq(a) \o b) \o FlattenSeq(g)

LEMMA Extended ==
  ASSUME NEW S, NEW a \in Seq(Seq(S)), NEW b \in Seq(S), NEW g \in Seq(Seq(S)),
         NEW n \in Nat, EachLong(a, n), Len(b) = n, EachLong(g, n)
  PROVE  Extension(S, (a \o <<b>>) \o g, a, b, g, n)
<1>1. PICK x \in Seq(Seq(S)) : x = Append(a, b) /\ x = a \o <<b>>
  <2>1. Append(a, b) \in Seq(Seq(S)) /\ Append(a, b) = a \o <<b>>
    OBVIOUS
  <2> QED BY <2>1
<1>2. FlattenSeq(x) = FlattenSeq(a) \o b
  BY <1>1, FlattenAppend
<1>3. FlattenSeq(x \o g) = FlattenSeq(x) \o FlattenSeq(g)
  BY FlattenConcat
<1>4. EachLong(x, n)
  BY <1>1, ExtendedLong
<1>5. EachLong(x \o g, n)
  BY <1>4, JoinedLong
<1>6. x \o g \in Seq(Seq(S))
  BY ConcatProperties
<1> QED BY ONLY <1>1, <1>2, <1>3, <1>5, <1>6 DEF Extension

\* What is fed; the bytes of a length are words as wide as unsigned long.
Bytes == Int

\* The whole blocks of what is to be fed, and the rest.
Whole(rest, chunks, kept) ==
  /\ chunks \in Seq(Seq(Bytes)) /\ kept \in Seq(Bytes)
  /\ EachLong(chunks, Block)
  /\ FlattenSeq(chunks) \o kept = rest
  /\ Len(kept) \in 0 .. Block - 1 /\ Len(kept) <= Len(rest) /\ Multiple(Len(rest) - Len(kept))

LEMMA WholeBlocks ==
  ASSUME NEW rest \in Seq(Bytes), NEW whole, whole = Len(rest) \div Block
  PROVE  Whole(rest, Chunks(rest, whole), SubSeq(rest, whole * Block + 1, Len(rest)))
<1>1. Block \in Nat \ {0}
  BY Md5StreamAssumption
<1>2. PICK n \in Nat : n = Len(rest)
  OBVIOUS
<1>3. PICK q \in Nat, x \in 0 .. Block - 1 : q = whole /\ n = q * Block + x
  BY <1>1, <1>2, Divide
<1>4. PICK wb \in Nat : wb = q * Block
  BY <1>1
<1>5. wb + x = n /\ wb <= n
  BY <1>3, <1>4, <1>1
<1>6. PICK kept \in Seq(Bytes) :
        kept = SubSeq(rest, wb + 1, n) /\ Len(kept) = x /\ SubSeq(rest, 1, wb) \o kept = rest
  <2>1. wb \in 0 .. Len(rest) /\ n - wb = x
    BY ONLY <1>2, <1>5, n \in Nat, wb \in Nat, x \in Int
  <2> QED BY ONLY <2>1, <1>2, rest \in Seq(Bytes), CutOff
<1>8. PICK chunks \in Seq(Seq(Bytes)) :
        /\ chunks = Chunks(rest, q) /\ Len(chunks) = q
        /\ EachLong(chunks, Block)
        /\ FlattenSeq(chunks) = SubSeq(rest, 1, wb)
  BY <1>2, <1>4, <1>5, ChunksJoined DEF EachLong
<1>9. n - x = q * Block /\ x <= n
  BY <1>4, <1>5
<1> QED BY <1>2, <1>3, <1>4, <1>6, <1>8, <1>9 DEF Whole, Multiple

-----------------------------------------------------------------------------
(* What is fed is the blocks and what is left.                              *)

Digested(bs, b, counts, data) ==
  /\ Whole(data, bs, b)
  /\ counts[1] = CountOf(Len(data))

\* What is left fills a block with the beginning of what comes.
LEMMA BlockFilled ==
  ASSUME NEW data \in Seq(Bytes), NEW bs, NEW b, Whole(data, bs, b),
         NEW head \in Seq(Bytes), NEW rest \in Seq(Bytes), Len(b) + Len(head) = Block,
         NEW chunks, NEW kept, Whole(rest, chunks, kept)
  PROVE  Whole(data \o (head \o rest), (bs \o <<b \o head>>) \o chunks, kept)
<1>1. /\ bs \in Seq(Seq(Bytes)) /\ b \in Seq(Bytes) /\ chunks \in Seq(Seq(Bytes)) /\ kept \in Seq(Bytes)
      /\ FlattenSeq(bs) \o b = data /\ FlattenSeq(chunks) \o kept = rest
  BY DEF Whole
<1>2. PICK begun \in Seq(Bytes) : begun = b \o head /\ Len(begun) = Block
  <2>1. b \o head \in Seq(Bytes) /\ Len(b \o head) = Len(b) + Len(head)
    BY ONLY <1>1, head \in Seq(Bytes), ConcatProperties
  <2> QED BY <2>1
<1>3. PICK f \in Seq(Bytes), g \in Seq(Bytes) : f = FlattenSeq(bs) /\ g = FlattenSeq(chunks)
  BY <1>1, FlattenType
<1>4. PICK cs \in Seq(Seq(Bytes)) :
        /\ cs = (bs \o <<begun>>) \o chunks
        /\ FlattenSeq(cs) = (f \o begun) \o g
        /\ EachLong(cs, Block)
  <2>1. EachLong(bs, Block) /\ EachLong(chunks, Block) /\ Block \in Nat
    BY Md5StreamAssumption DEF Whole
  <2>2. PICK ds : ds = (bs \o <<begun>>) \o chunks
    OBVIOUS
  <2>3. /\ ds \in Seq(Seq(Bytes)) /\ EachLong(ds, Block)
        /\ FlattenSeq(ds) = (FlattenSeq(bs) \o begun) \o FlattenSeq(chunks)
    <3>1. Extension(Bytes, (bs \o <<begun>>) \o chunks, bs, begun, chunks, Block)
      BY ONLY <2>1, <1>1, <1>2, Extended
    <3> QED BY ONLY <3>1, <2>2 DEF Extension
  <2> QED BY ONLY <2>2, <2>3, <1>3
<1>6. ((f \o begun) \o g) \o kept = data \o (head \o rest)
  <2>1. Regroups(f, b, head, g, kept)
    BY ONLY <1>1, Regrouped
  <2> QED BY ONLY <2>1, <1>1, <1>2, <1>3 DEF Regroups
<1>8. PICK x \in Nat, y \in Nat, z \in Nat, v \in Nat : x = Len(data) /\ y = Len(b) /\ z = Len(rest) /\ v = Len(kept)
  BY <1>1
<1>9. /\ Len(data \o (head \o rest)) = (x - y) + Block + z
      /\ x - y \in Nat /\ z - v \in Nat /\ Multiple(x - y) /\ Multiple(z - v) /\ v \in 0 .. Block - 1
  <2>1. Len(data \o (head \o rest)) = x + (Len(head) + z) /\ Len(head) \in Nat
    BY <1>8
  <2>2. y <= x /\ v <= z /\ Multiple(x - y) /\ Multiple(z - v) /\ v \in 0 .. Block - 1
    BY <1>8 DEF Whole
  <2>3. PICK w \in Nat : w = Len(head)
    OBVIOUS
  <2>4. y + w = Block
    BY ONLY <2>3, <1>8, Len(b) + Len(head) = Block
  <2>5. x + (w + z) = (x - y) + Block + z /\ x - y \in Nat /\ z - v \in Nat
    BY ONLY <2>2, <2>4
  <2> QED BY ONLY <2>1, <2>2, <2>3, <2>5
<1>10. Multiple(((x - y) + Block) + (z - v))
  BY <1>9, Multiples, Md5StreamAssumption
<1>11. ((x - y) + Block) + (z - v) = Len(data \o (head \o rest)) - v /\ v <= Len(data \o (head \o rest))
  BY <1>9, Md5StreamAssumption
<1> QED BY ONLY <1>1, <1>2, <1>4, <1>6, <1>8, <1>9, <1>10, <1>11, cs \in Seq(Seq(Bytes)) DEF Whole

\* Nothing was left, or what comes does not fill the block.
LEMMA BlockEmpty ==
  ASSUME NEW data \in Seq(Bytes), NEW bs, Whole(data, bs, <<>>),
         NEW rest \in Seq(Bytes), NEW chunks, NEW kept, Whole(rest, chunks, kept)
  PROVE  Whole(data \o rest, bs \o chunks, kept)
<1>1. /\ bs \in Seq(Seq(Bytes)) /\ chunks \in Seq(Seq(Bytes)) /\ kept \in Seq(Bytes)
      /\ FlattenSeq(bs) \o <<>> = data /\ FlattenSeq(chunks) \o kept = rest
  BY DEF Whole
<1>2. PICK g \in Seq(Bytes) : g = FlattenSeq(chunks) /\ FlattenSeq(bs) = data
  BY <1>1, FlattenType, ConcatEmptySeq
<1>3. FlattenSeq(bs \o chunks) \o kept = data \o rest
  <2>1. FlattenSeq(bs \o chunks) = data \o g
    <3>1. FlattenSeq(bs \o chunks) = FlattenSeq(bs) \o FlattenSeq(chunks)
      BY ONLY <1>1, FlattenConcat
    <3> QED BY ONLY <3>1, <1>2
  <2>2. (data \o g) \o kept = data \o (g \o kept)
    <3>1. Associates(data, g, kept)
      <4>1. kept \in Seq(Bytes)
        BY <1>1
      <4> QED BY ONLY data \in Seq(Bytes), g \in Seq(Bytes), <4>1, Associative
    <3> QED BY ONLY <3>1 DEF Associates
  <2> QED BY <2>1, <2>2, <1>1, <1>2
<1>4. EachLong(bs \o chunks, Block)
  <2>1. EachLong(bs, Block) /\ EachLong(chunks, Block) /\ Block \in Nat
    BY Md5StreamAssumption DEF Whole
  <2> QED BY ONLY <2>1, <1>1, JoinedLong
<1>5. PICK x \in Nat, z \in Nat, v \in Nat : x = Len(data) /\ z = Len(rest) /\ v = Len(kept)
  BY <1>1
<1>6. Len(data \o rest) = x + z /\ v <= z /\ Multiple(x) /\ Multiple(z - v) /\ v \in 0 .. Block - 1 /\ z - v \in Nat
  <2>1. Len(<<>>) = 0 /\ x - 0 = x
    OBVIOUS
  <2>2. Multiple(x)
    BY <2>1, <1>5 DEF Whole
  <2>3. v <= z /\ Multiple(z - v) /\ v \in 0 .. Block - 1
    BY <1>5 DEF Whole
  <2> QED BY <2>2, <2>3, <1>5
<1>7. Multiple(x + (z - v)) /\ x + (z - v) = (x + z) - v /\ v <= x + z
  BY <1>6, Multiples
<1>8. bs \o chunks \in Seq(Seq(Bytes))
  BY <1>1
<1> QED BY <1>1, <1>3, <1>4, <1>5, <1>6, <1>7, <1>8 DEF Whole

LEMMA BlockGrows ==
  ASSUME NEW data \in Seq(Bytes), NEW bs, NEW b, Whole(data, bs, b),
         NEW rest \in Seq(Bytes), Len(b) + Len(rest) < Block
  PROVE  Whole(data \o rest, bs, b \o rest)
<1>1. bs \in Seq(Seq(Bytes)) /\ b \in Seq(Bytes) /\ FlattenSeq(bs) \o b = data
  BY DEF Whole
<1>2. FlattenSeq(bs) \o (b \o rest) = data \o rest
  <2>1. PICK f \in Seq(Bytes) : f = FlattenSeq(bs)
    BY <1>1, FlattenType
  <2>2. f \o (b \o rest) = (f \o b) \o rest
    <3>1. Associates(f, b, rest)
      BY ONLY <1>1, Associative
    <3> QED BY ONLY <3>1 DEF Associates
  <2> QED BY <2>1, <2>2, <1>1
<1>3. EachLong(bs, Block)
  BY DEF Whole
<1>4. PICK x \in Nat, y \in Nat, z \in Nat : x = Len(data) /\ y = Len(b) /\ z = Len(rest)
  BY <1>1
<1>5. /\ Len(data \o rest) = x + z /\ Len(b \o rest) = y + z /\ y <= x /\ Multiple(x - y)
      /\ (x + z) - (y + z) = x - y
  BY <1>1, <1>4 DEF Whole
<1> QED BY <1>1, <1>2, <1>3, <1>4, <1>5, Md5StreamAssumption DEF Whole

\* The low word counts modulo the word, whether `unsigned long' is wider or not.
LEMMA CountedLow ==
  ASSUME NEW x \in Nat, total[1] = CountOf(x), NEW n \in Nat
  PROVE  Counted(n)[1] = CountOf(x + n)
<1>1. Word \in Nat \ {0} /\ 8 * x \in Nat /\ 8 * n \in Nat /\ 8 * x + 8 * n = 8 * (x + n)
  BY Md5StreamAssumption
<1>2. PICK a \in Nat, b \in Nat, w \in Nat \ {0} : a = 8 * x /\ b = 8 * n /\ w = Word /\ a + b = 8 * (x + n)
  BY <1>1
<1>3. ((a % w) + b) % w = (a + b) % w /\ ((a % w) + (b % w)) % w = (a + b) % w
  BY AddMod
<1>4. Uint32(8 * n) = b \/ Uint32(8 * n) = b % w
  BY <1>2 DEF Uint32
<1>5. Counted(n)[1] = (total[1] + Uint32(8 * n)) % Word
  BY DEF Counted
<1> QED BY <1>2, <1>3, <1>4, <1>5 DEF CountOf

\* md5_update: the bytes come behind what was fed before.
LEMMA UpdateFeeds ==
  ASSUME NEW data \in Seq(Bytes), Digested(blocks, block, total, data), NEW bytes \in Seq(Bytes), Update(bytes)
  PROVE  Digested(blocks', block', total', data \o bytes)
<1>1. /\ Block \in Nat \ {0, 1} /\ block \in Seq(Bytes) /\ blocks \in Seq(Seq(Bytes))
      /\ Whole(data, blocks, block) /\ total[1] = CountOf(Len(data))
  BY Md5StreamAssumption DEF Digested, Whole
<1>2. CASE bytes = <<>>
  <2>1. data \o bytes = data /\ UNCHANGED <<total, block, blocks>>
    BY <1>2 DEF Update
  <2> QED BY <2>1
<1>3. CASE bytes # <<>>
  <2>1. PICK n \in Nat \ {0}, x \in Nat, left \in 0 .. Block - 1 :
          n = Len(bytes) /\ x = Len(data) /\ x + n = Len(data \o bytes) /\ left = Len(block) /\ left <= x
    <3>1. PICK n \in Nat, x \in Nat, left \in Nat :
            n = Len(bytes) /\ x = Len(data) /\ x + n = Len(data \o bytes) /\ left = Len(block)
      BY ONLY <1>1, bytes \in Seq(Bytes), data \in Seq(Bytes)
    <3>2. n # 0
      BY <1>3, <3>1
    <3>3. Len(block) \in 0 .. Block - 1 /\ Len(block) <= Len(data)
      BY <1>1 DEF Whole
    <3> QED BY <3>1, <3>2, <3>3
  <2>2. Left = left /\ SubSeq(block, 1, Left) = block
    <3>1. Multiple(x - left)
      BY <1>1, <2>1 DEF Whole
    <3>2. x % Block = left
      BY <2>1, <3>1, RemainderIs
    <3>3. Left = left
      BY <1>1, <2>1, <3>2, CountTells DEF Left
    <3>4. SubSeq(block, 1, left) = block
      BY <1>1, <2>1
    <3> QED BY <3>3, <3>4
  <2>3. PICK fill \in 0 .. n : fill = IF left # 0 /\ n >= Block - left THEN Block - left ELSE 0
    <3>1. (IF left # 0 /\ n >= Block - left THEN Block - left ELSE 0) \in 0 .. n
      BY ONLY <1>1
    <3> QED BY ONLY <3>1
  <2>4. PICK head \in Seq(Bytes), rest \in Seq(Bytes) :
          /\ head = SubSeq(bytes, 1, fill) /\ rest = SubSeq(bytes, fill + 1, n)
          /\ Len(head) = fill /\ Len(rest) = n - fill /\ head \o rest = bytes
    <3>1. /\ SubSeq(bytes, 1, fill) \in Seq(Bytes) /\ SubSeq(bytes, fill + 1, n) \in Seq(Bytes)
          /\ Len(SubSeq(bytes, 1, fill)) = fill /\ Len(SubSeq(bytes, fill + 1, n)) = n - fill
          /\ SubSeq(bytes, 1, fill) \o SubSeq(bytes, fill + 1, n) = bytes
      <4>1. bytes \in Seq(Bytes) /\ n = Len(bytes) /\ fill \in 0 .. Len(bytes)
        BY <2>1, <2>3
      <4> QED BY ONLY <4>1, CutOff
    <3> QED BY ONLY <3>1
  <2>5. PICK whole, chunks, kept :
          /\ whole = Len(rest) \div Block /\ chunks = Chunks(rest, whole)
          /\ kept = SubSeq(rest, whole * Block + 1, Len(rest))
    OBVIOUS
  <2>6. Whole(rest, chunks, kept)
    BY <2>5, WholeBlocks
  <2>7. /\ total' = Counted(n)
        /\ blocks' = (blocks \o (IF fill > 0 THEN <<block \o head>> ELSE <<>>)) \o chunks
        /\ block' = IF fill > 0 THEN kept ELSE block \o kept
    BY <1>3, <2>1, <2>2, <2>3, <2>4, <2>5 DEF Update, Chunks
  <2>8. total'[1] = CountOf(Len(data \o bytes))
    BY <1>1, <2>1, <2>7, CountedLow
  <2>9. Whole(data \o bytes, blocks', block')
    <3>1. CASE fill > 0
      <4>1. Len(block) + Len(head) = Block
        BY ONLY <1>1, <2>1, <2>3, <2>4, <3>1, n \in Nat, left \in 0 .. Block - 1
      <4> QED BY <4>1, <3>1, <1>1, <2>4, <2>6, <2>7, BlockFilled
    <3>2. CASE fill = 0 /\ left = 0
      <4>1. block = <<>> /\ head = <<>> /\ rest = bytes
        BY <3>2, <1>1, <2>1, <2>4
      <4>2. blocks' = blocks \o chunks /\ block' = kept
        BY <4>1, <3>2, <1>1, <2>6, <2>7 DEF Whole
      <4> QED BY <4>1, <4>2, <1>1, <2>6, BlockEmpty
    <3>3. CASE fill = 0 /\ left # 0
      <4>1. n < Block - left
        BY <3>3, <2>3, <1>1
      <4>2. rest = bytes
        BY <3>3, <2>1, <2>4
      <4>3. whole = 0
        <5>1. n \in 0 .. Block - 1 /\ Block \in Nat \ {0}
          BY <4>1, <1>1
        <5>2. n \div Block = 0
          BY ONLY <5>1, DivideSmall
        <5> QED BY <5>2, <4>2, <2>1, <2>5
      <4>4. chunks = <<>> /\ kept = bytes
        <5>1. chunks = <<>>
          BY <4>3, <2>5 DEF Chunks
        <5>2. 0 * Block + 1 = 1
          BY <1>1
        <5>3. SubSeq(bytes, 1, n) = bytes
          BY <2>1
        <5> QED BY <5>1, <5>2, <5>3, <4>2, <4>3, <2>1, <2>5
      <4>5. blocks' = blocks /\ block' = block \o bytes
        BY <4>4, <3>3, <1>1, <2>7
      <4>6. Len(block) + Len(bytes) < Block
        BY <4>1, <2>1, <1>1
      <4> QED BY <4>5, <4>6, <1>1, BlockGrows
    <3> QED BY <3>1, <3>2, <3>3
  <2> QED BY <2>8, <2>9 DEF Digested
<1> QED BY <1>2, <1>3

\* The padding of a message, and the zeros that fill its last block.
Pad(z)   == [k \in 1 .. z + 1 |-> IF k = 1 THEN -128 ELSE 0]
Fills(z) == z \in 0 .. Block - 1 /\ Multiple(Len(message) + 1 + z + 2)
Bits     == <<(8 * Len(message)) % Word, (8 * Len(message)) \div Word>>
CountHolds   == ~ wide \/ 8 * Len(message) < Word

Md5Type ==
  /\ message \in Seq(Bytes) /\ Len(message) \in 0 .. MaxMessage /\ wide \in BOOLEAN
  /\ fed \in {"nothing", "message", "padding", "length"}
Unfed == fed = "nothing" => blocks = <<>> /\ block = <<>> /\ total = <<0, 0>>
MessageFed ==
  fed = "message" =>
    Digested(blocks, block, total, message) /\ total[2] \in Nat /\ (CountHolds => total = Bits)
Told == msglen \in Seq(Bytes) /\ Len(msglen) = 2 /\ (CountHolds => msglen = Bits)
PaddingFed ==
  fed = "padding" => Told /\ \E z \in Int : Fills(z) /\ Digested(blocks, block, total, message \o Pad(z))
LengthFed ==
  fed = "length" => Told /\ \E z \in Int : Fills(z) /\ Digested(blocks, block, total, (message \o Pad(z)) \o msglen)
Md5Inv == Md5Type /\ Unfed /\ MessageFed /\ PaddingFed /\ LengthFed

LEMMA PadType ==
  ASSUME NEW z \in Nat
  PROVE  Pad(z) \in Seq(Bytes) /\ Len(Pad(z)) = z + 1
<1>1. Pad(z) \in [1 .. z + 1 -> Bytes]
  BY DEF Pad, Bytes
<1> QED BY <1>1

\* The second word of the count is a word.
LEMMA BitsAreWords ==
  ASSUME message \in Seq(Bytes), Len(message) \in 0 .. MaxMessage
  PROVE  /\ Bits[1] \in 0 .. Word - 1 /\ Bits[2] \in 0 .. Word - 1
         /\ Bits = <<CountOf(Len(message)), Len(message) \div (Word \div 8)>>
<1>1. Word \in Nat \ {0} /\ MaxMessage \in 0 .. Word - 1
  BY Md5StreamAssumption
<1>2. PICK n \in Nat : n = Len(message) /\ n < Word
  BY <1>1
<1>3. /\ CountOf(n) \in Nat /\ CountOf(n) < Word
      /\ (8 * n) \div Word = n \div (Word \div 8)
  BY CountTells
<1>4. PICK w \in Nat \ {0} : Word \div 8 = w
  BY WordBytes
<1>5. PICK q \in Nat, r \in 0 .. w - 1 : q = n \div w /\ n = q * w + r
  BY Divide
<1>6. q <= n
  <2>1. q * w >= q * 1
    BY ONLY q \in Nat, w \in Nat \ {0}
  <2> QED BY <2>1, <1>5
<1>7. Bits = <<CountOf(n), q>>
  BY <1>2, <1>3, <1>4, <1>5 DEF Bits, CountOf
<1>8. q \in 0 .. Word - 1 /\ CountOf(n) \in 0 .. Word - 1
  BY <1>1, <1>2, <1>3, <1>6
<1> QED BY <1>7, <1>8, <1>2, <1>4, <1>5

LEMMA NothingFed ==
  Digested(<<>>, <<>>, <<0, 0>>, <<>>)
<1>1. Whole(<<>>, <<>>, <<>>)
  <2>1. FlattenSeq(<<>>) \o <<>> = <<>>
    BY FlattenEmpty
  <2>2. Len(<<>>) = 0 /\ 0 - 0 = 0 /\ 0 \in 0 .. Block - 1 /\ 0 <= 0
    BY Md5StreamAssumption
  <2>3. EachLong(<<>>, Block)
    BY DEF EachLong
  <2> QED BY <2>1, <2>2, <2>3, Multiples DEF Whole
<1>2. CountOf(0) = 0
  <2>1. 8 * 0 = 0 /\ 0 \in 0 .. Word - 1 /\ Word \in Nat \ {0}
    BY Md5StreamAssumption
  <2> QED BY <2>1, DivideSmall DEF CountOf
<1> QED BY <1>1, <1>2 DEF Digested

LEMMA MessageCounted ==
  ASSUME Md5Type, Unfed, FeedMessage
  PROVE  MessageFed'
<1>1. /\ fed = "nothing" /\ fed' = "message" /\ Update(message) /\ message' = message /\ wide' = wide
      /\ message \in Seq(Bytes) /\ Len(message) \in 0 .. MaxMessage /\ wide \in BOOLEAN
      /\ total = <<0, 0>> /\ block = <<>> /\ blocks = <<>>
  BY DEF FeedMessage, Md5Type, Unfed
<1>2. Digested(blocks', block', total', message)
  <2>1. Digested(blocks, block, total, <<>>) /\ <<>> \in Seq(Bytes)
    BY <1>1, NothingFed
  <2>2. Digested(blocks', block', total', <<>> \o message)
    BY <2>1, <1>1, UpdateFeeds
  <2>3. <<>> \o message = message
    BY <1>1
  <2> QED BY <2>2, <2>3
<1>3. total'[2] \in Nat /\ (CountHolds => total' = Bits)
  <2>1. PICK n \in Nat : n = Len(message)
    BY <1>1
  <2>2. /\ Bits = <<CountOf(n), n \div (Word \div 8)>> /\ n \div (Word \div 8) \in Nat
        /\ CountOf(n) \in Nat /\ CountOf(n) < Word
    BY <1>1, <2>1, BitsAreWords, CountTells
  <2>3. CASE message = <<>>
    <3>1. total' = <<0, 0>> /\ n = 0
      BY <2>3, <1>1, <2>1 DEF Update
    <3>2. Bits = <<0, 0>>
      <4>1. 8 * Len(message) = 0 /\ 0 \in 0 .. Word - 1 /\ Word \in Nat \ {0}
        BY <3>1, <2>1, Md5StreamAssumption
      <4> QED BY <4>1, DivideSmall DEF Bits
    <3> QED BY <3>1, <3>2
  <2>4. CASE message # <<>>
    <3>1. PICK u \in Nat : u = Uint32(8 * n)
      <4>1. 8 * n \in Nat /\ (8 * n) % Word \in Nat
        BY <2>2 DEF CountOf
      <4> QED BY <4>1 DEF Uint32
    <3>2. PICK low : low = (0 + u) % Word
      OBVIOUS
    <3>3. total' = <<low, 0 + (n \div (Word \div 8)) + (IF low < u THEN 1 ELSE 0)>>
      BY <1>1, <2>4, <2>1, <3>1, <3>2 DEF Update, Counted
    <3>4. total'[2] \in Nat
      BY ONLY <3>3, <2>2
    <3>5. ASSUME CountHolds PROVE low = CountOf(n) /\ low = u
      <4>1. CASE ~ wide
        <5>1. u = CountOf(n)
          BY <4>1, <3>1 DEF Uint32, CountOf
        <5>2. 0 + u = u /\ u \in 0 .. Word - 1 /\ Word \in Nat \ {0}
          BY <5>1, <2>2, Md5StreamAssumption
        <5>3. u % Word = u
          BY <5>2, DivideSmall
        <5> QED BY <5>1, <5>2, <5>3, <3>2
      <4>2. CASE wide
        <5>1. u = 8 * n /\ u < Word
          BY <4>2, <3>5, <2>1, <3>1 DEF Uint32, CountHolds
        <5>2. 0 + u = u /\ u \in 0 .. Word - 1 /\ Word \in Nat \ {0}
          BY <5>1, Md5StreamAssumption
        <5>3. u % Word = u
          BY <5>2, DivideSmall
        <5> QED BY <5>1, <5>2, <5>3, <3>2 DEF CountOf
      <4> QED BY <4>1, <4>2, <1>1
    <3>6. ASSUME CountHolds PROVE total' = Bits
      <4>1. PICK q \in Nat : q = n \div (Word \div 8)
        BY <2>2
      <4>2. ~ (low < u) /\ 0 + q + 0 = q
        BY ONLY <3>5, <3>6, u \in Nat, q \in Nat
      <4> QED BY ONLY <4>1, <4>2, <3>3, <3>5, <3>6, <2>2
    <3> QED BY <3>4, <3>6
  <2> QED BY <2>3, <2>4
<1> QED BY <1>1, <1>2, <1>3 DEF MessageFed, CountHolds, Bits

\* The padding and the length end a block.
LEMMA PaddingFills ==
  ASSUME Md5Type, MessageFed, fed = "message"
  PROVE  Padding \in Nat \ {0} /\ Fills(Padding - 1)
<1>1. /\ Block \in Nat \ {0, 1} /\ Block \in Nat \ {0} /\ message \in Seq(Bytes)
      /\ total[1] = CountOf(Len(message))
  BY Md5StreamAssumption DEF Md5Type, MessageFed, Digested
<1>2. PICK n \in Nat : n = Len(message)
  BY <1>1
<1>3. PICK q \in Nat, r \in 0 .. Block - 1 : r = n % Block /\ n = q * Block + r
  BY <1>1, Divide
<1>4. Left = r
  BY <1>1, <1>2, <1>3, CountTells DEF Left
<1>5. PICK u \in Int : u = (IF r < Block - 2 THEN Block - 2 ELSE 2 * Block - 2) - r
  BY <1>1
<1>6. Padding = u
  BY <1>4, <1>5 DEF Padding
<1>7. u \in 1 .. Block /\ (n + u + 2 = q * Block + Block \/ n + u + 2 = q * Block + Block + Block)
  <2>1. PICK b \in Nat, qb \in Int : b = Block /\ qb = q * Block /\ b >= 2 /\ r \in 0 .. b - 1
    BY <1>1
  <2>2. n = qb + r /\ u = (IF r < b - 2 THEN b - 2 ELSE (b + b) - 2) - r
    BY <2>1, <1>3, <1>5
  <2>3. u \in 1 .. b /\ (n + u + 2 = qb + b \/ n + u + 2 = qb + b + b)
    BY ONLY <2>1, <2>2
  <2> QED BY <2>1, <2>3
<1>8. Multiple(n + u + 2)
  <2>1. q * Block + Block = (q + 1) * Block /\ q * Block + Block + Block = (q + 2) * Block
    BY <1>1
  <2>2. q + 1 \in Nat /\ q + 2 \in Nat
    OBVIOUS
  <2> QED BY <2>1, <2>2, <1>7 DEF Multiple
<1>9. n + 1 + (u - 1) + 2 = n + u + 2 /\ u - 1 \in 0 .. Block - 1
  BY <1>7, <1>1
<1> QED BY <1>2, <1>6, <1>7, <1>8, <1>9 DEF Fills

LEMMA Md5InitInv ==
  ASSUME Md5Init
  PROVE  Md5Inv
<1>1. PICK n \in 0 .. MaxMessage : message = [k \in 1 .. n |-> k]
  BY DEF Md5Init
<1>2. n \in Nat
  BY Md5StreamAssumption
<1>3. message \in [1 .. n -> Bytes]
  BY <1>1, <1>2 DEF Bytes
<1>4. message \in Seq(Bytes) /\ Len(message) = n
  BY <1>2, <1>3
<1> QED BY <1>4 DEF Md5Init, Md5Inv, Md5Type, Unfed, MessageFed, PaddingFed, LengthFed

LEMMA Md5Step ==
  ASSUME Md5Inv, [Md5Next]_md5Vars
  PROVE  Md5Inv'
<1>1. Md5Type /\ Unfed /\ MessageFed /\ PaddingFed /\ LengthFed
  BY DEF Md5Inv
<1>2. CASE FeedMessage
  <2>1. MessageFed'
    BY <1>1, <1>2, MessageCounted
  <2> QED BY <2>1, <1>1, <1>2 DEF FeedMessage, Md5Inv, Md5Type, Unfed, PaddingFed, LengthFed
<1>3. CASE FeedPadding
  <2>1. /\ fed = "message" /\ fed' = "padding" /\ message' = message /\ wide' = wide
        /\ msglen' = [k \in 1 .. 2 |-> total[k] % Word]
        /\ Update([k \in 1 .. Padding |-> IF k = 1 THEN -128 ELSE 0])
        /\ Digested(blocks, block, total, message) /\ total[2] \in Nat /\ (CountHolds => total = Bits)
        /\ message \in Seq(Bytes) /\ Len(message) \in 0 .. MaxMessage
    BY <1>1, <1>3 DEF FeedPadding, MessageFed, Md5Type
  <2>2. PICK z \in Nat : z = Padding - 1 /\ Fills(z) /\ Padding = z + 1
    <3>1. Padding \in Nat \ {0} /\ Fills(Padding - 1)
      BY <1>1, <2>1, PaddingFills
    <3>2. Padding - 1 \in Nat /\ Padding = (Padding - 1) + 1
      BY ONLY <3>1
    <3> QED BY <3>1, <3>2
  <2>3. Update(Pad(z))
    BY <2>1, <2>2 DEF Pad
  <2>4. Digested(blocks', block', total', message \o Pad(z))
    BY <2>1, <2>3, PadType, UpdateFeeds
  <2>5. msglen' \in Seq(Bytes) /\ Len(msglen') = 2
    <3>1. total[1] \in Nat /\ total[2] \in Nat /\ Word \in Nat \ {0}
      BY <2>1, CountTells, Md5StreamAssumption DEF Digested
    <3>2. PICK x \in Nat, y \in Nat : x = total[1] % Word /\ y = total[2] % Word
      <4>1. PICK a \in Nat, b \in Nat, w \in Nat \ {0} : a = total[1] /\ b = total[2] /\ w = Word
        BY <3>1
      <4>2. a % w \in Nat /\ b % w \in Nat
        BY ONLY a \in Nat, b \in Nat, w \in Nat \ {0}
      <4> QED BY <4>1, <4>2
    <3>3. msglen' = <<x, y>>
      BY <2>1, <3>2
    <3> QED BY <3>3 DEF Bytes
  <2>6. ASSUME CountHolds PROVE msglen' = Bits
    <3>1. total = Bits
      BY <2>1, <2>6
    <3>2. Bits[1] \in 0 .. Word - 1 /\ Bits[2] \in 0 .. Word - 1 /\ Word \in Nat \ {0}
      BY <2>1, BitsAreWords, Md5StreamAssumption
    <3>3. PICK x \in 0 .. Word - 1, y \in 0 .. Word - 1 : x = Bits[1] /\ y = Bits[2] /\ x % Word = x /\ y % Word = y
      BY <3>2, DivideSmall
    <3>4. msglen' = <<x, y>>
      BY <2>1, <3>1, <3>3
    <3>5. Bits = <<Bits[1], Bits[2]>>
      BY DEF Bits
    <3> QED BY <3>3, <3>4, <3>5
  <2>7. PaddingFed'
    <3>1. Told' 
      BY <2>1, <2>5, <2>6 DEF Told, CountHolds, Bits
    <3>2. Fills(z)' /\ Digested(blocks', block', total', message' \o Pad(z))
      BY <2>1, <2>2, <2>4 DEF Fills
    <3> QED BY <3>1, <3>2 DEF PaddingFed
  <2> QED BY <2>1, <2>7, <1>1 DEF Md5Inv, Md5Type, Unfed, MessageFed, LengthFed
<1>4. CASE FeedLength
  <2>1. /\ fed = "padding" /\ fed' = "length" /\ message' = message /\ wide' = wide /\ msglen' = msglen
        /\ Update(msglen) /\ Told /\ message \in Seq(Bytes) /\ Len(message) \in 0 .. MaxMessage
    BY <1>1, <1>4 DEF FeedLength, PaddingFed, Md5Type
  <2>2. PICK z \in Int : Fills(z) /\ Digested(blocks, block, total, message \o Pad(z))
    BY <1>1, <2>1 DEF PaddingFed
  <2>3. message \o Pad(z) \in Seq(Bytes) /\ msglen \in Seq(Bytes)
    <3>1. z \in Nat
      BY <2>2 DEF Fills
    <3>2. Pad(z) \in Seq(Bytes)
      BY <3>1, PadType
    <3> QED BY <3>2, <2>1 DEF Told
  <2>4. Digested(blocks', block', total', (message \o Pad(z)) \o msglen)
    BY <2>1, <2>2, <2>3, UpdateFeeds
  <2>5. LengthFed'
    <3>1. Told' /\ Fills(z)'
      BY <2>1, <2>2 DEF Told, CountHolds, Bits, Fills
    <3>2. Digested(blocks', block', total', (message' \o Pad(z)) \o msglen')
      BY <2>1, <2>4
    <3> QED BY <3>1, <3>2 DEF LengthFed
  <2> QED BY <2>1, <2>5, <1>1 DEF Md5Inv, Md5Type, Unfed, MessageFed, PaddingFed
<1>5. CASE UNCHANGED md5Vars
  BY <1>1, <1>5 DEF md5Vars, Md5Inv, Md5Type, Unfed, MessageFed, PaddingFed, LengthFed,
                    Told, CountHolds, Bits, Fills, Digested
<1> QED BY <1>2, <1>3, <1>4, <1>5 DEF Md5Next

\* The zeros are told by the length of the message.
LEMMA ZerosAre ==
  ASSUME NEW n \in Nat, NEW x \in 0 .. Block - 1, NEW y \in 0 .. Block - 1,
         (n + 1 + x + 2) % Block = 0, (n + 1 + y + 2) % Block = 0, x <= y
  PROVE  x = y
<1>1. Block \in Nat \ {0}
  BY Md5StreamAssumption
<1>2. PICK a \in Nat, b \in Nat \ {0}, d \in 0 .. Block - 1 :
        a = n + 1 + x + 2 /\ b = Block /\ d = y - x /\ a + d = n + 1 + y + 2 /\ a + d \in Nat
  BY <1>1
<1>3. PICK q \in Nat : a = q * b + 0
  <2>1. a % b = 0
    BY <1>2
  <2>2. a \div b \in Nat /\ a = (a \div b) * b + (a % b)
    BY ONLY Divide
  <2> QED BY ONLY <2>1, <2>2
<1>4. PICK c \in Nat : c = a + d
  BY <1>2
<1>5. c = q * b + d
  <2>1. PICK qb \in Int : qb = q * b
    OBVIOUS
  <2> QED BY ONLY <1>3, <1>4, <2>1
<1>6. d \in 0 .. b - 1
  BY <1>2
<1>7. c % b = d
  BY ONLY <1>5, <1>6, DivideIs
<1>8. c % b = 0
  BY <1>2, <1>4
<1> QED BY <1>2, <1>7, <1>8

LEMMA Md5InvDigest ==
  ASSUME Md5Inv
  PROVE  DigestOfMessage
<1> SUFFICES ASSUME fed = "length", wide => 8 * Len(message) < Word
             PROVE  LET size  == Len(message)
                        zeros == CHOOSE n \in 0 .. Block - 1 : (size + 1 + n + 2) % Block = 0
                        bits  == <<(8 * size) % Word, (8 * size) \div Word>>
                    IN  /\ block = <<>>
                        /\ FlattenSeq(blocks) = message \o <<-128>> \o [k \in 1 .. zeros |-> 0] \o bits
                        /\ \A k \in DOMAIN blocks : Len(blocks[k]) = Block
  BY DEF DigestOfMessage
<1>1. message \in Seq(Bytes) /\ Told /\ CountHolds
  BY DEF Md5Inv, Md5Type, LengthFed, CountHolds
<1>2. msglen = Bits /\ msglen \in Seq(Bytes) /\ Len(msglen) = 2
  BY <1>1 DEF Told
<1>3. PICK z \in Int : Fills(z) /\ Digested(blocks, block, total, (message \o Pad(z)) \o msglen)
  BY DEF Md5Inv, LengthFed
<1>4. PICK n \in Nat : n = Len(message)
  BY <1>1
<1>5. z \in 0 .. Block - 1 /\ Multiple(n + 1 + z + 2) /\ Block \in Nat \ {0} /\ z \in Nat
  BY <1>3, <1>4, Md5StreamAssumption DEF Fills
<1>6. (n + 1 + z + 2) % Block = 0
  <2>1. PICK h \in Nat : h = n + 1 + z + 2 /\ h - 0 = h /\ 0 <= h
    BY <1>5
  <2>2. 0 \in 0 .. Block - 1
    BY <1>5
  <2> QED BY <2>1, <2>2, <1>5, RemainderIs
<1>7. (CHOOSE k \in 0 .. Block - 1 : (n + 1 + k + 2) % Block = 0) = z
  <2>1. \A k \in 0 .. Block - 1 : (n + 1 + k + 2) % Block = 0 => k = z
    <3> SUFFICES ASSUME NEW k \in 0 .. Block - 1, (n + 1 + k + 2) % Block = 0 PROVE k = z
      OBVIOUS
    <3>1. k <= z \/ z <= k
      BY <1>5
    <3> QED BY <3>1, <1>5, <1>6, ZerosAre
  <2> QED BY <2>1, <1>5, <1>6
<1>8. PICK zs \in Seq(Bytes), mark \in Seq(Bytes) :
        /\ zs = [k \in 1 .. z |-> 0] /\ mark = <<-128>> /\ Pad(z) \in Seq(Bytes) /\ Len(Pad(z)) = z + 1
        /\ mark \o zs = Pad(z)
  <2>2. PICK zs \in Seq(Bytes), mark \in Seq(Bytes) : zs = [k \in 1 .. z |-> 0] /\ mark = <<-128>> /\ Len(zs) = z /\ Len(mark) = 1
    <3>1. PICK f : f = [k \in 1 .. z |-> 0]
      OBVIOUS
    <3>2. f \in [1 .. z -> Bytes] /\ <<-128>> \in Seq(Bytes) /\ Len(<<-128>>) = 1
      BY <3>1 DEF Bytes
    <3>3. f \in Seq(Bytes) /\ Len(f) = z
      BY ONLY <3>2, <1>5
    <3> QED BY ONLY <3>1, <3>2, <3>3
  <2>3. Pad(z) \in Seq(Bytes) /\ Len(Pad(z)) = z + 1 /\ Len(mark \o zs) = z + 1 /\ mark \o zs \in Seq(Bytes)
    BY <2>2, <1>5, PadType
  <2>4. \A k \in 1 .. z + 1 : (mark \o zs)[k] = Pad(z)[k]
    BY <2>2, <1>5 DEF Pad
  <2>5. mark \o zs = Pad(z)
    BY <2>3, <2>4
  <2> QED BY <2>2, <2>3, <2>5
<1>9. PICK data \in Seq(Bytes) : data = (message \o Pad(z)) \o msglen /\ Len(data) = n + 1 + z + 2
  <2>1. PICK u \in Seq(Bytes) : u = message \o Pad(z) /\ Len(u) = n + (z + 1)
    <3>1. PICK pad \in Seq(Bytes) : pad = Pad(z) /\ Len(pad) = z + 1
      BY ONLY <1>8
    <3>2. message \o pad \in Seq(Bytes) /\ Len(message \o pad) = Len(message) + Len(pad)
      BY ONLY <1>1, pad \in Seq(Bytes), ConcatProperties
    <3> QED BY ONLY <3>1, <3>2, <1>4
  <2>2. u \o msglen \in Seq(Bytes) /\ Len(u \o msglen) = Len(u) + Len(msglen)
    BY ONLY u \in Seq(Bytes), <1>2, ConcatProperties
  <2>3. Len(u) + Len(msglen) = n + 1 + z + 2
    BY ONLY <2>1, <1>2, <1>4, <1>5
  <2> QED BY ONLY <2>1, <2>2, <2>3
<1>10. Whole(data, blocks, block)
  BY <1>3, <1>9 DEF Digested
<1>11. block = <<>> /\ FlattenSeq(blocks) = data
  <2>1. PICK h \in Nat, b \in 0 .. Block - 1 : h = Len(data) /\ b = Len(block) /\ b <= h /\ Multiple(h - b)
    <3>1. Len(block) \in 0 .. Block - 1 /\ Len(block) <= Len(data) /\ Multiple(Len(data) - Len(block)) /\ Len(data) \in Nat
      BY ONLY <1>10, data \in Seq(Bytes) DEF Whole
    <3> QED BY ONLY <3>1
  <2>2. h % Block = b
    BY <2>1, RemainderIs
  <2>3. b = 0
    BY <2>1, <2>2, <1>6, <1>9
  <2>4. /\ block \in Seq(Bytes) /\ blocks \in Seq(Seq(Bytes)) /\ FlattenSeq(blocks) \o block = data
    BY <1>10 DEF Whole
  <2>5. block = <<>>
    BY ONLY <2>1, <2>3, <2>4, EmptySeq
  <2>6. FlattenSeq(blocks) \o <<>> = FlattenSeq(blocks)
    BY <2>4, FlattenType, ConcatEmptySeq
  <2> QED BY <2>4, <2>5, <2>6
<1>12. data = message \o <<-128>> \o [k \in 1 .. z |-> 0] \o Bits
  <2>1. Associates(message, mark, zs)
    BY <1>1, Associative
  <2> QED BY ONLY <2>1, <1>2, <1>8, <1>9 DEF Associates
<1>13. \A k \in DOMAIN blocks : Len(blocks[k]) = Block
  BY <1>10 DEF Whole, EachLong
<1> QED BY <1>4, <1>7, <1>11, <1>12, <1>13 DEF Bits

\* For every message whose length is a word, and all words and blocks: md5.cpp processes the
\* message, its padding and the count of its bits, and nothing is left in the buffer.
THEOREM DigestInOrder == Md5Spec => []DigestOfMessage
<1>1. Md5Init => Md5Inv
  BY Md5InitInv
<1>2. Md5Inv /\ [Md5Next]_md5Vars => Md5Inv'
  BY Md5Step
<1>3. Md5Inv => DigestOfMessage
  BY Md5InvDigest
<1> QED BY <1>1, <1>2, <1>3, PTL DEF Md5Spec
================================================================================
