------------------------------ MODULE MCLuaGC ------------------------------
(* Instances of LuaGC for TLC: a few objects of each kind that interact.    *)
EXTENDS LuaGC, TLC

CONSTANTS mainthread, registry, t1, t2, u1, u2, f1, f2, uv1, co, s1, wv, wk, closed

KindOf ==
  [o \in {mainthread, co} |-> "thread"] @@ [o \in {registry, t1, t2} |-> "table"]
  @@ [o \in {u1, u2} |-> "userdata"] @@ [o \in {f1, f2} |-> "function"]
  @@ (uv1 :> "upval") @@ (s1 :> "string") @@ (wv :> "weakvalue") @@ (wk :> "weakkey")

\* For one run: the program works when the collector is idle or calls finalizers, forgets
\* nothing but what is on its stack, and collects when a userdata with a finalizer is
\* garbage, then again while one waits.
Directed ==
  /\ gcstate \in {"pause", "finalize"} \/ full # "no" \/ SingleStep
  /\ gcstate = "pause" => (gcstate' # "pause" <=> \E u \in Finalizable : Garbage(u))
  /\ gcstate # "pause" => /\ gcstate' # "pause"
                          /\ full # full' => gcstate = "finalize" /\ tmudata # {}
  /\ full = "marking" => gcstate' = "propagate"
  /\ \A o \in Obj \ {running} : marked'[o] # "free" => refs[o] \subseteq refs'[o]

MCKind == [o \in Obj |-> KindOf[o]]

=============================================================================
