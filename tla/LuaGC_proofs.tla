---------------------------- MODULE LuaGC_proofs ----------------------------
(* Theorems about LuaGC, for any set of objects and any bounds: the types,  *)
(* and the inductive invariant of the module LuaGC, under the steps of the   *)
(* program, then under those of the collector; its action properties, and    *)
(* that it implements Heap.                                                  *)
EXTENDS LuaGC, TLAPS

Colors == {"free", "white0", "white1", "gray", "black"}

-----------------------------------------------------------------------------
(* Lemmas about the operators of the collector.                             *)

\* The two whites are each other's other white (otherwhite in lgc.h).
LEMMA OtherWhite ==
  ASSUME currentwhite \in Whites
  PROVE  otherwhite \in Whites /\ otherwhite # currentwhite
BY DEF otherwhite, Whites

\* The objects reallymarkobject colours are white ones, and it colours all the
\* white objects it is given.
LEMMA TouchedWhite ==
  ASSUME NEW S
  PROVE  WhiteOf(S) \subseteq Touched(S) /\ \A o \in Touched(S) : iswhite(o)
BY DEF Touched, WhiteOf

\* Marking yields colours.
LEMMA AfterMarkType ==
  ASSUME NEW S, marked \in [Obj -> Colors]
  PROVE  AfterMark(S) \in [Obj -> Colors]
BY DEF AfterMark, FirstColor, Colors

-----------------------------------------------------------------------------
(* Type correctness.                                                        *)

\* A new state has the types (lua_newstate).
LEMMA InitTypeOK == ASSUME Init PROVE TypeOK
BY GCAssumption DEF Init, TypeOK, Whites, Threads, Listed, Tables, Weak, Userdata

\* Every step of the collector keeps the variables in their types.
LEMMA CollectorTypeOK ==
  ASSUME TypeOK, SingleStep \/ FullGC
  PROVE  TypeOK'
<1> USE DEF TypeOK, Whites
<1>1. ASSUME MarkRoot PROVE TypeOK'
  <2>1. marked' \in [Obj -> Colors]
    BY <1>1, AfterMarkType DEF MarkRoot, Colors
  <2> QED BY <1>1, <2>1 DEF MarkRoot, Colors
<1>2. ASSUME NEW o \in Listed, PropagateMark(o) PROVE TypeOK'
  <2>1. AfterMark(Strong(o)) \in [Obj -> Colors]
    BY AfterMarkType DEF Colors
  <2>2. marked' \in [Obj -> Colors]
    BY <1>2, <2>1 DEF PropagateMark, FinalColor, Colors
  <2> QED BY <1>2, <2>2 DEF PropagateMark, Colors
<1>3. ASSUME Atomic PROVE TypeOK'
  BY <1>3, OtherWhite DEF Atomic, FinalColor, Pending, Separated, Allocated
<1>4. ASSUME NEW b \in SUBSET Strings, SweepString(b) PROVE TypeOK'
  BY <1>4 DEF SweepString
<1>5. ASSUME NEW o \in Obj, Sweep(o) PROVE TypeOK'
  <2>1. marked' \in [Obj -> Colors]
    BY <1>5 DEF Sweep, Colors
  <2>2. refs' \in [Obj -> SUBSET Obj]
    BY <1>5 DEF Sweep, OpenOn, Upvals
  <2> QED BY <1>5, <2>1, <2>2 DEF Sweep, Colors
<1>6. ASSUME NEW u \in Userdata, GCTM(u) PROVE TypeOK'
  BY <1>6 DEF GCTM, Userdata
<1>7. ASSUME FinalizeEnd PROVE TypeOK'
  BY <1>7 DEF FinalizeEnd
<1>8. ASSUME FullGC PROVE TypeOK'
  BY <1>8 DEF FullGC, Allocated
<1> QED BY <1>1, <1>2, <1>3, <1>4, <1>5, <1>6, <1>7, <1>8 DEF SingleStep

\* A barrier keeps the variables it writes in their types.
LEMMA BarrierTypeOK ==
  ASSUME TypeOK, NEW p \in Obj, NEW v \in Obj,
         BarrierForward(p, v) \/ (p \in Tables /\ BarrierBack(p, v))
  PROVE  /\ marked' \in [Obj -> Colors]
         /\ gray' \subseteq Listed /\ grayagain' \subseteq Listed
<1>1. AfterMark({v}) \in [Obj -> Colors]
  BY AfterMarkType DEF TypeOK, Colors
<1> QED
  BY <1>1 DEF BarrierForward, BarrierBack, TypeOK, Colors, Whites, Listed

\* Every step of the program keeps the variables in their types.
LEMMA MutatorTypeOK ==
  ASSUME TypeOK, Mutator
  PROVE  TypeOK'
<1> USE DEF TypeOK, Whites, collectorState, heapState
<1>1. ASSUME NEW o \in Obj, NEW v \in Obj, Load(o, v) PROVE TypeOK'
  BY <1>1 DEF Load
<1>2. ASSUME NEW o \in Obj, NEW c \in SUBSET Obj, New(o, c) PROVE TypeOK'
  BY <1>2 DEF New
<1>3. ASSUME NEW t \in Obj, NEW v \in Obj, SetTable(t, v) PROVE TypeOK'
  BY <1>3, BarrierTypeOK DEF SetTable, Colors
<1>4. ASSUME NEW o \in Obj, NEW v \in Obj, SetObject(o, v) PROVE TypeOK'
  BY <1>4, BarrierTypeOK DEF SetObject, Colors
<1>5. ASSUME NEW o \in Obj, NEW v \in Obj, Erase(o, v) PROVE TypeOK'
  BY <1>5 DEF Erase
<1>6. ASSUME NEW u \in Obj, NEW v \in Obj, SetUpval(u, v) PROVE TypeOK'
  BY <1>6, BarrierTypeOK DEF SetUpval, Colors
<1>7. ASSUME NEW u \in Obj, NEW v \in Obj, SetSlot(u, v) PROVE TypeOK'
  BY <1>7 DEF SetSlot
<1>8. ASSUME NEW t \in Obj, NEW v \in Obj, XMove(t, v) PROVE TypeOK'
  BY <1>8 DEF XMove
<1>9. ASSUME NEW f \in Obj, NEW u \in Obj, CaptureShared(f, u) PROVE TypeOK'
  BY <1>9 DEF CaptureShared
<1>10. ASSUME NEW v \in Obj, Pop(v) PROVE TypeOK'
  BY <1>10 DEF Pop
<1>11. ASSUME NEW s \in Obj, InternString(s) PROVE TypeOK'
  BY <1>11 DEF InternString
<1>12. ASSUME NEW u \in Obj, CloseUpval(u) PROVE TypeOK'
  <2>1. AfterMark(refs[u]) \in [Obj -> Colors]
    BY AfterMarkType DEF Colors
  <2> QED BY <1>12, <2>1 DEF CloseUpval, Colors
<1>13. ASSUME NEW t \in Obj, Resume(t) PROVE TypeOK'
  BY <1>13 DEF Resume
<1>14. ASSUME NEW f \in Obj, NEW u \in Obj, NEW slot \in SUBSET Stored,
              CaptureNew(f, u, slot)
       PROVE  TypeOK'
  BY ZenonT(60), <1>14, GCAssumption DEF CaptureNew
<1>15. ASSUME NEW mt \in SUBSET Tables, SetBasicMetatable(mt) PROVE TypeOK'
  BY <1>15 DEF SetBasicMetatable
<1>16. ASSUME Yield PROVE TypeOK'
  BY <1>16, GCAssumption DEF Yield, Threads
<1> QED
  BY <1>1, <1>2, <1>3, <1>4, <1>5, <1>6, <1>7, <1>8, <1>9, <1>10, <1>11, <1>12, <1>13,
     <1>14, <1>15, <1>16
     DEF Mutator, Create, PushCClosure

\* Whatever the program does and whenever the collector runs, the variables keep
\* their types: the colours are colours, only traversable objects are queued, only
\* userdata with finalizers wait for one (lgc.c).
THEOREM TypeCorrect == Spec => []TypeOK
<1>1. Init => TypeOK
  BY InitTypeOK
<1>2. TypeOK /\ [Next]_vars => TypeOK'
  <2>1. ASSUME TypeOK, UNCHANGED vars PROVE TypeOK'
    BY <2>1 DEF TypeOK, vars
  <2> QED BY <2>1, CollectorTypeOK, MutatorTypeOK DEF Next
<1> QED BY <1>1, <1>2, PTL DEF Spec

-----------------------------------------------------------------------------
(* The inductive invariant under the steps of the program.                  *)

\* The kinds partition the objects.
LEMMA KindsDisjoint ==
  /\ Weak \subseteq Tables /\ Tables \subseteq Obj /\ Threads \subseteq Obj
  /\ Functions \subseteq Obj /\ Userdata \subseteq Obj /\ Upvals \subseteq Obj
  /\ Strings \subseteq Obj /\ Listed = Tables \cup Threads \cup Functions
  /\ Tables \cap Threads = {} /\ Tables \cap Functions = {} /\ Tables \cap Userdata = {}
  /\ Tables \cap Upvals = {} /\ Tables \cap Strings = {}
  /\ Threads \cap Functions = {} /\ Threads \cap Userdata = {}
  /\ Threads \cap Upvals = {} /\ Threads \cap Strings = {}
  /\ Functions \cap Userdata = {} /\ Functions \cap Upvals = {}
  /\ Functions \cap Strings = {} /\ Userdata \cap Upvals = {}
  /\ Userdata \cap Strings = {} /\ Upvals \cap Strings = {}
  /\ Values = Obj \ Upvals /\ Finalizable \subseteq Userdata
  /\ MainThread \in Threads /\ Registry \in Tables \ Weak /\ NoThread \notin Obj
BY GCAssumption
   DEF Weak, Tables, Threads, Functions, Userdata, Upvals, Strings, Listed, Values

\* isdead in terms of the current white.
LEMMA AliveIs ==
  ASSUME currentwhite \in Whites, NEW o
  PROVE  /\ isdead(o) <=> marked[o] \in Whites /\ marked[o] # currentwhite
         /\ Alive(o) <=> marked[o] # "free" /\ (marked[o] \in Whites => marked[o] = currentwhite)
BY DEF isdead, Alive, otherwhite, Whites

\* What marking the objects of S does (reallymarkobject): white objects turn gray
\* or black, the objects of S are not white any more, and a black one has marked
\* all it refers to.
LEMMA MarkColors ==
  ASSUME TypeOK, Shapes, NEW S \in SUBSET Obj
  PROVE  /\ \A x \in Obj : AfterMark(S)[x] = IF x \in Touched(S) THEN FirstColor(x)
                                             ELSE marked[x]
         /\ \A x \in Obj : AfterMark(S)[x] \in Whites => x \notin S /\ AfterMark(S)[x] = marked[x]
         /\ \A x \in Touched(S) : x \in Obj /\ iswhite(x)
         /\ \A x \in Touched(S) : FirstColor(x) = "black" =>
              \A v \in refs[x] : AfterMark(S)[v] \notin Whites
<1> USE DEF TypeOK, Shapes, Whites
<1>1. \A x \in Obj : AfterMark(S)[x] = IF x \in Touched(S) THEN FirstColor(x) ELSE marked[x]
  BY DEF AfterMark
<1>2. \A x : FirstColor(x) \in {"gray", "black"}
  BY DEF FirstColor
<1>3. \A x \in Touched(S) : x \in Obj /\ iswhite(x)
  BY KindsDisjoint DEF Touched, WhiteOf
<1>4. \A x \in Obj : AfterMark(S)[x] \in Whites => x \notin S /\ AfterMark(S)[x] = marked[x]
  BY <1>1, <1>2, TouchedWhite DEF WhiteOf, iswhite
<1>5. ASSUME NEW x \in Touched(S), FirstColor(x) = "black", NEW v \in refs[x]
      PROVE  AfterMark(S)[v] \notin Whites
  <2>1. x \in Obj /\ v \in Obj
    BY <1>3
  <2>2. CASE x \in Userdata
    <3>1. iswhite(v) => v \in Touched(S)
      BY <2>2, <2>1, KindsDisjoint DEF Touched, WhiteOf
    <3> QED BY <3>1, <2>1, <1>1, <1>2 DEF iswhite
  <2>3. CASE x \in Upvals
    <3>1. x \in WhiteOf(S)
      <4>1. x \notin Tables
        BY <2>3, KindsDisjoint
      <4>2. \A u \in Upvals : x \notin refs[u]
        BY <2>3, KindsDisjoint
      <4>3. \A u \in Userdata : u \in Obj => x \notin refs[u]
        BY <4>1
      <4> QED BY <4>2, <4>3, KindsDisjoint DEF Touched, WhiteOf
    <3>2. iswhite(v) => v \in Touched(S)
      BY <3>1, <2>3 DEF Touched, WhiteOf
    <3> QED BY <3>2, <2>1, <1>1, <1>2 DEF iswhite
  <2> QED BY <1>5, <2>2, <2>3 DEF FirstColor
<1> QED BY <1>1, <1>3, <1>4, <1>5

\* Reach is closed: it holds the given objects and all that is strongly
\* referred to from it, within W (propagateall).
LEMMA ReachClosed ==
  ASSUME NEW W, NEW S
  PROVE  /\ Reach(W, S) \subseteq W
         /\ S \cap W \subseteq Reach(W, S)
         /\ \A x \in Reach(W, S) : Strong(x) \cap W \subseteq Reach(W, S)
BY DEF Reach, ClosedIn

\* What the program can name is alive: the stack, the registry and the basic
\* metatables, what they contain, and the upvalues in reach.
LEMMA LocalAlive ==
  ASSUME IInv
  PROVE  /\ \A x \in Local \cup {running} : x \in Values /\ Alive(x)
         /\ \A x \in Local \cup {running} : \A v \in Contents(x) : v \in Values /\ Alive(v)
         /\ \A u \in LocalUpvals : u \in Upvals /\ (Alive(u) \/ open[u] = running)
<1> USE DEF IInv, TypeOK, Shapes, NoDangling
<1>1. ASSUME NEW t \in Threads, Alive(t), NEW v \in Slots(t) PROVE v \in Values /\ Alive(v)
  <2>1. t \in Obj /\ t \notin Functions /\ t # NoThread
    BY KindsDisjoint
  <2>2. CASE v \in refs[t]
    BY <2>2, <2>1, <1>1, KindsDisjoint
  <2>3. ASSUME NEW u \in OpenOn(t), v \in refs[u] PROVE v \in Values /\ Alive(v)
    BY <2>3, <2>1, <1>1, KindsDisjoint DEF OpenOn
  <2> QED BY <2>2, <2>3, <1>1 DEF Slots
<1>2. \A x \in Local \cup {running} : x \in Values /\ Alive(x)
  BY <1>1, KindsDisjoint DEF Local
<1>3. ASSUME NEW x \in Local \cup {running}, NEW v \in Contents(x) PROVE v \in Values /\ Alive(v)
  <2>1. x \in Obj /\ Alive(x)
    BY <1>2, KindsDisjoint
  <2>2. ASSUME x \in Threads, v \in Slots(x) PROVE v \in Values /\ Alive(v)
    BY <2>1, <2>2, <1>1
  <2>3. CASE v \in refs[x] \ Upvals
    BY <2>1, <2>3, KindsDisjoint
  <2>4. ASSUME NEW u \in refs[x] \cap Upvals, v \in refs[u] PROVE v \in Values /\ Alive(v)
    BY <2>1, <2>4, KindsDisjoint
  <2> QED BY <2>2, <2>3, <2>4, <1>3 DEF Contents
<1>4. ASSUME NEW u \in LocalUpvals PROVE u \in Upvals /\ (Alive(u) \/ open[u] = running)
  BY <1>2, <1>4, KindsDisjoint DEF LocalUpvals, OpenOn
<1> QED BY <1>2, <1>3, <1>4

-----------------------------------------------------------------------------
(* Steps of the program.                                                    *)

\* Copying a value that is alive to a stack needs no barrier: threads are never
\* black.
LEMMA PushKeepsInv ==
  ASSUME IInv, NEW t \in Threads, Alive(t), NEW v \in Values, Alive(v),
         refs' = [refs EXCEPT ![t] = @ \cup {v}],
         UNCHANGED <<collectorState, heapState, open, basicmt, running>>
  PROVE  IInv'
<1> USE DEF IInv, collectorState, heapState
<1>1. t \in Obj /\ v \in Obj /\ t \notin Functions /\ t \notin Strings /\ t \notin Userdata
      /\ ~isblack(t) /\ t \notin Upvals
  BY KindsDisjoint DEF BlackKinds
<1>2. TypeOK'
  BY <1>1 DEF TypeOK
<1>3. Shapes'
  BY <1>1 DEF Shapes, TypeOK, Alive
<1>4. \A o \in Obj : Alive(o)' <=> Alive(o)
  BY DEF Alive, isdead, otherwhite
<1>5. NoDangling'
  BY <1>1, <1>4, KindsDisjoint DEF NoDangling, TypeOK, Shapes
<1>6. TriColor'
  BY <1>1 DEF TriColor, isblack, isgray, isdead, otherwhite, iswhite, TypeOK
<1>7. BlackKinds' /\ Sweeping' /\ Idle'
  BY DEF BlackKinds, Sweeping, Idle, isblack, isgray, Allocated
<1> QED BY <1>2, <1>3, <1>5, <1>6, <1>7

\* Reading a field, an upvalue or a global (OP_GETTABLE, OP_GETUPVAL) keeps the invariant.
LEMMA LoadKeepsInv ==
  ASSUME IInv, NEW o \in Obj, NEW v \in Obj, Load(o, v) PROVE IInv'
<1>1. running \in Threads /\ Alive(running) /\ v \in Values /\ Alive(v)
  BY LocalAlive DEF Load, IInv, TypeOK
<1> QED BY <1>1, PushKeepsInv DEF Load

\* lua_xmove writes to another stack without a barrier.
LEMMA XMoveKeepsInv ==
  ASSUME IInv, NEW t \in Obj, NEW v \in Obj, XMove(t, v) PROVE IInv'
<1>1. t \in Threads /\ Alive(t) /\ v \in Values /\ Alive(v)
  BY LocalAlive DEF XMove
<1> QED BY <1>1, PushKeepsInv DEF XMove

\* Dropping references is harmless.
LEMMA DropKeepsInv ==
  ASSUME IInv, NEW o \in Obj, NEW v \in Obj, refs' = [refs EXCEPT ![o] = @ \ {v}],
         UNCHANGED <<collectorState, heapState, open, basicmt, running>>
  PROVE  IInv'
<1> USE DEF IInv, collectorState, heapState
<1>1. \A x \in Obj : refs'[x] \subseteq refs[x]
  BY DEF TypeOK
<1>2. TypeOK'
  BY DEF TypeOK
<1>3. Shapes'
  BY <1>1 DEF Shapes, TypeOK
<1>4. \A x \in Obj : Alive(x)' <=> Alive(x)
  BY DEF Alive, isdead, otherwhite
<1>5. NoDangling'
  BY <1>1, <1>4, KindsDisjoint DEF NoDangling, TypeOK, Shapes
<1>6. TriColor'
  BY <1>1 DEF TriColor, isblack, isgray, isdead, otherwhite, iswhite
<1>7. BlackKinds' /\ Sweeping' /\ Idle'
  BY DEF BlackKinds, Sweeping, Idle, isblack, isgray, Allocated
<1> QED BY <1>2, <1>3, <1>5, <1>6, <1>7

\* A slot of the stack dies or is overwritten.
LEMMA PopKeepsInv ==
  ASSUME IInv, NEW v \in Obj, Pop(v) PROVE IInv'
BY DropKeepsInv, KindsDisjoint DEF Pop, IInv, TypeOK

\* A field or a captured variable is overwritten with nil.
LEMMA EraseKeepsInv ==
  ASSUME IInv, NEW o \in Obj, NEW v \in Obj, Erase(o, v) PROVE IInv'
BY DropKeepsInv DEF Erase

\* The roots may change to any objects that are alive, at any time: `atomic' looks
\* at the running thread and the basic metatables again.
LEMMA SwitchKeepsInv ==
  ASSUME IInv, UNCHANGED <<collectorState, heapState, refs, open>>,
         /\ running' \in Threads /\ basicmt' \subseteq Tables
         /\ \A o \in {running'} \cup basicmt' : Alive(o)
  PROVE  IInv'
<1> USE DEF IInv, collectorState, heapState
<1>1. \A x : Alive(x)' <=> Alive(x)
  BY DEF Alive, isdead, otherwhite
<1>2. TypeOK' /\ Shapes'
  BY DEF TypeOK, Shapes
<1>3. NoDangling'
  BY <1>1 DEF NoDangling
<1>4. TriColor'
  BY DEF TriColor, isblack, isgray, isdead, otherwhite, iswhite
<1>5. BlackKinds' /\ Sweeping' /\ Idle'
  BY DEF BlackKinds, Sweeping, Idle, isblack, isgray, Allocated
<1> QED BY <1>2, <1>3, <1>4, <1>5

\* lua_resume, lua_yield and lua_setmetatable on a basic type write no object.
LEMMA ResumeYieldKeepInv ==
  ASSUME IInv, (\E t \in Obj : Resume(t)) \/ Yield
                 \/ \E mt \in SUBSET Tables : SetBasicMetatable(mt)
  PROVE  IInv'
<1>1. ASSUME NEW t \in Obj, Resume(t) PROVE IInv'
  <2>1. t \in Threads /\ Alive(t) /\ basicmt \subseteq Tables /\ \A o \in basicmt : Alive(o)
    BY <1>1, LocalAlive DEF Resume, Local, Slots, IInv, TypeOK
  <2> QED BY <1>1, <2>1, SwitchKeepsInv DEF Resume
<1>2. ASSUME Yield PROVE IInv'
  <2>1. MainThread \in Threads /\ Alive(MainThread) /\ basicmt \subseteq Tables
        /\ \A o \in basicmt : Alive(o)
    BY KindsDisjoint DEF IInv, TypeOK, NoDangling
  <2> QED BY <1>2, <2>1, SwitchKeepsInv DEF Yield
<1>3. ASSUME NEW mt \in SUBSET Tables, SetBasicMetatable(mt) PROVE IInv'
  <2>1. running \in Threads /\ Alive(running) /\ \A o \in mt : Alive(o)
    BY <1>3, LocalAlive DEF SetBasicMetatable, IInv, TypeOK
  <2> QED BY <1>3, <2>1, SwitchKeepsInv DEF SetBasicMetatable
<1> QED BY <1>1, <1>2, <1>3

\* Nothing that is alive, no root and no list of the collector leads to an object
\* that is free: its memory may be used again.
LEMMA FreshUnused ==
  ASSUME IInv, NEW o \in Obj, Fresh(o)
  PROVE  /\ refs[o] = {} /\ open[o] = NoThread /\ o \notin tmudata
         /\ o \notin {MainThread, Registry, running} \cup basicmt
         /\ \A x \in Obj : Alive(x) => o \notin refs[x] /\ open[x] # o
         /\ \A x \in Obj : open[x] # o
         /\ \A x \in Obj : open[x] # NoThread /\ Alive(open[x]) => o \notin refs[x]
         /\ gcstate \in {"sweepstring", "sweep"} => o \notin tosweep
         /\ gcstate = "propagate" => o \notin gray \cup grayagain
BY KindsDisjoint DEF IInv, TypeOK, Shapes, NoDangling, Sweeping, TriColor, Fresh, Alive, isgray

\* A new object gets the current white, so neither a mark phase nor a sweep under
\* way frees it (luaC_link).
LEMMA NewKeepsInv ==
  ASSUME IInv, NEW o \in Values, NEW c \in SUBSET Values, New(o, c),
         \A v \in c : Alive(v), c # {} => o \in Functions
  PROVE  IInv'
<1> USE DEF IInv, New, Whites
<1>1. /\ o \in Obj /\ running \in Obj /\ running \in Threads /\ running # o
      /\ o \notin Upvals /\ c \subseteq Obj /\ Alive(running) /\ ~isblack(running)
      /\ running \notin Functions /\ running \notin Strings /\ running \notin Userdata
  BY KindsDisjoint, FreshUnused DEF TypeOK, BlackKinds, NoDangling
<1>2. /\ \A x \in Obj : refs'[x] = IF x = o THEN c
                                   ELSE IF x = running THEN refs[x] \cup {o} ELSE refs[x]
      /\ \A x \in Obj : marked'[x] = IF x = o THEN currentwhite ELSE marked[x]
  BY <1>1 DEF TypeOK
<1>3. TypeOK'
  BY <1>1 DEF TypeOK
<1>4. Shapes'
  BY <1>1, <1>2, FreshUnused, KindsDisjoint DEF Shapes, TypeOK, Alive, Fresh
<1>5. \A x \in Obj : Alive(x)' <=> (Alive(x) \/ x = o)
  BY <1>2, FreshUnused DEF Alive, isdead, otherwhite, TypeOK, Fresh
<1>6. NoDangling'
  BY <1>1, <1>2, <1>5, FreshUnused, KindsDisjoint DEF NoDangling, TypeOK, Shapes
<1>7. TriColor'
  BY <1>1, <1>2, FreshUnused, KindsDisjoint, AliveIs
     DEF TriColor, isblack, isgray, isdead, otherwhite, iswhite, TypeOK, Alive
<1>8. BlackKinds' /\ Sweeping' /\ Idle'
  BY <1>1, <1>2, FreshUnused
     DEF BlackKinds, Sweeping, Idle, isblack, isgray, Allocated, TypeOK
<1> QED BY <1>3, <1>4, <1>6, <1>7, <1>8

\* luaH_new, luaS_newudata, luaE_newthread, luaF_newLclosure, lua_pushcclosure.
LEMMA CreateKeepsInv ==
  ASSUME IInv, NEW o \in Obj, Create(o) \/ \E v \in Obj : PushCClosure(o, v)
  PROVE  IInv'
<1>1. CASE Create(o)
  BY <1>1, NewKeepsInv, KindsDisjoint DEF Create
<1>2. ASSUME NEW v \in Obj, PushCClosure(o, v) PROVE IInv'
  <2>1. v \in Values /\ Alive(v) /\ o \in Values /\ o \in Functions
    BY <1>2, LocalAlive, KindsDisjoint DEF PushCClosure
  <2>2. {v} \in SUBSET Values /\ New(o, {v})
    BY <1>2, <2>1 DEF PushCClosure
  <2> HIDE DEF New
  <2> QED BY <2>1, <2>2, NewKeepsInv
<1> QED BY <1>1, <1>2

\* A string found again while it is dead is revived: it refers to nothing.
LEMMA InternKeepsInv ==
  ASSUME IInv, NEW s \in Obj, InternString(s) PROVE IInv'
<1> USE DEF IInv, InternString, Whites, collectorState
<1>1. /\ s \in Strings /\ s \in Values /\ running \in Obj /\ running \in Threads
      /\ running # s /\ Alive(running) /\ ~isblack(running) /\ marked[s] # "free"
      /\ running \notin Functions /\ running \notin Strings /\ running \notin Userdata
      /\ refs[s] = {} /\ s \notin Upvals /\ open[s] = NoThread
  BY KindsDisjoint DEF TypeOK, BlackKinds, NoDangling, Shapes, Fresh
<1>2. /\ \A x \in Obj : refs'[x] = IF x = running THEN refs[x] \cup {s} ELSE refs[x]
      /\ \A x \in Obj : marked'[x] = IF x = s /\ isdead(s) THEN currentwhite ELSE marked[x]
  BY <1>1 DEF TypeOK
<1>3. TypeOK'
  BY <1>1 DEF TypeOK
<1>4. Shapes'
  BY <1>1, <1>2, KindsDisjoint DEF Shapes, TypeOK, Alive
<1>5. \A x \in Obj : Alive(x)' <=> (Alive(x) \/ x = s)
  BY <1>1, <1>2 DEF Alive, isdead, otherwhite, TypeOK
<1>6. NoDangling'
  <2>1. \A x \in Obj : Alive(x)' => \A v \in refs'[x] : Alive(v)'
    BY <1>1, <1>2, <1>5 DEF NoDangling, TypeOK, Shapes
  <2>2. \A u \in Obj : open[u] # NoThread => /\ open[u] \in Obj /\ open[u] # s /\ u # running
    BY <1>1, KindsDisjoint DEF TypeOK, Shapes
  <2>3. \A u \in Obj : open[u] # NoThread =>
          /\ marked'[open[u]] # "free"
          /\ Alive(open[u])' => \A v \in refs'[u] : Alive(v)'
    BY <2>2, <1>1, <1>2, <1>5 DEF NoDangling, TypeOK
  <2> QED BY <2>1, <2>3, <1>5, KindsDisjoint DEF NoDangling, TypeOK
<1>7. TriColor'
  BY <1>1, <1>2, KindsDisjoint
     DEF TriColor, isblack, isgray, isdead, otherwhite, iswhite, TypeOK
<1>8. BlackKinds' /\ Sweeping' /\ Idle'
  BY <1>1, <1>2
     DEF BlackKinds, Sweeping, Idle, isblack, isgray, Allocated, TypeOK
<1> QED BY <1>3, <1>4, <1>6, <1>7, <1>8

\* A new closure over a slot of the stack: the slot moves to the new upvalue.
LEMMA CaptureNewKeepsInv ==
  ASSUME IInv, NEW f \in Obj, NEW u \in Obj, NEW slot \in SUBSET Stored,
         CaptureNew(f, u, slot)
  PROVE  IInv'
<1> USE DEF IInv, CaptureNew, Whites, collectorState
<1>1. /\ f \in Functions /\ u \in Upvals /\ running \in Obj /\ running \in Threads
      /\ running # f /\ running # u /\ f # u /\ Alive(running) /\ ~isblack(running)
      /\ running \notin Functions /\ running \notin Strings /\ running \notin Userdata
      /\ f \notin Upvals /\ f \notin Strings /\ f \notin Userdata
      /\ u \notin Functions /\ u \notin Strings /\ u \notin Userdata
      /\ running \notin Upvals /\ slot \subseteq refs[running] /\ Fresh(f) /\ Fresh(u)
      /\ running # NoThread /\ Alive(running)
  BY KindsDisjoint DEF TypeOK, BlackKinds, NoDangling
<1>2. /\ \A x \in Obj : refs'[x] = IF x = f THEN {u} ELSE IF x = u THEN slot
                                   ELSE IF x = running THEN (refs[x] \ slot) \cup {f}
                                   ELSE refs[x]
      /\ \A x \in Obj : marked'[x] = IF x \in {f, u} THEN currentwhite ELSE marked[x]
      /\ \A x \in Obj : open'[x] = IF x = u THEN running ELSE open[x]
  BY <1>1 DEF TypeOK
<1>3. TypeOK'
  BY <1>1, KindsDisjoint DEF TypeOK
<1>4. Shapes'
  BY <1>1, <1>2, KindsDisjoint DEF Shapes, TypeOK, Alive
<1>5. \A x \in Obj : Alive(x)' <=> (Alive(x) \/ x \in {f, u})
  BY <1>1, <1>2 DEF Alive, isdead, otherwhite, TypeOK, Fresh
<1>6. \A v \in slot : v \in Obj /\ Alive(v)
  BY <1>1 DEF NoDangling, TypeOK
<1>7. NoDangling'
  <2>1. ASSUME NEW x \in Obj, Alive(x)', NEW v \in refs'[x] PROVE Alive(v)'
    BY <2>1, <1>1, <1>2, <1>5, <1>6 DEF NoDangling, TypeOK, Fresh, Alive
  <2>2. ASSUME NEW x \in Obj, NEW t \in Obj, open'[x] = t
        PROVE  marked'[t] # "free" /\ (Alive(t)' => \A v \in refs'[x] : Alive(v)')
    <3>1. t # f /\ t # u
      BY <2>2, <1>1, <1>2, FreshUnused, KindsDisjoint DEF TypeOK
    <3>3. CASE x = u
      <4>1. t = running /\ refs'[x] = slot /\ marked'[t] = marked[t]
        BY <2>2, <3>3, <3>1, <1>1, <1>2
      <4> QED BY <4>1, <1>1, <1>5, <1>6 DEF Alive
    <3>4. CASE x # u
      <4>1. open[x] = t /\ open[x] # NoThread /\ x # f /\ x # running
        BY <2>2, <3>4, <1>1, <1>2, KindsDisjoint DEF Shapes
      <4>2. marked'[t] = marked[t] /\ refs'[x] = refs[x] /\ refs[x] \subseteq Obj
        BY <3>1, <3>4, <4>1, <1>2 DEF TypeOK
      <4>3. marked[t] # "free" /\ (Alive(t) => \A v \in refs[x] : Alive(v))
        BY <4>1 DEF NoDangling
      <4> QED BY <4>2, <4>3, <3>1, <1>5
    <3> QED BY <3>3, <3>4
  <2>3. \A x \in Obj : open'[x] # NoThread => open'[x] \in Obj
    BY <1>3, KindsDisjoint DEF TypeOK
  <2> QED BY <2>1, <2>2, <2>3, <1>5, KindsDisjoint DEF NoDangling, TypeOK
<1>8. TriColor'
  BY <1>1, <1>2, FreshUnused, KindsDisjoint, AliveIs
     DEF TriColor, isblack, isgray, isdead, otherwhite, iswhite, TypeOK, Alive
<1>9. BlackKinds' /\ Sweeping' /\ Idle'
  <2>1. BlackKinds'
    BY <1>1, <1>2, KindsDisjoint DEF BlackKinds, isblack, isgray, TypeOK
  <2>2. Sweeping'
    BY <1>1, <1>2, FreshUnused DEF Sweeping, Allocated, TypeOK
  <2>3. Idle'
    BY <1>1, <1>2, FreshUnused DEF Idle, Allocated, TypeOK
  <2> QED BY <2>1, <2>2, <2>3
<1> QED BY <1>3, <1>4, <1>7, <1>8, <1>9

\* A new closure over an upvalue that exists; a dead one of this stack is revived,
\* and its slot is alive because the running thread is.
LEMMA CaptureSharedKeepsInv ==
  ASSUME IInv, NEW f \in Obj, NEW u \in Obj, CaptureShared(f, u)
  PROVE  IInv'
<1> USE DEF IInv, CaptureShared, Whites, collectorState
<1>1. /\ f \in Functions /\ u \in Upvals /\ running \in Obj /\ running \in Threads
      /\ running # f /\ running # u /\ f # u /\ Alive(running) /\ ~isblack(running)
      /\ running \notin Functions /\ running \notin Strings /\ running \notin Userdata
      /\ f \notin Upvals /\ f \notin Strings /\ f \notin Userdata
      /\ u \notin Functions /\ u \notin Strings /\ u \notin Userdata
      /\ running \notin Upvals /\ Fresh(f) /\ (Alive(u) \/ open[u] = running)
      /\ running # NoThread /\ u \notin tmudata
  BY LocalAlive, KindsDisjoint DEF TypeOK, BlackKinds, NoDangling
<1>2. /\ \A x \in Obj : refs'[x] = IF x = f THEN {u}
                                   ELSE IF x = running THEN refs[x] \cup {f} ELSE refs[x]
      /\ \A x \in Obj : marked'[x] = IF x = f \/ (x = u /\ isdead(u)) THEN currentwhite
                                     ELSE marked[x]
  BY <1>1 DEF TypeOK
<1>3. TypeOK'
  BY <1>1 DEF TypeOK
<1>4. marked[u] # "free"
  BY <1>1 DEF Shapes, Alive
<1>5. Shapes'
  BY <1>1, <1>2, <1>4, KindsDisjoint DEF Shapes, TypeOK, Alive
<1>6. \A x \in Obj : Alive(x)' <=> (Alive(x) \/ x \in {f, u})
  BY <1>1, <1>2, <1>4 DEF Alive, isdead, otherwhite, TypeOK, Fresh
<1>7. \A v \in refs[u] : Alive(v)
  BY <1>1 DEF NoDangling, TypeOK
<1>8. NoDangling'
  <2>1. ASSUME NEW x \in Obj, Alive(x)', NEW v \in refs'[x] PROVE Alive(v)'
    BY <2>1, <1>1, <1>2, <1>6, <1>7 DEF NoDangling, TypeOK
  <2>2. ASSUME NEW x \in Obj, open[x] # NoThread
        PROVE  /\ marked'[open[x]] # "free"
               /\ Alive(open[x])' => \A v \in refs'[x] : Alive(v)'
    <3>1. open[x] \in Obj /\ x # f /\ x # running /\ open[x] # f /\ open[x] # u
      BY <2>2, <1>1, FreshUnused, KindsDisjoint DEF TypeOK, Shapes
    <3> QED BY <2>2, <3>1, <1>2, <1>6 DEF NoDangling, TypeOK
  <2> QED BY <2>1, <2>2, <1>6, KindsDisjoint DEF NoDangling, TypeOK
<1>9. TriColor'
  BY <1>1, <1>2, FreshUnused, KindsDisjoint, AliveIs
     DEF TriColor, isblack, isgray, isdead, otherwhite, iswhite, TypeOK, Alive
<1>10. BlackKinds' /\ Sweeping' /\ Idle'
  <2>1. BlackKinds'
    BY <1>1, <1>2, KindsDisjoint DEF BlackKinds, isblack, isgray, TypeOK
  <2>2. Sweeping'
    BY <1>1, <1>2, FreshUnused DEF Sweeping, Allocated, TypeOK
  <2>3. Idle'
    BY <1>1, <1>2, FreshUnused DEF Idle, Allocated, TypeOK
  <2> QED BY <2>1, <2>2, <2>3
<1> QED BY <1>3, <1>5, <1>8, <1>9, <1>10

\* The forward barrier: a userdata, function or upvalue o that is alive may come
\* to hold a value v that is alive.
LEMMA StoreForwardKeepsInv ==
  ASSUME IInv, MutatorRuns, NEW o \in Userdata \cup Functions \cup Upvals,
         NEW v \in Values, Alive(o), Alive(v), o \in Userdata => v \in Tables,
         NEW r \in SUBSET (refs[o] \cup {v}), refs' = [refs EXCEPT ![o] = r],
         BarrierForward(o, v), UNCHANGED <<collectorState, open, basicmt, running>>
  PROVE  IInv'
<1> USE DEF IInv, Whites, collectorState
<1>1. /\ o \in Obj /\ v \in Obj /\ v \notin Upvals /\ o \notin Strings
      /\ o \notin Threads /\ o \notin Tables /\ o \notin Weak /\ marked[o] # "free"
  BY KindsDisjoint DEF Alive
<1>2. \A x \in Obj : refs'[x] = IF x = o THEN r ELSE refs[x]
  BY <1>1 DEF TypeOK
<1>3. TypeOK'
  BY <1>1, BarrierTypeOK DEF TypeOK, Colors
<1>4. /\ \A x \in Obj : marked'[x] = "free" <=> marked[x] = "free"
      /\ \A x \in Obj : Alive(x)' <=> Alive(x)
      /\ \A x \in Obj : marked'[x] \in Whites => marked'[x] = marked[x] \/ x = o
  <2>1. CASE iswhite(v) /\ isblack(o) /\ gcstate = "propagate"
    <3>1. \A x \in Obj : marked'[x] = AfterMark({v})[x]
      BY <2>1 DEF BarrierForward
    <3>2. \A x : FirstColor(x) \in {"gray", "black"}
      BY DEF FirstColor
    <3>3. \A x \in Touched({v}) : x \in Obj /\ marked[x] = currentwhite
      BY <2>1, <1>1, MarkColors, AliveIs DEF TriColor, TypeOK, isdead, iswhite
    <3>4. \A x \in Obj : marked'[x] = IF x \in Touched({v}) THEN FirstColor(x) ELSE marked[x]
      BY <3>1, <1>1, MarkColors
    <3>5. \A x \in Obj : marked'[x] = marked[x]
                         \/ (marked[x] = currentwhite /\ marked'[x] \in {"gray", "black"})
      BY <3>2, <3>3, <3>4
    <3>6. currentwhite' = currentwhite /\ currentwhite \in Whites
      BY DEF TypeOK
    <3> QED BY <3>5, <3>6 DEF Alive, isdead, otherwhite
  <2>2. CASE iswhite(v) /\ isblack(o) /\ gcstate # "propagate"
    BY <2>2, <1>1 DEF BarrierForward, TypeOK, Alive, isdead, otherwhite, isblack
  <2>3. CASE ~(iswhite(v) /\ isblack(o))
    BY <2>3, <1>1 DEF BarrierForward, Alive, isdead, otherwhite
  <2> QED BY <2>1, <2>2, <2>3
<1>5. Shapes'
  BY <1>1, <1>2, <1>4, KindsDisjoint DEF Shapes, TypeOK
<1>6. NoDangling'
  <2>1. \A x \in Obj : Alive(x)' => \A y \in refs'[x] : Alive(y)'
    BY <1>1, <1>2, <1>4 DEF NoDangling, TypeOK
  <2>2. ASSUME NEW x \in Obj, open[x] # NoThread
        PROVE  /\ marked'[open[x]] # "free"
               /\ Alive(open[x])' => \A y \in refs'[x] : Alive(y)'
    <3>1. open[x] \in Obj /\ refs[x] \subseteq Obj
      BY <2>2, KindsDisjoint DEF TypeOK
    <3> QED BY <2>2, <3>1, <1>1, <1>2, <1>4 DEF NoDangling
  <2> QED BY <2>1, <2>2, <1>4, KindsDisjoint DEF NoDangling, TypeOK
<1>7. TriColor'
  <2>0. SUFFICES ASSUME gcstate = "propagate" PROVE TriColor'
    BY DEF TriColor
  <2>1. tmudata = {} /\ full # "marking"
    BY <2>0 DEF TriColor, MutatorRuns
  <2>2. CASE iswhite(v) /\ isblack(o)
    <3>1. /\ marked' = AfterMark({v}) /\ gray' = gray \cup (Touched({v}) \cap Listed)
          /\ grayagain' = grayagain
      BY <2>0, <2>2 DEF BarrierForward
    <3>2. \A x : FirstColor(x) \in {"gray", "black"}
      BY DEF FirstColor
    <3>3. \A x \in Obj : ~isdead(x)'
      BY <2>0, <1>4, <1>3 DEF TriColor, isdead, Alive, otherwhite
    <3>4. ASSUME NEW x \in Obj, isblack(x)', NEW y \in refs'[x] PROVE ~iswhite(y)'
      <4>1. y \in Obj /\ (x # o => y \in refs[x])
        BY <1>1, <1>2 DEF TypeOK
      <4>2. AfterMark({v})[v] \notin Whites
        BY MarkColors, <1>1
      <4>3. CASE x = o
        <5>1. y \in refs[o] \/ y = v
          BY <4>3, <1>2
        <5>2. y \in refs[o] => ~iswhite(y)
          BY <2>0, <2>1, <2>2, <1>1 DEF TriColor
        <5> QED BY <5>1, <5>2, <4>1, <4>2, <3>1, <1>1, MarkColors DEF iswhite
      <4>4. CASE x # o /\ x \in Touched({v})
        BY <4>4, <4>1, <3>4, <3>1, <1>1, MarkColors DEF isblack, iswhite
      <4>5. CASE x # o /\ x \notin Touched({v})
        <5>1. isblack(x)
          BY <4>5, <3>4, <3>1, <1>1, MarkColors DEF isblack
        <5>2. ~iswhite(y)
          BY <5>1, <4>1, <4>5, <2>0, <2>1 DEF TriColor
        <5> QED BY <5>2, <4>1, <3>1, <1>1, MarkColors DEF iswhite
      <4> QED BY <4>3, <4>4, <4>5
    <3>5. \A x \in Listed \ Weak : isgray(x)' => x \in gray' \cup grayagain'
      BY <2>0, <3>1, <1>1, MarkColors, KindsDisjoint DEF TriColor, isgray, isblack, iswhite
    <3>6. \A x \in Upvals : isgray(x)' => open'[x] # NoThread
      BY <2>0, <3>1, <1>1, MarkColors, KindsDisjoint
         DEF TriColor, isgray, isblack, iswhite, FirstColor
    <3>7. \A x \in gray' \cup grayagain' : isgray(x)'
      BY <2>0, <3>1, <1>1, MarkColors, KindsDisjoint
         DEF TriColor, TypeOK, isgray, isblack, iswhite, FirstColor
    <3>8. gray' \cap grayagain' = {}
      BY <2>0, <3>1, <1>1, MarkColors DEF TriColor, isgray, iswhite
    <3>9. ~iswhite(MainThread)' /\ ~iswhite(Registry)'
      BY <2>0, <3>1, <1>1, MarkColors, KindsDisjoint DEF TriColor, iswhite
    <3> QED BY <3>3, <3>4, <3>5, <3>6, <3>7, <3>8, <3>9, <2>1 DEF TriColor
  <2>3. CASE ~(iswhite(v) /\ isblack(o))
    BY <2>0, <2>1, <2>3, <1>1, <1>2
       DEF TriColor, BarrierForward, isblack, isgray, isdead, otherwhite, iswhite, TypeOK
  <2> QED BY <2>2, <2>3
<1>8. BlackKinds'
  <2>1. CASE iswhite(v) /\ isblack(o) /\ gcstate = "propagate"
    <3>1. \A x \in Obj : marked'[x] = IF x \in Touched({v}) THEN FirstColor(x) ELSE marked[x]
      BY <2>1, <1>1, MarkColors DEF BarrierForward
    <3> QED BY <3>1, KindsDisjoint DEF BlackKinds, FirstColor, isblack, isgray, Shapes
  <2>2. CASE ~(iswhite(v) /\ isblack(o) /\ gcstate = "propagate")
    BY <2>2, <1>1, KindsDisjoint DEF BlackKinds, BarrierForward, isblack, isgray, TypeOK
  <2> QED BY <2>1, <2>2
<1>9. Sweeping' /\ Idle'
  <2>1. gcstate # "propagate" => \A x \in Obj : marked'[x] = marked[x] \/ marked'[x] = currentwhite
    BY <1>1 DEF BarrierForward, TypeOK
  <2>2. Sweeping'
    BY <2>1, <1>4 DEF Sweeping, Allocated, TypeOK
  <2>3. Idle'
    BY <2>1, <1>4 DEF Idle, Allocated, TypeOK
  <2> QED BY <2>2, <2>3
<1> QED BY <1>3, <1>5, <1>6, <1>7, <1>8, <1>9

\* lua_setmetatable, lua_setfenv, lua_setupvalue on userdata and C functions.
LEMMA SetObjectKeepsInv ==
  ASSUME IInv, NEW o \in Obj, NEW v \in Obj, SetObject(o, v) PROVE IInv'
<1>1. /\ o \in Userdata \cup Functions /\ Alive(o) /\ v \in Values /\ Alive(v)
      /\ o \in Userdata => v \in Tables
  BY LocalAlive DEF SetObject
<1>2. refs[o] \cup {v} \in SUBSET (refs[o] \cup {v})
  OBVIOUS
<1> QED BY <1>1, <1>2, StoreForwardKeepsInv DEF SetObject

\* OP_SETUPVAL keeps the invariant.
LEMMA SetUpvalKeepsInv ==
  ASSUME IInv, NEW u \in Obj, NEW v \in Obj, SetUpval(u, v) PROVE IInv'
<1>1. PICK f \in Local \cap Functions : u \in refs[f] \cap Upvals
  BY DEF SetUpval
<1>2. /\ u \in Upvals /\ Alive(u) /\ v \in Values /\ Alive(v) /\ u \notin Userdata
  BY <1>1, LocalAlive, KindsDisjoint DEF SetUpval, IInv, NoDangling
<1>3. {v} \in SUBSET (refs[u] \cup {v})
  OBVIOUS
<1> QED BY <1>2, <1>3, StoreForwardKeepsInv DEF SetUpval

\* The backward barrier: a black table that gets a white value turns gray and is
\* traversed again by `atomic'.
LEMMA SetTableKeepsInv ==
  ASSUME IInv, NEW t \in Obj, NEW v \in Obj, SetTable(t, v) PROVE IInv'
<1> USE DEF IInv, Whites, collectorState, SetTable
<1>1. /\ t \in Tables /\ v \in Values /\ Alive(t) /\ Alive(v) /\ v \notin Upvals
      /\ t \notin Functions /\ t \notin Strings /\ t \notin Userdata /\ t \notin Upvals
      /\ t \in Listed /\ t \notin Threads /\ t \notin tmudata
  BY LocalAlive, KindsDisjoint DEF TypeOK
<1>2. /\ \A x \in Obj : refs'[x] = IF x = t THEN refs[x] \cup {v} ELSE refs[x]
      /\ \A x \in Obj : marked'[x] = IF x = t /\ iswhite(v) /\ isblack(t) THEN "gray"
                                     ELSE marked[x]
  BY DEF TypeOK, BarrierBack
<1>3. TypeOK'
  BY <1>1, BarrierTypeOK DEF TypeOK, Colors
<1>4. Shapes'
  BY <1>1, <1>2, KindsDisjoint DEF Shapes, TypeOK, isblack, Alive
<1>5. \A x \in Obj : Alive(x)' <=> Alive(x)
  BY <1>2 DEF Alive, isdead, otherwhite, isblack
<1>6. NoDangling'
  <2>1. \A x \in Obj : Alive(x)' => \A y \in refs'[x] : Alive(y)'
    BY <1>1, <1>2, <1>5 DEF NoDangling, TypeOK
  <2>2. ASSUME NEW x \in Obj, open[x] # NoThread
        PROVE  /\ marked'[open[x]] # "free"
               /\ Alive(open[x])' => \A y \in refs'[x] : Alive(y)'
    <3>1. open[x] \in Obj /\ refs[x] \subseteq Obj /\ x # t
      BY <2>2, <1>1, KindsDisjoint DEF TypeOK, Shapes
    <3> QED BY <2>2, <3>1, <1>1, <1>2, <1>5 DEF NoDangling
  <2> QED BY <2>1, <2>2, <1>5, KindsDisjoint DEF NoDangling, TypeOK
<1>7. TriColor'
  BY <1>1, <1>2, KindsDisjoint
     DEF TriColor, BlackKinds, BarrierBack, isblack, isgray, isdead, otherwhite, iswhite, TypeOK
<1>8. BlackKinds'
  BY <1>1, <1>2, KindsDisjoint DEF BlackKinds, isblack, isgray, TypeOK
<1>9. Sweeping' /\ Idle'
  <2>1. isblack(t) => gcstate \notin {"pause", "finalize"}
    BY <1>1, KindsDisjoint DEF Idle, Allocated, isblack, TypeOK
  <2>2. Sweeping'
    BY <1>1, <1>2 DEF Sweeping, Allocated, TypeOK, isblack
  <2>3. Idle'
    BY <2>1, <1>2, <1>1 DEF Idle, Allocated, TypeOK
  <2> QED BY <2>2, <2>3
<1> QED BY <1>3, <1>4, <1>6, <1>7, <1>8, <1>9

\* Captured slots are written without a barrier: open upvalues are never black.
LEMMA SetSlotKeepsInv ==
  ASSUME IInv, NEW u \in Obj, NEW v \in Obj, SetSlot(u, v) PROVE IInv'
<1> USE DEF IInv, Whites, collectorState, heapState, SetSlot
<1>1. /\ u \in Upvals /\ v \in Values /\ Alive(v) /\ ~isblack(u) /\ open[u] = running
      /\ u \notin Strings /\ u \notin Userdata /\ u \notin Functions
      /\ running \in Threads /\ running # NoThread /\ marked[u] # "free"
  BY LocalAlive, KindsDisjoint DEF TypeOK, BlackKinds, OpenOn, Shapes
<1>2. \A x \in Obj : refs'[x] = IF x = u THEN {v} ELSE refs[x]
  BY DEF TypeOK
<1>3. TypeOK'
  BY DEF TypeOK
<1>4. Shapes'
  BY <1>1, <1>2, KindsDisjoint DEF Shapes, TypeOK
<1>5. \A x : Alive(x)' <=> Alive(x)
  BY DEF Alive, isdead, otherwhite
<1>6. NoDangling'
  BY <1>1, <1>2, <1>5 DEF NoDangling, TypeOK
<1>7. TriColor'
  BY <1>1, <1>2 DEF TriColor, isblack, isgray, isdead, otherwhite, iswhite, TypeOK
<1>8. BlackKinds' /\ Sweeping' /\ Idle'
  BY DEF BlackKinds, Sweeping, Idle, isblack, isgray, Allocated
<1> QED BY <1>3, <1>4, <1>6, <1>7, <1>8

\* luaF_close: an upvalue that was gray while it was open is coloured as a closed
\* one is, so what it holds is marked in the mark phase; a dead one is freed.
LEMMA CloseUpvalKeepsInv ==
  ASSUME IInv, NEW u \in Obj, CloseUpval(u) PROVE IInv'
<1> USE DEF IInv, Whites, collectorState
<1>1. /\ u \in Upvals /\ open[u] = running /\ running \in Threads /\ running # NoThread
      /\ marked[u] # "free" /\ ~isblack(u) /\ u \notin tmudata
      /\ u \notin Threads /\ u \notin Tables /\ u \notin Functions /\ u \notin Strings
      /\ u \notin Userdata /\ u \notin Listed /\ u \notin Weak /\ refs[u] \subseteq Values
      /\ refs[u] \in SUBSET Obj /\ Alive(running) /\ u # MainThread /\ u # Registry
      /\ MutatorRuns /\ u # running /\ u \notin basicmt
      /\ gcstate \in {"sweepstring", "sweep"} => u \notin tosweep
  BY KindsDisjoint DEF CloseUpval, OpenOn, TypeOK, Shapes, BlackKinds, Sweeping, NoDangling
<1>2. \A x \in Obj : open'[x] = IF x = u THEN NoThread ELSE open[x]
  BY DEF CloseUpval, TypeOK
<1>3. TypeOK'
  BY MutatorTypeOK DEF Mutator
<1>4. /\ UNCHANGED <<gcstate, currentwhite, tosweep, tmudata, finalized, full>>
      /\ UNCHANGED <<grayagain, basicmt, running>>
  BY DEF CloseUpval
<1>5. CASE isdead(u)
  <2>1. /\ \A x \in Obj : marked'[x] = IF x = u THEN "free" ELSE marked[x]
        /\ \A x \in Obj : refs'[x] = IF x = u THEN {} ELSE refs[x]
        /\ gray' = gray /\ gcstate # "propagate"
    BY <1>5 DEF CloseUpval, TypeOK, TriColor
  <2>2. Shapes'
    BY <2>1, <1>2 DEF Shapes
  <2>3. \A x \in Obj : Alive(x)' <=> Alive(x)
    BY <2>1, <1>4, <1>5 DEF Alive, isdead, otherwhite
  <2>4. NoDangling'
    <3>1. \A x \in Obj : Alive(x)' => \A v \in refs'[x] : Alive(v)'
      BY <2>1, <2>3 DEF NoDangling, TypeOK
    <3>2. ASSUME NEW x \in Obj, NEW t, open'[x] = t, t # NoThread
          PROVE  marked'[t] # "free" /\ (Alive(t)' => \A v \in refs'[x] : Alive(v)')
      <4>1. x # u /\ open[x] = t /\ t \in Obj /\ t # u
        BY <3>2, <1>1, <1>2, KindsDisjoint DEF TypeOK
      <4>2. marked[t] # "free" /\ (Alive(t) => \A v \in refs[x] : Alive(v))
        BY <3>2, <4>1 DEF NoDangling
      <4> QED BY <4>1, <4>2, <2>1, <2>3 DEF TypeOK
    <3> QED BY <3>1, <3>2, <2>3, <1>4, KindsDisjoint DEF NoDangling, TypeOK
  <2>5. TriColor'
    BY <2>1, <1>4 DEF TriColor
  <2>6. BlackKinds'
    BY <2>1, <1>2, KindsDisjoint DEF BlackKinds, isblack, isgray
  <2>7. Sweeping'
    BY <2>1, <1>1, <1>2, <1>4 DEF Sweeping, Allocated, TypeOK
  <2>8. Idle'
    BY <2>1, <1>4 DEF Idle, Allocated
  <2> QED BY <1>3, <2>2, <2>4, <2>5, <2>6, <2>7, <2>8
<1>6. ASSUME ~isdead(u), refs' = refs,
             \A x \in Obj : Alive(x)' <=> Alive(x),
             \A x \in Obj : marked'[x] = "free" => marked[x] = "free"
      PROVE  Shapes' /\ NoDangling'
  <2>1. Shapes'
    BY <1>6, <1>2 DEF Shapes
  <2>2. \A x \in Obj : Alive(x)' => \A v \in refs'[x] : Alive(v)'
    BY <1>6 DEF NoDangling, TypeOK
  <2>3. ASSUME NEW x \in Obj, NEW t, open'[x] = t, t # NoThread
        PROVE  marked'[t] # "free" /\ (Alive(t)' => \A v \in refs'[x] : Alive(v)')
    <3>1. open[x] = t /\ t \in Obj
      BY <2>3, <1>2, KindsDisjoint DEF TypeOK
    <3>2. marked[t] # "free" /\ (Alive(t) => \A v \in refs[x] : Alive(v))
      BY <2>3, <3>1 DEF NoDangling
    <3> QED BY <3>1, <3>2, <1>6 DEF TypeOK
  <2> QED BY <2>1, <2>2, <2>3, <1>6, <1>4, KindsDisjoint DEF NoDangling, TypeOK
<1>7. CASE ~isdead(u) /\ ~(isgray(u) /\ gcstate = "propagate")
  <2>1. /\ \A x \in Obj : marked'[x] = IF x = u THEN currentwhite ELSE marked[x]
        /\ refs' = refs /\ gray' = gray /\ currentwhite \in Whites
    BY <1>1, <1>7, AliveIs DEF CloseUpval, TypeOK, isgray, isblack
  <2>2. Shapes' /\ NoDangling'
    BY <2>1, <1>1, <1>4, <1>6, <1>7 DEF Alive, isdead, otherwhite
  <2>3. gcstate = "propagate" => marked' = marked
    BY <1>7 DEF CloseUpval
  <2>4. TriColor'
    BY <2>1, <2>3, <1>2, <1>4, <1>7, KindsDisjoint
       DEF TriColor, isblack, isgray, isdead, otherwhite, iswhite
  <2>5. BlackKinds'
    BY <2>1, <1>1, <1>2, KindsDisjoint DEF BlackKinds, isblack, isgray
  <2>6. Sweeping'
    BY <2>1, <1>1, <1>2, <1>4 DEF Sweeping, Allocated, TypeOK
  <2>7. Idle'
    BY <2>1, <1>4, <1>1 DEF Idle, Allocated
  <2> QED BY <1>3, <2>2, <2>4, <2>5, <2>6, <2>7
<1>8. CASE ~isdead(u) /\ isgray(u) /\ gcstate = "propagate"
  <2> DEFINE R == refs[u]
  <2>0. R \in SUBSET Obj /\ refs' = refs /\ gray' = gray \cup (Touched(R) \cap Listed)
    BY <1>1, <1>8 DEF CloseUpval, isdead, isgray
  <2>1. /\ \A x \in Obj : AfterMark(R)[x] = IF x \in Touched(R) THEN FirstColor(x) ELSE marked[x]
        /\ \A x \in Obj : AfterMark(R)[x] \in Whites => x \notin R /\ AfterMark(R)[x] = marked[x]
        /\ \A x \in Touched(R) : x \in Obj /\ iswhite(x)
        /\ \A x \in Touched(R) : FirstColor(x) = "black" =>
             \A v \in refs[x] : AfterMark(R)[v] \notin Whites
    BY <2>0, MarkColors
  <2>2. \A x \in Obj : marked'[x] = IF x = u THEN "black" ELSE AfterMark(R)[x]
    BY <1>8, AfterMarkType DEF CloseUpval, TypeOK, Colors, isdead, isgray
  <2> HIDE DEF R
  <2>3. \A x : FirstColor(x) \in {"gray", "black"}
    BY DEF FirstColor
  <2>4. /\ \A x \in Obj : marked'[x] = marked[x] \/ x = u
                         \/ (iswhite(x) /\ marked'[x] \in {"gray", "black"})
        /\ u \notin Touched(R)
    BY <2>1, <2>2, <2>3, <1>8 DEF isgray, iswhite
  <2>5. \A x \in Obj : ~isdead(x) /\ ~isdead(x)'
    BY <2>2, <2>4, <1>8, <1>4 DEF TriColor, isdead, otherwhite
  <2>6. Shapes' /\ NoDangling'
    BY <2>0, <2>2, <2>4, <2>5, <1>1, <1>6 DEF Alive, iswhite
  <2>7. TriColor'
    <3>1. tmudata = {} /\ full # "marking"
      BY <1>1, <1>8 DEF TriColor, MutatorRuns
    <3>2. ASSUME NEW x \in Obj, isblack(x)', NEW y \in refs[x] PROVE ~iswhite(y)'
      <4>0. y \in Obj
        BY DEF TypeOK
      <4>1. CASE x = u
        BY <4>1, <4>0, <2>1, <2>2 DEF iswhite, R
      <4>2. CASE x \in Touched(R)
        BY <4>0, <4>2, <3>2, <2>1, <2>2, <2>4 DEF isblack, iswhite
      <4>3. CASE x # u /\ x \notin Touched(R)
        <5>1. isblack(x)
          BY <4>3, <3>2, <2>1, <2>2 DEF isblack
        <5>2. ~iswhite(y)
          BY <5>1, <3>1, <1>8 DEF TriColor
        <5> QED BY <5>2, <4>0, <2>4, <2>2 DEF iswhite
      <4> QED BY <4>1, <4>2, <4>3
    <3>3. \A x \in Listed \ Weak : isgray(x)' => x \in gray' \cup grayagain'
      BY <2>0, <2>1, <2>2, <1>1, <1>4, <1>8, KindsDisjoint DEF TriColor, isgray
    <3>4. \A x \in Upvals : isgray(x)' => open'[x] # NoThread
      BY <2>1, <2>2, <1>2, <1>8, KindsDisjoint DEF TriColor, isgray, FirstColor
    <3>5. \A x \in gray' \cup grayagain' : isgray(x)' /\ x \in Obj
      BY <2>0, <2>1, <2>2, <1>1, <1>4, <1>8, KindsDisjoint
         DEF TriColor, TypeOK, isgray, FirstColor, iswhite
    <3>6. gray' \cap grayagain' = {}
      BY <2>0, <2>1, <1>4, <1>8 DEF TriColor, isgray, iswhite
    <3>7. ~iswhite(MainThread)' /\ ~iswhite(Registry)'
      BY <2>2, <2>4, <1>1, <1>8, KindsDisjoint DEF TriColor, iswhite
    <3> QED BY <3>1, <3>2, <3>3, <3>4, <3>5, <3>6, <3>7, <2>0, <2>5, <1>4 DEF TriColor
  <2>8. BlackKinds'
    BY <2>1, <2>2, <1>1, <1>2, KindsDisjoint
       DEF BlackKinds, FirstColor, isblack, isgray, Shapes
  <2>9. Sweeping' /\ Idle'
    BY <1>4, <1>8 DEF Sweeping, Idle
  <2> QED BY <1>3, <2>6, <2>7, <2>8, <2>9
<1> QED BY <1>5, <1>7, <1>8

-----------------------------------------------------------------------------
(* The steps of the collector, and the safety theorems: no step of the      *)
(* collector or of the program makes an object that survives refer to one   *)
(* that does not.                                                           *)

\* Marking while nothing is dead: every object stays alive or free.
LEMMA MarkKeepsAlive ==
  ASSUME IInv, \A x \in Obj : ~isdead(x),
         UNCHANGED <<currentwhite, refs, open, tmudata, basicmt, running>>,
         \A x \in Obj : \/ marked'[x] = marked[x]
                        \/ marked[x] # "free" /\ marked'[x] \in {"gray", "black"}
  PROVE  Shapes' /\ NoDangling' /\ \A x \in Obj : ~isdead(x)'
<1> USE DEF IInv, Whites
<1>1. \A x \in Obj : /\ marked'[x] = "free" <=> marked[x] = "free"
                     /\ ~isdead(x)'
                     /\ Alive(x)' <=> Alive(x)
  BY OtherWhite DEF Alive, isdead, otherwhite, TypeOK
<1>2. Shapes'
  BY <1>1 DEF Shapes
<1>3. \A x \in Obj : open[x] # NoThread => open[x] \in Obj
  BY KindsDisjoint DEF TypeOK
<1>4. NoDangling'
  BY <1>1, <1>3, KindsDisjoint DEF NoDangling, TypeOK
<1> QED BY <1>1, <1>2, <1>4

\* markroot starts a mark phase from objects that are all white.
LEMMA MarkRootKeepsInv ==
  ASSUME IInv, MarkRoot PROVE IInv'
<1> DEFINE S == {MainThread, Registry} \cup basicmt
<1> USE DEF IInv, Whites
<1>1. /\ marked' = AfterMark(S) /\ gray' = Touched(S) \cap Listed /\ grayagain' = {}
      /\ gcstate \in {"pause", "finalize"} /\ gcstate' = "propagate"
      /\ full' = "no" => gcstate = "pause"
      /\ full' \in {"no", "marking"}
      /\ UNCHANGED <<currentwhite, refs, open, tosweep, tmudata, finalized, basicmt, running>>
  BY DEF MarkRoot
<1>2. S \in SUBSET Obj /\ MainThread \in S /\ Registry \in S
  BY KindsDisjoint DEF TypeOK
<1>3. /\ \A x \in Obj : AfterMark(S)[x] = IF x \in Touched(S) THEN FirstColor(x) ELSE marked[x]
      /\ \A x \in Obj : AfterMark(S)[x] \in Whites => x \notin S /\ AfterMark(S)[x] = marked[x]
      /\ \A x \in Touched(S) : x \in Obj /\ iswhite(x)
      /\ \A x \in Touched(S) : FirstColor(x) = "black" =>
           \A v \in refs[x] : AfterMark(S)[v] \notin Whites
  BY <1>2, MarkColors
<1> HIDE DEF S
<1>4. \A x \in Obj : marked[x] = "free" \/ marked[x] = currentwhite \/ x \in tmudata
  BY <1>1 DEF Idle, Allocated
<1>5. \A x \in Obj : ~isdead(x)
  BY <1>4, OtherWhite DEF NoDangling, Alive, isdead, TypeOK
<1>6. \A x : FirstColor(x) \in {"gray", "black"}
  BY DEF FirstColor
<1>7. TypeOK'
  BY CollectorTypeOK DEF SingleStep
<1>8. Shapes' /\ NoDangling' /\ \A x \in Obj : ~isdead(x)'
  BY <1>1, <1>3, <1>5, <1>6, MarkKeepsAlive DEF iswhite
<1>9. TriColor'
  <2>1. ASSUME NEW x \in Obj \ tmudata, isblack(x)', NEW v \in refs[x] PROVE ~iswhite(v)'
    <3>1. x \in Touched(S) /\ FirstColor(x) = "black"
      BY <2>1, <1>1, <1>3, <1>4 DEF isblack, TypeOK
    <3> QED BY <3>1, <1>1, <1>3 DEF iswhite
  <2>2. \A x \in Obj : isgray(x)' => x \in Touched(S) /\ FirstColor(x) = "gray"
    <3>1. \A x \in tmudata : ~isgray(x)
      BY KindsDisjoint DEF BlackKinds, TypeOK
    <3> QED BY <3>1, <1>1, <1>3, <1>4 DEF isgray, TypeOK
  <2>3. \A x \in Listed \ Weak : isgray(x)' => x \in gray'
    BY <2>2, <1>1, KindsDisjoint
  <2>4. \A x \in Upvals : isgray(x)' => open'[x] # NoThread
    BY <2>2, <1>1, KindsDisjoint DEF FirstColor
  <2>5. \A x \in gray' : isgray(x)'
    BY <1>1, <1>3, KindsDisjoint DEF FirstColor, isgray
  <2>6. ~iswhite(MainThread)' /\ ~iswhite(Registry)'
    BY <1>1, <1>2, <1>3 DEF iswhite
  <2>7. full' # "marking" => tmudata' = {}
    BY <1>1 DEF Idle
  <2> QED BY <2>1, <2>3, <2>4, <2>5, <2>6, <2>7, <1>1, <1>8 DEF TriColor
<1>10. BlackKinds'
  BY <1>1, <1>3, KindsDisjoint DEF BlackKinds, FirstColor, isblack, isgray, Shapes
<1>11. Sweeping' /\ Idle'
  BY <1>1 DEF Sweeping, Idle
<1> QED BY <1>7, <1>8, <1>9, <1>10, <1>11

\* Traversing a gray object marks all it refers to before it turns black.
LEMMA PropagateMarkKeepsInv ==
  ASSUME IInv, NEW o \in Listed, PropagateMark(o) PROVE IInv'
<1> DEFINE S == Strong(o)
<1> USE DEF IInv, Whites
<1>1. /\ gcstate = "propagate" /\ o \in gray
      /\ gray' = (gray \ {o}) \cup (Touched(S) \cap Listed)
      /\ grayagain' = IF o \in Threads THEN grayagain \cup {o} ELSE grayagain
      /\ UNCHANGED <<gcstate, currentwhite, refs, open, tosweep, tmudata, finalized, basicmt,
                     running, full>>
  BY DEF PropagateMark
<1>2. o \in Obj /\ o \notin Userdata /\ o \notin Upvals /\ o \notin Strings /\ isgray(o)
      /\ open[o] = NoThread /\ o \notin grayagain
  BY <1>1, KindsDisjoint DEF TriColor, Shapes
<1>3. S \in SUBSET Obj
  BY <1>2, KindsDisjoint DEF Strong, Slots, OpenOn, TypeOK
<1>4. /\ \A x \in Obj : AfterMark(S)[x] = IF x \in Touched(S) THEN FirstColor(x) ELSE marked[x]
      /\ \A x \in Obj : AfterMark(S)[x] \in Whites => x \notin S /\ AfterMark(S)[x] = marked[x]
      /\ \A x \in Touched(S) : x \in Obj /\ iswhite(x)
      /\ \A x \in Touched(S) : FirstColor(x) = "black" =>
           \A v \in refs[x] : AfterMark(S)[v] \notin Whites
  BY <1>3, MarkColors
<1>5. \A x \in Obj : marked'[x] = IF x = o THEN FinalColor(o) ELSE AfterMark(S)[x]
  BY AfterMarkType DEF PropagateMark, TypeOK, Colors
<1>6. FinalColor(o) = IF o \in Threads \cup Weak THEN "gray" ELSE "black"
  BY <1>2 DEF FinalColor
<1>7. o \notin Threads \cup Weak => S = refs[o]
  BY DEF Strong
<1> HIDE DEF S
<1>8. \A x : FirstColor(x) \in {"gray", "black"}
  BY DEF FirstColor
<1>9. /\ \A x \in Obj : \/ marked'[x] = marked[x]
                        \/ marked[x] # "free" /\ marked'[x] \in {"gray", "black"}
      /\ o \notin Touched(S)
  BY <1>2, <1>4, <1>5, <1>6, <1>8 DEF iswhite, isgray
<1>10. TypeOK'
  BY CollectorTypeOK DEF SingleStep
<1>11. Shapes' /\ NoDangling' /\ \A x \in Obj : ~isdead(x)'
  BY <1>1, <1>9, MarkKeepsAlive DEF TriColor
<1>12. TriColor'
  <2>1. ASSUME NEW x \in Obj \ tmudata, isblack(x)', NEW v \in refs[x] PROVE ~iswhite(v)'
    <3>0. v \in Obj
      BY DEF TypeOK
    <3>1. ASSUME AfterMark(S)[v] \notin Whites PROVE ~iswhite(v)'
      BY <3>0, <3>1, <1>5, <1>6 DEF iswhite
    <3>2. CASE x = o
      BY <3>2, <2>1, <3>0, <3>1, <1>4, <1>5, <1>6, <1>7 DEF isblack
    <3>3. CASE x \in Touched(S)
      BY <3>3, <3>1, <2>1, <1>4, <1>5, <1>9 DEF isblack
    <3>4. CASE x # o /\ x \notin Touched(S)
      BY <3>4, <3>1, <3>0, <2>1, <1>1, <1>4, <1>5 DEF isblack, TriColor, iswhite
    <3> QED BY <3>2, <3>3, <3>4
  <2>2. \A x \in Listed \ Weak : isgray(x)' => x \in gray' \cup grayagain'
    BY <1>1, <1>4, <1>5, <1>6, KindsDisjoint DEF TriColor, isgray
  <2>3. \A x \in Upvals : isgray(x)' => open'[x] # NoThread
    BY <1>1, <1>2, <1>4, <1>5, KindsDisjoint DEF TriColor, isgray, FirstColor
  <2>4. \A x \in gray' \cup grayagain' : isgray(x)'
    BY <1>1, <1>2, <1>4, <1>5, <1>6, KindsDisjoint
       DEF TriColor, TypeOK, isgray, iswhite, FirstColor
  <2>5. gray' \cap grayagain' = {}
    BY <1>1, <1>2, <1>4, <1>9 DEF TriColor, isgray, iswhite
  <2>6. ~iswhite(MainThread)' /\ ~iswhite(Registry)'
    BY <1>1, <1>9, KindsDisjoint DEF TriColor, iswhite
  <2>7. full' # "marking" => tmudata' = {}
    BY <1>1 DEF TriColor
  <2> QED BY <2>1, <2>2, <2>3, <2>4, <2>5, <2>6, <2>7, <1>1, <1>11 DEF TriColor
<1>13. BlackKinds'
  BY <1>1, <1>2, <1>4, <1>5, <1>6, KindsDisjoint
     DEF BlackKinds, FirstColor, isblack, isgray, Shapes
<1>14. Sweeping' /\ Idle'
  BY <1>1 DEF Sweeping, Idle
<1> QED BY <1>10, <1>11, <1>12, <1>13, <1>14

\* Sweeping strings frees only dead ones; no survivor refers to them.
LEMMA SweepStringKeepsInv ==
  ASSUME IInv, NEW bucket \in SUBSET Strings, SweepString(bucket) PROVE IInv'
<1> USE DEF IInv, Whites
<1>1. /\ gcstate = "sweepstring" /\ gcstate' \in {"sweepstring", "sweep"}
      /\ bucket \subseteq tosweep /\ tosweep' = tosweep \ bucket
      /\ gcstate' = "sweep" => tosweep' \cap Strings = {}
      /\ \A x \in Obj : marked'[x] = IF x \in bucket THEN IF isdead(x) THEN "free" ELSE currentwhite
                                     ELSE marked[x]
      /\ UNCHANGED <<currentwhite, refs, open, gray, grayagain, tmudata, finalized, basicmt,
                     running, full>>
  BY DEF SweepString
<1>2. \A x \in bucket : x \in Obj /\ x \in Strings /\ marked[x] # "free" /\ open[x] = NoThread
                        /\ refs[x] = {}
  BY <1>1, KindsDisjoint DEF Sweeping, Shapes
<1>3. TypeOK'
  BY CollectorTypeOK DEF SingleStep
<1>4. \A x \in Obj : Alive(x)' <=> Alive(x)
  BY <1>1, <1>2 DEF Alive, isdead, otherwhite, TypeOK
<1>5. Shapes'
  BY <1>1, <1>2 DEF Shapes
<1>6. NoDangling'
  <2>1. \A x \in Obj : open[x] # NoThread => open[x] \in Obj /\ open[x] \notin bucket
    BY KindsDisjoint DEF TypeOK
  <2> QED BY <2>1, <1>1, <1>4, KindsDisjoint DEF NoDangling, TypeOK
<1>7. TriColor' /\ Idle'
  BY <1>1 DEF TriColor, Idle
<1>8. BlackKinds'
  BY <1>1, <1>2, KindsDisjoint DEF BlackKinds, isblack, isgray, TypeOK
<1>9. Sweeping'
  <2>1. \A x \in Obj : open[x] \in tosweep => open[x] \in tosweep'
    BY <1>1, KindsDisjoint DEF TypeOK
  <2>2. ASSUME NEW x \in Obj, x \notin tmudata, marked'[x] # "free", marked'[x] # currentwhite
        PROVE  x \in tosweep' \/ open[x] \in tosweep'
    <3>1. x \notin bucket /\ marked'[x] = marked[x]
      BY <2>2, <1>1
    <3> QED BY <3>1, <2>1, <2>2, <1>1 DEF Sweeping, Allocated
  <2>3. \A x \in tosweep' : x \in Obj /\ marked'[x] # "free" /\ open'[x] = NoThread
    BY <1>1 DEF Sweeping, TypeOK
  <2> QED BY <2>2, <2>3, <1>1 DEF Sweeping, Allocated
<1> QED BY <1>3, <1>5, <1>6, <1>7, <1>8, <1>9

\* Sweeping an object frees it, or the dead open upvalues of a thread, whose slots
\* the stack gets back; the last step leaves everything with the current white.
LEMMA SweepKeepsInv ==
  ASSUME IInv, NEW o \in Obj, Sweep(o) PROVE IInv'
<1> DEFINE D == {u \in OpenOn(o) : isdead(u)}
           F == D \cup (IF isdead(o) THEN {o} ELSE {})
<1> USE DEF IInv, Whites
<1>1. /\ gcstate = "sweep" /\ o \in tosweep /\ tosweep' = tosweep \ {o}
      /\ gcstate' = IF tosweep = {o} THEN "finalize" ELSE "sweep"
      /\ \A x \in Obj : marked'[x] = IF x \in F THEN "free"
                                     ELSE IF x \in OpenOn(o) \cup {o} THEN currentwhite
                                     ELSE marked[x]
      /\ \A x \in Obj : refs'[x] = IF x \in F THEN {}
                                   ELSE IF x = o THEN refs[o] \cup UNION {refs[u] : u \in D}
                                   ELSE refs[x]
      /\ \A x \in Obj : open'[x] = IF x \in F \/ (isdead(o) /\ open[x] = o) THEN NoThread
                                   ELSE open[x]
      /\ UNCHANGED <<currentwhite, gray, grayagain, tmudata, finalized, basicmt, running, full>>
  BY DEF Sweep
<1>2. o # NoThread /\ marked[o] # "free" /\ open[o] = NoThread /\ currentwhite \in Whites
  BY <1>1, KindsDisjoint DEF Sweeping, TypeOK
<1>3. \A u : u \in OpenOn(o) <=> u \in Obj /\ open[u] = o
  BY <1>2, KindsDisjoint DEF OpenOn, Shapes
<1>4. \A u \in OpenOn(o) : u \in Upvals /\ u # o /\ marked[u] # "free" /\ o \in Threads
                           /\ refs[u] \subseteq Values
  BY <1>2, <1>3, KindsDisjoint DEF OpenOn, Shapes, TypeOK
<1>5. \A x : x \in F <=> x \in Obj /\ (x = o \/ open[x] = o) /\ isdead(x)
  BY <1>2, <1>3
<1>6. \A v \in UNION {refs[u] : u \in D} : v \in Values /\ o \in Threads /\ (Alive(o) => Alive(v))
  BY <1>3, <1>4, <1>2 DEF NoDangling
<1> HIDE DEF D, F
<1>7. TypeOK'
  BY CollectorTypeOK DEF SingleStep
<1>8. \A x \in Obj : Alive(x)' <=> Alive(x)
  BY <1>1, <1>2, <1>3, <1>4, <1>5 DEF Alive, isdead, otherwhite
<1>9. Shapes'
  <2>1. \A x \in Obj : refs'[x] \subseteq refs[x] \/ (x = o /\ o \in Threads /\ refs'[x] \subseteq refs[x] \cup Values)
    BY <1>1, <1>6
  <2>2. \A x \in Obj : marked'[x] = "free" => x \in F \/ (marked[x] = "free" /\ x # o)
    BY <1>1, <1>2
  <2>3. \A x \in Obj : marked'[x] = "free" => refs'[x] = {} /\ open'[x] = NoThread
    BY <2>2, <1>1, <1>2 DEF Shapes
  <2>4. \A x \in Obj : open'[x] # NoThread => x \in Upvals
    BY <1>1 DEF Shapes
  <2> QED BY <2>1, <2>3, <2>4, KindsDisjoint DEF Shapes
<1>10. NoDangling'
  <2>1. ASSUME NEW x \in Obj, Alive(x)', NEW v \in refs'[x] PROVE Alive(v)'
    <3>1. v \in Obj /\ Alive(x)
      BY <2>1, <1>7, <1>8 DEF TypeOK
    <3>2. v \in refs[x] => Alive(v)
      BY <3>1 DEF NoDangling
    <3>3. v \notin refs[x] => x = o /\ v \in UNION {refs[u] : u \in D}
      BY <2>1, <1>1
    <3> QED BY <3>1, <3>2, <3>3, <1>6, <1>8
  <2>2. ASSUME NEW x \in Obj, NEW t, open'[x] = t, t # NoThread
        PROVE  marked'[t] # "free" /\ (Alive(t)' => \A v \in refs'[x] : Alive(v)')
    <3>1. open[x] = t /\ x \notin F /\ (t = o => ~isdead(o)) /\ t \in Threads /\ t \in Obj
      BY <2>2, <1>1, KindsDisjoint DEF TypeOK
    <3>2. t \notin F /\ x # o
      BY <2>2, <3>1, <1>2, <1>5, KindsDisjoint DEF Shapes
    <3>3. refs'[x] = refs[x] /\ refs[x] \subseteq Obj
      BY <3>1, <3>2, <1>1 DEF TypeOK
    <3>4. marked[t] # "free" /\ (Alive(t) => \A v \in refs[x] : Alive(v))
      BY <2>2, <3>1 DEF NoDangling
    <3> QED BY <3>1, <3>2, <3>3, <3>4, <1>1, <1>2, <1>8
  <2> QED BY <2>1, <2>2, <1>1, <1>8, KindsDisjoint DEF NoDangling, TypeOK
<1>11. TriColor'
  BY <1>1 DEF TriColor
<1>12. BlackKinds'
  BY <1>1, <1>2, KindsDisjoint DEF BlackKinds, isblack, isgray
<1>13. ASSUME NEW x \in Obj, x \notin tmudata, marked'[x] # "free", marked'[x] # currentwhite
       PROVE  x \in tosweep' \/ open'[x] \in tosweep'
  <2>1. x # o /\ open[x] # o /\ marked'[x] = marked[x] /\ x \notin F
    BY <1>13, <1>1, <1>3
  <2> QED BY <1>13, <2>1, <1>1 DEF Sweeping, Allocated
<1>14. Sweeping'
  <2>1. \A x \in tosweep' : x \in Obj /\ marked'[x] # "free" /\ open'[x] = NoThread
    BY <1>1, <1>2, <1>3, <1>5 DEF Sweeping, TypeOK
  <2> QED BY <2>1, <1>1, <1>13 DEF Sweeping, Allocated
<1>15. Idle'
  <2>1. gcstate' # "sweep" => \A x : x \notin tosweep'
    BY <1>1
  <2> QED BY <2>1, <1>1, <1>13 DEF Idle, Allocated
<1> QED BY <1>7, <1>9, <1>10, <1>11, <1>12, <1>14, <1>15

\* A pending userdata gets the current white and a place on the running stack.
LEMMA GCTMKeepsInv ==
  ASSUME IInv, NEW u \in Userdata, GCTM(u) PROVE IInv'
<1> USE DEF IInv, Whites
<1>1. /\ gcstate = "finalize" /\ gcstate' = "finalize" /\ u \in tmudata
      /\ tmudata' = tmudata \ {u} /\ full' = "no"
      /\ UNCHANGED <<currentwhite, open, gray, grayagain, tosweep, finalized, basicmt, running>>
  BY DEF GCTM
<1>2. /\ u \in Obj /\ u \in Values /\ Alive(u) /\ running \in Obj /\ running \in Threads
      /\ running # u /\ ~isblack(running) /\ running \notin Functions
      /\ running \notin Strings /\ running \notin Userdata /\ running \notin Upvals
      /\ marked[running] # "free" /\ currentwhite # "free"
  BY <1>1, KindsDisjoint DEF NoDangling, TypeOK, BlackKinds, Alive
<1>3. /\ \A x \in Obj : refs'[x] = IF x = running THEN refs[x] \cup {u} ELSE refs[x]
      /\ \A x \in Obj : marked'[x] = IF x = u THEN currentwhite ELSE marked[x]
  BY <1>2 DEF GCTM, TypeOK
<1>4. TypeOK'
  BY CollectorTypeOK DEF SingleStep
<1>5. Shapes'
  <2>1. ASSUME NEW x \in Obj
        PROVE  /\ x \notin Functions => refs'[x] \subseteq Values
               /\ x \in Strings => refs'[x] = {}
               /\ x \in Userdata => refs'[x] \subseteq Tables
               /\ marked'[x] = "free" => refs'[x] = {} /\ open[x] = NoThread
               /\ open[x] # NoThread => x \in Upvals
    <3>1. CASE x = running
      <4>1. refs'[running] = refs[running] \cup {u} /\ marked'[running] # "free"
        BY <1>2, <1>3
      <4>2. refs[running] \subseteq Values /\ open[running] = NoThread
        BY <1>2 DEF Shapes
      <4> QED BY <3>1, <4>1, <4>2, <1>2
    <3>2. CASE x # running
      BY <3>2, <1>2, <1>3 DEF Shapes
    <3> QED BY <3>1, <3>2
  <2> QED BY <2>1, <1>1 DEF Shapes
<1>6. \A x \in Obj : Alive(x)' <=> Alive(x)
  BY <1>1, <1>2, <1>3 DEF Alive, isdead, otherwhite, TypeOK
<1>7. NoDangling'
  <2>1. \A x \in Obj : Alive(x)' => \A v \in refs'[x] : Alive(v)'
    <3>1. \A x \in Obj : Alive(x) => \A v \in refs[x] : v \in Obj /\ Alive(v)
      BY DEF NoDangling, TypeOK
    <3> QED BY <3>1, <1>2, <1>3, <1>6
  <2>2. \A x \in Obj : open[x] # NoThread => open[x] \in Obj /\ x # running /\ open[x] # u
    BY <1>2, KindsDisjoint DEF TypeOK, Shapes
  <2>3. \A x \in Obj : open[x] # NoThread =>
          /\ marked'[open[x]] # "free"
          /\ Alive(open[x])' => \A v \in refs'[x] : Alive(v)'
    <3>1. \A x \in Obj : open[x] # NoThread =>
            /\ marked[open[x]] # "free"
            /\ Alive(open[x]) => \A v \in refs[x] : v \in Obj /\ Alive(v)
      BY DEF NoDangling, TypeOK
    <3> QED BY <3>1, <2>2, <1>1, <1>2, <1>3, <1>6
  <2> QED BY <2>1, <2>3, <1>1, <1>6, KindsDisjoint DEF NoDangling, TypeOK
<1>8. TriColor' /\ Sweeping'
  BY <1>1 DEF TriColor, Sweeping
<1>9. BlackKinds'
  BY <1>1, <1>2, <1>3, KindsDisjoint DEF BlackKinds, isblack, isgray, TypeOK
<1>10. Idle'
  BY <1>1, <1>3 DEF Idle, Allocated
<1> QED BY <1>4, <1>5, <1>7, <1>8, <1>9, <1>10

\* The end of a cycle, and the start of a full collection, whose sweep begins when
\* no userdata is pending or is a sweep that was under way.
LEMMA FinalizeEndFullGCKeepInv ==
  ASSUME IInv, FinalizeEnd \/ FullGC PROVE IInv'
<1> USE DEF IInv
<1>1. TypeOK'
  BY CollectorTypeOK DEF SingleStep
<1>2. UNCHANGED <<currentwhite, marked, refs, open, tmudata, finalized, basicmt, running>>
  BY DEF FinalizeEnd, FullGC
<1>3. Shapes' /\ NoDangling' /\ BlackKinds'
  BY <1>2 DEF Shapes, NoDangling, BlackKinds, Alive, isdead, otherwhite, isblack, isgray
<1>4. TriColor'
  BY DEF FinalizeEnd, FullGC, TriColor, TypeOK
<1>5. Idle'
  BY <1>2 DEF FinalizeEnd, FullGC, Idle, Allocated
<1>6. Sweeping'
  <2>1. CASE FinalizeEnd \/ (FullGC /\ gcstate \notin {"pause", "propagate"})
    <3>1. CASE FinalizeEnd
      BY <3>1 DEF FinalizeEnd, Sweeping
    <3>2. CASE FullGC /\ gcstate \notin {"pause", "propagate"}
      BY <3>2 DEF FullGC, Sweeping, Allocated, TypeOK
    <3> QED BY <2>1, <3>1, <3>2
  <2>2. CASE FullGC /\ gcstate \in {"pause", "propagate"}
    <3>1. /\ tosweep' = {o \in Allocated : open[o] = NoThread} /\ tmudata = {}
          /\ gcstate' = "sweepstring" /\ full' = "sweeping"
      BY <2>2 DEF FullGC, Idle, TriColor
    <3>2. ASSUME NEW x \in Obj, marked[x] # "free" PROVE x \in tosweep' \/ open[x] \in tosweep'
      <4>1. CASE open[x] = NoThread
        BY <4>1, <3>1, <3>2 DEF Allocated
      <4>2. CASE open[x] # NoThread
        <5>1. open[x] \in Threads /\ open[x] \in Obj /\ marked[open[x]] # "free"
          BY <4>2, KindsDisjoint DEF TypeOK, NoDangling
        <5>2. open[open[x]] = NoThread
          BY <5>1, KindsDisjoint DEF Shapes
        <5> QED BY <5>1, <5>2, <3>1 DEF Allocated
      <4> QED BY <4>1, <4>2
    <3> QED BY <3>1, <3>2, <1>2 DEF Sweeping, Allocated
  <2> QED BY <2>1, <2>2
<1> QED BY <1>1, <1>3, <1>4, <1>5, <1>6

-----------------------------------------------------------------------------
(* The atomic step: what it has marked is closed under references.          *)

\* Every object is of one of the kinds.
LEMMA KindsCover ==
  Obj = Tables \cup Threads \cup Functions \cup Userdata \cup Upvals \cup Strings
BY GCAssumption
   DEF Kinds, Weak, Tables, Threads, Functions, Userdata, Upvals, Strings

\* What the first part of `atomic' marks: all that is white and referred to by the
\* roots, by gray open upvalues, by grayagain, or by what it has marked.
LEMMA RemarkedCloses ==
  /\ \A x \in Remarked : x \in Obj /\ iswhite(x)
  /\ \A v \in {running} \cup basicmt : v \in Obj /\ iswhite(v) => v \in Remarked
  /\ \A x \in Upvals : open[x] # NoThread /\ isgray(x) =>
       \A v \in refs[x] : v \in Obj /\ iswhite(v) => v \in Remarked
  /\ \A x \in grayagain \cup Remarked : \A v \in Strong(x) :
       v \in Obj /\ iswhite(v) => v \in Remarked
<1> DEFINE fromUpvals == UNION {refs[u] : u \in {x \in Upvals : open[x] # NoThread /\ isgray(x)}}
           fromAgain  == UNION {Strong(x) : x \in grayagain}
           S == fromUpvals \cup {running} \cup basicmt \cup fromAgain
<1>1. Remarked = Reach(WhiteOf(Obj), S)
  BY DEF Remarked
<1>2. \A v : v \in WhiteOf(Obj) <=> v \in Obj /\ iswhite(v)
  BY DEF WhiteOf
<1>3. \A v \in S : v \in WhiteOf(Obj) => v \in Remarked
  BY <1>1, ReachClosed
<1>4. \A x \in Remarked : x \in WhiteOf(Obj)
                          /\ \A v \in Strong(x) : v \in WhiteOf(Obj) => v \in Remarked
  <2> HIDE DEF S
  <2> QED BY <1>1, ReachClosed
<1> HIDE DEF S
<1>5. /\ running \in S /\ basicmt \subseteq S
      /\ \A x \in Upvals : open[x] # NoThread /\ isgray(x) => refs[x] \subseteq S
      /\ \A x \in grayagain : Strong(x) \subseteq S
  BY DEF S
<1> QED BY <1>2, <1>3, <1>4, <1>5

\* What its second part marks: the pending userdata and all that was still white
\* and is referred to by what it has marked.
LEMMA PreservedCloses ==
  /\ Pending \subseteq Preserved
  /\ \A x \in Preserved : x \in Pending \/ (x \in Obj /\ iswhite(x))
  /\ \A x \in Preserved : \A v \in Strong(x) :
       v \in Obj /\ iswhite(v) => v \in Remarked \cup Preserved
<1> DEFINE W == (WhiteOf(Obj) \ Remarked) \cup Pending
<1>1. Preserved = Reach(W, Pending)
  BY DEF Preserved
<1>2. \A v : v \in WhiteOf(Obj) <=> v \in Obj /\ iswhite(v)
  BY DEF WhiteOf
<1>3. Pending \cap W = Pending
  OBVIOUS
<1>4. \A v \in Obj : iswhite(v) => v \in Remarked \cup W
  BY <1>2
<1>5. \A v \in W : v \in Pending \/ (v \in Obj /\ iswhite(v))
  BY <1>2
<1> HIDE DEF W
<1> QED BY <1>1, <1>3, <1>4, <1>5, ReachClosed

\* `atomic': objects left white are dead after the flip, and nothing that is not
\* refers to them.
LEMMA AtomicKeepsInv ==
  ASSUME IInv, Atomic PROVE IInv'
<1> DEFINE reached == Remarked \cup Preserved
           white   == WhiteOf(Obj) \ reached
           weak    == {t \in Weak : t \in reached \/ isgray(t)}
           kept    == white \cap Strings \cap UNION {refs[t] : t \in weak}
<1> USE DEF IInv, Whites
<1>1. /\ gcstate = "propagate" /\ gray = {} /\ gcstate' = "sweepstring"
      /\ \A x \in Obj : marked'[x] = IF x \in reached \cup kept \cup grayagain THEN FinalColor(x)
                                     ELSE marked[x]
      /\ \A x \in Obj : refs'[x] = IF x \in weak
                                   THEN refs[x] \ Cleared(x, white, finalized \cup Separated)
                                   ELSE refs[x]
      /\ tmudata' = Pending /\ finalized' = finalized \cup Separated
      /\ currentwhite' = otherwhite
      /\ tosweep' = {x \in Allocated : open[x] = NoThread /\ x \notin Pending}
      /\ UNCHANGED <<open, basicmt, running, full>>
  BY DEF Atomic
<1>2. \A x : x \in white <=> x \in Obj /\ iswhite(x) /\ x \notin reached
  BY DEF WhiteOf
<1>3. \A x : x \in weak <=> x \in Weak /\ (x \in reached \/ isgray(x))
  OBVIOUS
<1>4. \A x : x \in kept <=> x \in white /\ x \in Strings /\ \E t \in weak : x \in refs[t]
  OBVIOUS
<1>5. \A x : x \in reached <=> x \in Remarked \/ x \in Preserved
  OBVIOUS
<1>6. \A x \in weak : \A v \in refs'[x] : v \in refs[x] /\ (v \in white => v \in Strings)
  BY <1>1, KindsDisjoint DEF Cleared
<1> HIDE DEF reached, white, weak, kept
<1>7. TypeOK'
  BY CollectorTypeOK DEF SingleStep
<1>8. \A x \in Obj : refs'[x] \subseteq refs[x] /\ refs[x] \subseteq Obj
  BY <1>1, <1>6 DEF TypeOK
<1>9. \A x : FinalColor(x) \in {"gray", "black"}
  BY DEF FinalColor
<1>10. Pending \subseteq tmudata \cup Separated /\ tmudata \subseteq Pending
       /\ \A x \in Pending : x \in Userdata /\ marked[x] # "free"
  BY KindsDisjoint
     DEF Pending, Separated, TypeOK, NoDangling, Alive, iswhite
<1>11. \A x \in Obj : marked'[x] = "free" <=> marked[x] = "free"
  <2>1. \A x \in reached \cup kept \cup grayagain : marked[x] # "free"
    BY <1>1, <1>2, <1>4, <1>5, <1>10, RemarkedCloses, PreservedCloses
       DEF TriColor, iswhite, isgray
  <2> QED BY <2>1, <1>1, <1>9
<1>12. \A x \in Obj : Alive(x)' <=> marked[x] # "free" /\ (iswhite(x) => x \in reached \cup kept)
  <2>1. \A x \in Obj : marked[x] # otherwhite
    BY <1>1 DEF TriColor, isdead
  <2>2. \A x \in grayagain : ~iswhite(x)
    BY <1>1 DEF TriColor, isgray, iswhite
  <2>3. (otherwhite)' = currentwhite /\ currentwhite \in Whites /\ otherwhite \in Whites
    BY <1>1 DEF otherwhite, TypeOK
  <2>4. \A x \in Obj : iswhite(x) <=> marked[x] = currentwhite
    BY <2>1, <2>3, OtherWhite DEF iswhite
  <2>5. \A x \in Obj : isdead(x)' <=> marked'[x] = currentwhite
    BY <2>3 DEF isdead
  <2>6. \A x \in Obj : isdead(x)' <=> iswhite(x) /\ x \notin reached \cup kept
    BY <2>2, <2>3, <2>4, <2>5, <1>1, <1>9
  <2> QED BY <2>6, <1>11 DEF Alive
<1>13. \A x \in Obj : marked[x] # "free" => Alive(x)
  BY <1>1 DEF TriColor, Alive
<1>14. \A x \in Obj : x \notin Weak => refs[x] \subseteq Strong(x)
  BY DEF Strong, Slots
<1>15. \A x \in Listed \ Weak : isgray(x) => x \in grayagain
  BY <1>1 DEF TriColor
<1>16. Shapes'
  BY <1>1, <1>8, <1>11 DEF Shapes
<1>17. ASSUME NEW x \in Obj, Alive(x)', NEW v \in refs'[x] PROVE Alive(v)'
  <2>1. v \in Obj /\ v \in refs[x] /\ marked[x] # "free" /\ Alive(x)
    BY <1>17, <1>8, <1>12, <1>13
  <2>2. marked[v] # "free"
    BY <2>1 DEF NoDangling, Alive
  <2>3. SUFFICES ASSUME iswhite(v) PROVE v \in reached \cup kept
    BY <2>1, <2>2, <1>12
  <2>4. CASE x \in weak
    BY <2>1, <2>3, <2>4, <1>17, <1>2, <1>4, <1>6
  <2>5. CASE x \in reached /\ x \notin Weak
    BY <2>1, <2>3, <2>5, <1>5, <1>14, RemarkedCloses, PreservedCloses
  <2>6. CASE x \in kept
    BY <2>1, <2>6, <1>4 DEF Shapes
  <2>7. CASE x \notin reached /\ x \notin kept /\ x \notin weak
    <3>1. ~iswhite(x) /\ x \notin Pending
      BY <2>7, <1>17, <1>5, <1>12, PreservedCloses
    <3>2. CASE isblack(x)
      BY <3>1, <3>2, <2>1, <2>3, <1>1, <1>10 DEF TriColor
    <3>3. CASE isgray(x)
      <4>1. CASE x \in Strings
        BY <4>1, <2>1 DEF Shapes
      <4>2. CASE x \in Userdata
        BY <4>2, <3>3 DEF BlackKinds
      <4>3. CASE x \in Upvals
        BY <4>3, <3>3, <2>1, <2>3, <1>1, <1>5, RemarkedCloses DEF TriColor
      <4>4. CASE x \in Weak
        BY <4>4, <3>3, <2>7, <1>3
      <4>5. CASE x \in Listed \ Weak
        BY <4>5, <3>3, <2>1, <2>3, <1>5, <1>14, <1>15, RemarkedCloses
      <4> QED BY <4>1, <4>2, <4>3, <4>4, <4>5, KindsCover, KindsDisjoint
    <3> QED BY <3>1, <3>2, <3>3, <2>1 DEF TypeOK, iswhite, isblack, isgray
  <2> QED BY <2>4, <2>5, <2>6, <2>7, <1>3
<1>18. ASSUME NEW u \in Obj, NEW t, open[u] = t, t # NoThread
       PROVE  marked'[t] # "free" /\ (Alive(t)' => \A v \in refs'[u] : Alive(v)')
  <2>1. t \in Threads /\ t \in Obj /\ u \in Upvals /\ u \in OpenOn(t) /\ marked[t] # "free"
    BY <1>18, KindsDisjoint DEF TypeOK, Shapes, NoDangling, OpenOn
  <2>2. ASSUME Alive(t)', NEW v \in refs'[u] PROVE Alive(v)'
    <3>1. v \in Obj /\ v \in refs[u] /\ Alive(t)
      BY <2>1, <2>2, <1>8, <1>13
    <3>2. marked[v] # "free"
      BY <3>1, <1>18 DEF NoDangling, Alive
    <3>3. t \notin Weak /\ t \notin Strings /\ t \in Listed \ Weak
      BY <2>1, KindsDisjoint
    <3>4. v \in Strong(t)
      BY <3>1, <3>3, <2>1 DEF Strong, Slots
    <3>5. t \in reached \/ t \in grayagain
      <4>1. iswhite(t) => t \in reached
        BY <2>1, <2>2, <3>3, <1>4, <1>12
      <4>2. ~iswhite(t) => isgray(t)
        BY <2>1, <1>1 DEF TypeOK, BlackKinds, iswhite, isgray, isblack
      <4> QED BY <4>1, <4>2, <3>3, <1>15
    <3>6. iswhite(v) => v \in reached
      BY <3>1, <3>4, <3>5, <1>5, RemarkedCloses, PreservedCloses
    <3> QED BY <3>1, <3>2, <3>6, <1>12
  <2> QED BY <2>1, <2>2, <1>11
<1>19. \A x \in {MainThread, Registry, running} \cup basicmt \cup tmudata' : x \in Obj /\ Alive(x)'
  <2>1. \A x \in {MainThread, Registry, running} \cup basicmt : x \in Obj /\ marked[x] # "free"
    BY KindsDisjoint DEF TypeOK, NoDangling, Alive
  <2>2. ~iswhite(MainThread) /\ ~iswhite(Registry)
    BY <1>1 DEF TriColor
  <2>3. \A x \in {running} \cup basicmt : iswhite(x) => x \in reached
    BY <2>1, <1>5, RemarkedCloses
  <2>4. \A x \in Pending : x \in Obj /\ marked[x] # "free" /\ x \in reached
    BY <1>5, <1>10, KindsDisjoint, PreservedCloses
  <2> QED BY <2>1, <2>2, <2>3, <2>4, <1>1, <1>12
<1>20. NoDangling'
  BY <1>1, <1>17, <1>18, <1>19 DEF NoDangling
<1>21. TriColor' /\ Idle'
  BY <1>1, <1>10 DEF TriColor, Idle
<1>22. BlackKinds'
  BY <1>1, KindsDisjoint DEF BlackKinds, FinalColor, isblack, isgray, Shapes
<1>23. Sweeping'
  <2>1. ASSUME NEW x \in Obj, x \notin Pending, marked[x] # "free"
        PROVE  x \in tosweep' \/ open[x] \in tosweep'
    <3>1. CASE open[x] = NoThread
      BY <3>1, <2>1, <1>1 DEF Allocated
    <3>2. CASE open[x] # NoThread
      <4>1. open[x] \in Threads /\ open[x] \in Obj /\ marked[open[x]] # "free"
        BY <3>2, KindsDisjoint DEF TypeOK, NoDangling
      <4>2. open[open[x]] = NoThread /\ open[x] \notin Pending
        BY <4>1, <1>10, KindsDisjoint DEF Shapes
      <4> QED BY <4>1, <4>2, <1>1 DEF Allocated
    <3> QED BY <3>1, <3>2
  <2>2. \A x \in tosweep' : x \in Obj /\ marked[x] # "free" /\ open[x] = NoThread /\ x \notin Pending
    BY <1>1 DEF Allocated
  <2> QED BY <2>1, <2>2, <1>1, <1>11 DEF Sweeping, Allocated
<1> QED BY <1>7, <1>16, <1>20, <1>21, <1>22, <1>23

-----------------------------------------------------------------------------
(* The invariant and the safety theorems.                                   *)

\* A new state satisfies the invariant.
LEMMA InitInv == ASSUME Init PROVE IInv
<1>1. TypeOK
  BY InitTypeOK
<1>2. /\ \A o \in Obj : /\ refs[o] = {} /\ open[o] = NoThread
                        /\ marked[o] \in {"free", "white0"}
      /\ marked[MainThread] = "white0" /\ marked[Registry] = "white0"
      /\ currentwhite = "white0" /\ gcstate = "pause" /\ running = MainThread
      /\ full = "no" /\ tmudata = {} /\ basicmt = {}
  BY KindsDisjoint DEF Init
<1>3. Shapes /\ TriColor /\ Sweeping
  BY <1>2 DEF Shapes, TriColor, Sweeping
<1>4. NoDangling
  BY <1>2 DEF NoDangling, Alive, isdead, otherwhite
<1>5. BlackKinds /\ Idle
  BY <1>2, KindsDisjoint DEF BlackKinds, Idle, isblack, isgray, Allocated
<1> QED BY <1>1, <1>3, <1>4, <1>5 DEF IInv

\* Every step of the collector and of the program keeps the invariant.
LEMMA StepKeepsInv ==
  ASSUME IInv, [Next]_vars PROVE IInv'
<1>1. CASE SingleStep \/ FullGC
  BY <1>1, MarkRootKeepsInv, PropagateMarkKeepsInv, AtomicKeepsInv, SweepStringKeepsInv,
     SweepKeepsInv, GCTMKeepsInv, FinalizeEndFullGCKeepInv DEF SingleStep
<1>2. CASE Mutator
  BY <1>2, LoadKeepsInv, CreateKeepsInv, SetTableKeepsInv, SetObjectKeepsInv, EraseKeepsInv,
     SetUpvalKeepsInv, SetSlotKeepsInv, XMoveKeepsInv, CaptureSharedKeepsInv, PopKeepsInv,
     InternKeepsInv, CloseUpvalKeepsInv, ResumeYieldKeepInv, CaptureNewKeepsInv DEF Mutator
<1>3. CASE UNCHANGED vars
  BY <1>3
     DEF vars, IInv, TypeOK, Shapes, NoDangling, TriColor, BlackKinds, Sweeping, Idle, Alive,
         isdead, isblack, isgray, iswhite, otherwhite, Allocated
<1> QED BY <1>1, <1>2, <1>3 DEF Next

\* The inductive invariant of the collector holds of every execution.
THEOREM Invariance == Spec => []IInv
BY InitInv, StepKeepsInv, PTL DEF Spec

\* No reference the program can follow leads to freed memory, and none that the
\* sweep under way will free, for any set of objects: luaC_step, luaC_fullgc, the
\* barriers and luaF_close are safe together.
THEOREM NoDanglingReference == Spec => []NoDangling
<1>1. IInv => NoDangling
  BY DEF IInv
<1> QED BY <1>1, Invariance, PTL

\* No black object refers to a white one while the collector marks (the barriers).
THEOREM TriColorHolds == Spec => []TriColor
<1>1. IInv => TriColor
  BY DEF IInv
<1> QED BY <1>1, Invariance, PTL

-----------------------------------------------------------------------------
(* Action properties: what no step does to a userdata with a finalizer, and *)
(* to the entries of a weak table; then that LuaGC implements Heap.         *)

\* Marking colours white objects only, with gray or black.
LEMMA AfterMarkColors ==
  ASSUME TypeOK, NEW S
  PROVE  \A x \in Obj : AfterMark(S)[x] = marked[x] \/ AfterMark(S)[x] \in {"gray", "black"}
BY DEF AfterMark, FirstColor

\* Only `atomic' makes objects dead, and only dead objects are freed.
LEMMA ColorsChange ==
  ASSUME TypeOK, Next, ~Atomic
  PROVE  /\ currentwhite' = currentwhite
         /\ \A x \in Obj : \/ marked'[x] = marked[x]
                           \/ marked'[x] \in {currentwhite, "gray", "black"}
                           \/ marked'[x] = "free" /\ isdead(x)
         /\ \/ UNCHANGED finalized
            \/ \E o \in Obj : finalized' = finalized \ {o} /\ marked'[o] = currentwhite
         /\ UNCHANGED tmudata \/ \E u \in Userdata : GCTM(u)
<1> DEFINE Colored == /\ currentwhite' = currentwhite
                      /\ \A x \in Obj : \/ marked'[x] = marked[x]
                                        \/ marked'[x] \in {currentwhite, "gray", "black"}
                                        \/ marked'[x] = "free" /\ isdead(x)
           Kept    == UNCHANGED <<finalized, tmudata>>
<1> USE DEF collectorState, heapState
<1>1. CASE MarkRoot
  BY <1>1, AfterMarkColors DEF MarkRoot
<1>2. ASSUME NEW o \in Listed, PropagateMark(o) PROVE Colored /\ Kept
  <2>1. \A x \in Obj : marked'[x] = IF x = o THEN FinalColor(o) ELSE AfterMark(Strong(o))[x]
    BY <1>2, AfterMarkType DEF PropagateMark, TypeOK, Colors
  <2>2. FinalColor(o) \in {"gray", "black"}
    BY DEF FinalColor
  <2> QED BY <1>2, <2>1, <2>2, AfterMarkColors DEF PropagateMark
<1>3. ASSUME NEW b \in SUBSET Strings, SweepString(b) PROVE Colored /\ Kept
  BY <1>3 DEF SweepString
<1>4. ASSUME NEW o \in Obj, Sweep(o) PROVE Colored /\ Kept
  BY <1>4 DEF Sweep
<1>5. ASSUME NEW u \in Userdata, GCTM(u) PROVE Colored /\ UNCHANGED finalized
  BY <1>5 DEF GCTM, TypeOK
<1>6. ASSUME FinalizeEnd \/ FullGC PROVE Colored /\ Kept
  BY <1>6 DEF FinalizeEnd, FullGC
<1>7. ASSUME NEW o \in Obj, NEW c, New(o, c)
      PROVE  Colored /\ finalized' = finalized \ {o} /\ marked'[o] = currentwhite
             /\ UNCHANGED tmudata
  BY <1>7 DEF New, TypeOK
<1>8. ASSUME NEW p \in Obj, NEW v \in Obj, BarrierForward(p, v) \/ BarrierBack(p, v),
             UNCHANGED collectorState
      PROVE  Colored /\ Kept
  BY <1>8, AfterMarkColors DEF BarrierForward, BarrierBack, TypeOK
<1>9. ASSUME NEW u \in Obj, CloseUpval(u) PROVE Colored /\ Kept
  <2>1. gcstate = "propagate" /\ isgray(u) /\ ~isdead(u) =>
          \A x \in Obj : marked'[x] = IF x = u THEN "black" ELSE AfterMark(refs[u])[x]
    BY <1>9, AfterMarkType DEF CloseUpval, TypeOK, Colors
  <2> QED BY <1>9, <2>1, AfterMarkColors DEF CloseUpval, TypeOK
<1>10. ASSUME NEW o \in Obj, NEW v \in Obj,
              Load(o, v) \/ Erase(o, v) \/ SetSlot(o, v) \/ XMove(o, v) \/ Pop(v)
                \/ Resume(o) \/ Yield \/ \E mt \in SUBSET Tables : SetBasicMetatable(mt)
       PROVE  Colored /\ Kept
  BY <1>10 DEF Load, Erase, SetSlot, XMove, Pop, Resume, Yield, SetBasicMetatable
<1>11. ASSUME NEW f \in Obj, NEW u \in Obj, NEW slot,
              CaptureShared(f, u) \/ InternString(f) \/ CaptureNew(f, u, slot)
       PROVE  Colored /\ Kept
  BY <1>11 DEF CaptureShared, InternString, CaptureNew, TypeOK
<1>12. CASE SingleStep \/ FullGC
  <2>1. Colored /\ UNCHANGED finalized /\ (UNCHANGED tmudata \/ \E u \in Userdata : GCTM(u))
    <3>1. MarkRoot => Colored /\ Kept
      BY AfterMarkColors DEF MarkRoot
    <3> HIDE DEF Colored
    <3> QED BY <1>12, <1>2, <1>3, <1>4, <1>5, <1>6, <3>1 DEF SingleStep
  <2> QED BY <2>1
<1>13. CASE Mutator
  <2> DEFINE Fine == /\ Colored /\ UNCHANGED tmudata
                     /\ \/ UNCHANGED finalized
                        \/ \E o \in Obj : finalized' = finalized \ {o} /\ marked'[o] = currentwhite
  <2>1. ASSUME NEW o \in Obj, NEW v \in Obj, SetTable(o, v) \/ SetObject(o, v) \/ SetUpval(o, v)
        PROVE  Colored /\ Kept
    BY <2>1, <1>8 DEF SetTable, SetObject, SetUpval
  <2>2. ASSUME NEW o \in Obj, Create(o) \/ \E v \in Obj : PushCClosure(o, v) PROVE Fine
    BY <2>2, <1>7 DEF Create, PushCClosure
  <2>3. Colored /\ Kept => Fine
    OBVIOUS
  <2> HIDE DEF Colored, Kept, Fine
  <2>4. ASSUME NEW o \in Obj, NEW v \in Obj,
               Load(o, v) \/ PushCClosure(o, v) \/ SetTable(o, v) \/ SetObject(o, v)
                 \/ Erase(o, v) \/ SetUpval(o, v) \/ SetSlot(o, v) \/ XMove(o, v)
                 \/ CaptureShared(o, v)
        PROVE  Fine
    BY <2>4, <2>1, <2>2, <2>3, <1>10, <1>11
  <2>5. ASSUME NEW o \in Obj,
               Pop(o) \/ Create(o) \/ InternString(o) \/ CloseUpval(o) \/ Resume(o)
        PROVE  Fine
    BY <2>5, <2>2, <2>3, <1>9, <1>10, <1>11
  <2>6. ASSUME NEW f \in Obj, NEW u \in Obj, NEW slot, CaptureNew(f, u, slot) PROVE Fine
    BY <2>6, <2>3, <1>11
  <2>7. ASSUME Yield \/ \E mt \in SUBSET Tables : SetBasicMetatable(mt) PROVE Fine
    BY <2>7, <2>3, <1>10, GCAssumption
  <2>8. Fine
    BY <1>13, <2>4, <2>5, <2>6, <2>7 DEF Mutator
  <2> QED BY <2>8 DEF Fine, Colored
<1> QED BY <1>12, <1>13 DEF Next

\* A dead userdata with a __gc method has had its turn.
DeadFinalized == \A u \in Finalizable : isdead(u) => u \in finalized

\* `atomic' queues every unreached userdata with a __gc method it had not queued
\* before, and keeps it alive.
LEMMA DeadFinalizedStep ==
  ASSUME IInv, DeadFinalized, [Next]_vars PROVE DeadFinalized'
<1> USE DEF IInv
<1>1. Finalizable \subseteq Userdata /\ Finalizable \subseteq Obj
  BY KindsDisjoint
<1>2. CASE Atomic
  <2> DEFINE reached == Remarked \cup Preserved
             F == reached \cup ((WhiteOf(Obj) \ reached) \cap Strings
                    \cap UNION {refs[t] : t \in {t \in Weak : t \in reached \/ isgray(t)}})
                  \cup grayagain
  <2>1. /\ \A x \in Obj : marked'[x] = IF x \in F THEN FinalColor(x) ELSE marked[x]
        /\ finalized' = finalized \cup Separated /\ currentwhite' = otherwhite
    BY <1>2 DEF Atomic
  <2>2. Remarked \subseteq F /\ Preserved \subseteq F
    OBVIOUS
  <2> HIDE DEF F
  <2>3. (otherwhite)' = currentwhite /\ currentwhite \in Whites
    BY <2>1 DEF otherwhite, TypeOK, Whites
  <2>4. ASSUME NEW u \in Finalizable, isdead(u)' PROVE u \in finalized'
    <3>1. u \notin F /\ marked[u] = currentwhite
      BY <2>1, <2>3, <2>4, <1>1 DEF isdead, FinalColor, Whites
    <3>2. iswhite(u) /\ u \notin Remarked /\ u \notin Pending
      BY <3>1, <2>2, <2>3, PreservedCloses DEF iswhite
    <3> QED BY <3>2, <2>1, <1>1 DEF Pending, Separated
  <2> QED BY <2>4 DEF DeadFinalized
<1>3. CASE Next /\ ~Atomic
  <2>1. \A u \in Finalizable : isdead(u)' => isdead(u) /\ marked'[u] # currentwhite
    BY <1>1, <1>3, ColorsChange, OtherWhite
       DEF isdead, otherwhite, TypeOK, Whites
  <2> QED BY <1>3, <2>1, ColorsChange DEF DeadFinalized
<1>4. CASE UNCHANGED vars
  BY <1>4 DEF vars, DeadFinalized, isdead, otherwhite
<1> QED BY <1>2, <1>3, <1>4

\* A userdata with a __gc method is freed only after GCTM has handed it to the
\* method, whatever else is collected meanwhile (luaC_separateudata, GCTM).
THEOREM FinalizerBeforeFree == Spec => FinalizedBeforeFree
<1> DEFINE Ordered ==
      \A u \in Finalizable :
         /\ marked[u] # "free" /\ marked'[u] = "free" => u \in finalized \ tmudata
         /\ u \in finalized' \ finalized => u \in tmudata'
         /\ u \in tmudata \ tmudata' => u \in refs'[running]
<1>1. Init => IInv /\ DeadFinalized
  <2>1. ASSUME Init PROVE DeadFinalized
    BY <2>1, KindsDisjoint DEF Init, DeadFinalized, isdead, otherwhite
  <2> QED BY <2>1, InitInv
<1>2. IInv /\ DeadFinalized /\ [Next]_vars => (IInv /\ DeadFinalized)'
  BY StepKeepsInv, DeadFinalizedStep
<1>3. IInv /\ DeadFinalized /\ [Next]_vars => [Ordered]_vars
  <2> SUFFICES ASSUME IInv, DeadFinalized, Next PROVE Ordered
    OBVIOUS
  <2>0. Finalizable \subseteq Obj
    BY KindsDisjoint
  <2>1. CASE Atomic
    <3>1. \A x \in Obj : marked'[x] = "free" => marked[x] = "free"
      BY <2>1 DEF Atomic, FinalColor
    <3>2. tmudata' = Pending /\ finalized' = finalized \cup Separated
      BY <2>1 DEF Atomic
    <3> QED BY <3>1, <3>2, <2>0 DEF Pending
  <2>2. CASE ~Atomic
    <3>1. ASSUME NEW u \in Finalizable, marked[u] # "free", marked'[u] = "free"
          PROVE  u \in finalized \ tmudata
      <4>1. isdead(u)
        BY <2>2, <3>1, <2>0, ColorsChange DEF IInv, TypeOK, Whites
      <4>2. u \notin tmudata
        BY <4>1 DEF IInv, NoDangling, Alive
      <4> QED BY <4>1, <4>2 DEF DeadFinalized
    <3>2. finalized' \subseteq finalized
      BY <2>2, ColorsChange DEF IInv
    <3>3. ASSUME NEW u \in Finalizable, u \in tmudata \ tmudata' PROVE u \in refs'[running]
      <4>1. PICK w \in Userdata : GCTM(w)
        BY <2>2, <3>3, ColorsChange DEF IInv
      <4>2. running \in Obj
        BY KindsDisjoint DEF IInv, TypeOK
      <4> QED BY <4>1, <4>2, <3>3 DEF GCTM, IInv, TypeOK
    <3> QED BY <3>1, <3>2, <3>3
  <2> QED BY <2>1, <2>2
<1>4. Spec => [][Ordered]_vars
  BY <1>1, <1>2, <1>3, PTL DEF Spec
<1> QED BY <1>4 DEF FinalizedBeforeFree

-----------------------------------------------------------------------------
(* Weak tables.                                                             *)

\* Reach is the least closed set.
LEMMA ReachLeast ==
  ASSUME NEW W, NEW S, NEW T \in SUBSET W, ClosedIn(W, S, T)
  PROVE  Reach(W, S) \subseteq T
BY DEF Reach

\* What is strongly referred to by an object that is alive is alive.
LEMMA StrongAlive ==
  ASSUME IInv, NEW x \in Obj, Alive(x), NEW v \in Strong(x)
  PROVE  v \in Obj /\ Alive(v)
<1> USE DEF IInv
<1>1. CASE v \in refs[x]
  BY <1>1 DEF NoDangling, TypeOK
<1>2. CASE v \notin refs[x]
  <2>1. PICK u \in Upvals : open[u] = x /\ v \in refs[u]
    BY <1>2 DEF Strong, Slots, OpenOn
  <2> QED BY <2>1, KindsDisjoint DEF NoDangling, TypeOK
<1> QED BY <1>1, <1>2

\* When the mark phase ends, what a marked object other than the pending userdata refers
\* to has been marked or will be before userdata are separated.
LEMMA MarkedLeadsTo ==
  ASSUME IInv, gcstate = "propagate", gray = {},
         NEW x \in Obj \ tmudata, Alive(x), iswhite(x) => x \in Remarked,
         NEW v \in Strong(x), iswhite(v)
  PROVE  v \in Remarked
<1> USE DEF IInv
<1>1. v \in Obj
  BY StrongAlive
<1>2. CASE iswhite(x)
  BY <1>1, <1>2, RemarkedCloses
<1>3. CASE isblack(x)
  <2>1. v \in refs[x]
    BY <1>3 DEF BlackKinds, Strong
  <2> QED BY <2>1, <1>3 DEF TriColor
<1>4. CASE isgray(x) /\ x \in Listed
  <2>1. x \notin Weak
    BY DEF Strong
  <2> QED BY <2>1, <1>1, <1>4, RemarkedCloses DEF TriColor
<1>5. CASE isgray(x) /\ x \in Upvals
  <2>1. v \in refs[x] /\ open[x] # NoThread
    BY <1>5, KindsDisjoint DEF Strong, TriColor
  <2> QED BY <2>1, <1>1, <1>5, RemarkedCloses
<1>6. CASE isgray(x) /\ x \in Strings \cup Userdata
  <2>1. x \in Strings /\ x \notin Threads
    BY <1>6, KindsDisjoint DEF BlackKinds
  <2> QED BY <2>1 DEF Strong, Shapes
<1> QED BY <1>2, <1>3, <1>4, <1>5, <1>6, KindsCover, KindsDisjoint
        DEF TypeOK, Alive, iswhite, isblack, isgray, Whites

\* When the mark phase ends, all that is reachable has been marked.
LEMMA AtomicMarksReachable ==
  ASSUME IInv, gcstate = "propagate", gray = {}
  PROVE  \A x \in Reachable : iswhite(x) => x \in Remarked \cup Preserved
<1> DEFINE T == {x \in Obj : Alive(x) /\ (iswhite(x) => x \in Remarked \cup Preserved)}
<1> USE DEF IInv
<1>1. ASSUME NEW x \in T, NEW v \in Strong(x) PROVE v \in T
  <2>1. v \in Obj /\ Alive(v)
    BY <1>1, StrongAlive
  <2>2. SUFFICES ASSUME iswhite(v) PROVE v \in Remarked \cup Preserved
    BY <2>1
  <2>3. CASE x \in Preserved \cup tmudata
    <3>1. x \in Preserved
      BY <2>3, PreservedCloses DEF Pending
    <3> QED BY <3>1, <2>1, <2>2, PreservedCloses
  <2> QED BY <2>2, <2>3, <1>1, MarkedLeadsTo
<1>2. \A x \in Roots : x \in T
  <2>1. \A x \in Roots : x \in Obj /\ Alive(x)
    BY KindsDisjoint DEF Roots, NoDangling, TypeOK
  <2>2. ~iswhite(MainThread) /\ ~iswhite(Registry)
    BY DEF TriColor
  <2> QED BY <2>1, <2>2, RemarkedCloses DEF Roots
<1>3. ClosedIn(Obj, Roots, T)
  BY <1>1, <1>2 DEF ClosedIn
<1>4. Reachable \subseteq T
  <2> HIDE DEF T
  <2>1. T \in SUBSET Obj
    BY DEF T
  <2> QED BY <2>1, <1>3, ReachLeast DEF Reachable
<1> QED BY <1>4

\* An entry leaves a weak table in `cleartable' only when its object is garbage or
\* is, as a value, a userdata already queued for its finalizer (iscleared).
THEOREM WeakEntriesStay == Spec => WeakClears
<1> DEFINE Justified ==
      gcstate = "propagate" /\ gcstate' = "sweepstring" /\ full' = full =>
        \A t \in Weak : \A v \in refs[t] \ refs'[t] :
          \/ v \notin Reachable
          \/ Kind[t] = "weakvalue" /\ v \in finalized'
<1>1. IInv /\ [Next]_vars => [Justified]_vars
  <2> SUFFICES ASSUME IInv, Next, gcstate = "propagate", gcstate' = "sweepstring", full' = full,
                      NEW t \in Weak, NEW v \in refs[t] \ refs'[t]
               PROVE  v \notin Reachable \/ (Kind[t] = "weakvalue" /\ v \in finalized')
    OBVIOUS
  <2>1. Atomic
    <3>1. ~FullGC
      BY DEF FullGC
    <3>2. Mutator => UNCHANGED gcstate
      BY DEF Mutator, collectorState, Load, PushCClosure, SetTable, SetObject, Erase, SetUpval,
             SetSlot, XMove, CaptureShared, Pop, Create, New, InternString, CloseUpval, Resume,
             CaptureNew, SetBasicMetatable, Yield
    <3>3. SingleStep => Atomic
      BY DEF SingleStep, MarkRoot, PropagateMark, SweepString, Sweep, GCTM, FinalizeEnd
    <3> QED BY <3>1, <3>2, <3>3 DEF Next
  <2> DEFINE white == WhiteOf(Obj) \ (Remarked \cup Preserved)
  <2>2. v \in Cleared(t, white, finalized \cup Separated) /\ finalized' = finalized \cup Separated
    BY <2>1, KindsDisjoint DEF Atomic, IInv, TypeOK
  <2>3. v \in white \/ (Kind[t] = "weakvalue" /\ v \in finalized')
    BY <2>2 DEF Cleared
  <2>4. v \in white => v \notin Reachable
    BY <2>1, AtomicMarksReachable DEF Atomic, WhiteOf
  <2> QED BY <2>3, <2>4
<1>2. Spec => [][Justified]_vars
  BY <1>1, InitInv, StepKeepsInv, PTL DEF Spec
<1> QED BY <1>2 DEF WeakClears

-----------------------------------------------------------------------------
(* Full collections.                                                        *)

\* What a full collection keeps: what the roots and the userdata that wait for their
\* finalizers lead to, and the strings in weak tables of that.
Kept        == Reach(Obj, Roots \cup tmudata)
WeakStrings == UNION {refs[t] \cap Strings : t \in Kept \cap Weak}

\* Until its first finalizer runs, the second cycle of a full collection marks nothing
\* else, and leaves nothing else alive.
FullInv ==
  full = "marking" =>
    /\ gcstate = "propagate" => \A x \in Obj : isgray(x) \/ isblack(x) => x \in Kept
    /\ gcstate # "propagate" => \A x \in Obj : Alive(x) => x \in Kept \cup WeakStrings

\* A set that is closed within W bounds what is reached within W.
LEMMA ReachWithin ==
  ASSUME NEW W, NEW S, NEW K, S \cap W \subseteq K, \A x \in K : Strong(x) \cap W \subseteq K
  PROVE  Reach(W, S) \subseteq K
<1>1. ClosedIn(W, S, W \cap K) /\ W \cap K \in SUBSET W
  BY DEF ClosedIn
<1> QED BY <1>1, ReachLeast

LEMMA KeptClosed ==
  /\ Kept \subseteq Obj /\ \A x \in Roots \cup tmudata : x \in Obj => x \in Kept
  /\ \A x \in Kept : \A v \in Strong(x) : v \in Obj => v \in Kept
BY ReachClosed DEF Kept

LEMMA KeptAlive == ASSUME IInv PROVE \A x \in Kept : x \in Obj /\ Alive(x)
<1> DEFINE K == {x \in Obj : Alive(x)}
<1>1. \A x \in Roots \cup tmudata : x \in K
  BY KindsDisjoint DEF IInv, NoDangling, Roots, TypeOK
<1>2. \A x \in K : Strong(x) \subseteq K
  BY StrongAlive
<1> HIDE DEF K
<1>3. Kept \subseteq K
  BY <1>1, <1>2, ReachWithin DEF Kept
<1> QED BY <1>3 DEF K

\* Steps that change no reference and no root.
LEMMA KeptSame ==
  ASSUME UNCHANGED <<refs, open, basicmt, running, tmudata>>
  PROVE  Kept' = Kept /\ WeakStrings' = WeakStrings
<1>1. \A x : Strong(x)' = Strong(x)
  BY DEF Strong, Slots, OpenOn
<1>2. Kept' = Kept
  BY <1>1 DEF Kept, Reach, ClosedIn, Roots
<1> QED BY <1>2 DEF WeakStrings

\* Marking colours what is given, and what it goes through to.
LEMMA TouchedWithin ==
  ASSUME NEW K, NEW S \in SUBSET K, \A x \in K : Strong(x) \subseteq K
  PROVE  Touched(S) \subseteq K
<1>1. \A x \in Upvals \cup Userdata : Strong(x) = refs[x]
  BY KindsDisjoint DEF Strong
<1> QED BY <1>1 DEF Touched, WhiteOf

\* Marking, from the roots or from a gray object.
LEMMA MarkFull ==
  ASSUME IInv, FullInv, full' = "marking",
         MarkRoot \/ \E o \in Listed : PropagateMark(o)
  PROVE  FullInv'
<1> USE DEF IInv
<1>1. Kept' = Kept /\ gcstate' = "propagate" /\ \A x \in Kept : x \in Obj
  BY KeptSame, KeptClosed DEF MarkRoot, PropagateMark
<1>2. \A x \in Kept : Strong(x) \subseteq Kept
  BY KeptClosed, KeptAlive, StrongAlive
<1>3. SUFFICES ASSUME NEW x \in Obj, marked'[x] \in {"gray", "black"} PROVE x \in Kept
  BY <1>1 DEF FullInv, isgray, isblack
<1>4. CASE MarkRoot
  <2>1. PICK S : S = {MainThread, Registry} \cup basicmt
    OBVIOUS
  <2>2. S \subseteq Kept
    BY <2>1, KeptClosed, KindsDisjoint DEF Roots, TypeOK
  <2>3. Touched(S) \subseteq Kept
    BY <2>2, <1>2, TouchedWithin
  <2>4. marked'[x] = AfterMark(S)[x] /\ gcstate \in {"pause", "finalize"}
    BY <1>4, <2>1 DEF MarkRoot
  <2>5. CASE x \notin Touched(S)
    <3>1. marked[x] \in {"gray", "black"}
      BY <2>4, <2>5, <1>3 DEF AfterMark
    <3>2. x \in tmudata
      BY <3>1, <2>4 DEF Idle, Allocated, TypeOK, Whites
    <3> QED BY <3>2, KeptClosed
  <2> QED BY <2>3, <2>5
<1>5. ASSUME NEW o \in Listed, PropagateMark(o) PROVE x \in Kept
  <2>1. full = "marking" /\ gcstate = "propagate" /\ o \in gray /\ isgray(o) /\ o \in Obj
    BY <1>5, KindsDisjoint DEF PropagateMark, TriColor
  <2>2. o \in Kept
    BY <2>1 DEF FullInv
  <2>3. Touched(Strong(o)) \subseteq Kept
    BY <2>2, <1>2, TouchedWithin
  <2>4. x = o \/ marked'[x] = AfterMark(Strong(o))[x]
    BY <1>5, AfterMarkType DEF PropagateMark, TypeOK, Colors
  <2>5. x \notin Touched(Strong(o)) /\ x # o => isgray(x) \/ isblack(x)
    BY <2>4, <1>3 DEF AfterMark, isgray, isblack
  <2> QED BY <2>1, <2>2, <2>3, <2>5 DEF FullInv
<1> QED BY <1>4, <1>5

\* What `atomic' adds to what was marked: more userdata to finalize, what those lead to,
\* and the strings in the weak tables.
LEMMA AtomicFull ==
  ASSUME IInv, FullInv, full' = "marking", Atomic PROVE FullInv'
<1> DEFINE reached == Remarked \cup Preserved
           white == WhiteOf(Obj) \ reached
           weak == {t \in Weak : t \in reached \/ isgray(t)}
           F == white \cap Strings \cap UNION {refs[t] : t \in weak}
<1> USE DEF IInv
<1>1. /\ full = "marking" /\ gcstate = "propagate" /\ gcstate' = "sweepstring"
      /\ tmudata' = Pending /\ currentwhite' = otherwhite
      /\ UNCHANGED <<open, basicmt, running>>
      /\ \A x \in Obj : marked'[x] = IF x \in reached \cup F \cup grayagain THEN FinalColor(x)
                                     ELSE marked[x]
      /\ \A t \in Obj : refs'[t] = refs[t] \/ t \in Weak
      /\ \A t \in Obj : refs[t] \cap Strings \subseteq refs'[t]
  BY DEF Atomic, Cleared
<1>2. \A x \in F : x \in Strings /\ \E t \in weak : x \in refs[t]
  OBVIOUS
<1>3. \A t \in weak : t \in Weak /\ t \in Obj /\ (t \in reached \/ isgray(t))
  BY KindsDisjoint
<1> HIDE DEF F, weak, reached
<1>4. \A x \in Obj : Strong(x)' = Strong(x)
  <2>1. \A x \in Obj : x \notin Weak => refs'[x] = refs[x]
    BY <1>1
  <2>2. \A x \in Threads \cup Upvals : x \in Obj /\ x \notin Weak
    BY KindsDisjoint
  <2>3. \A x : OpenOn(x)' = OpenOn(x) /\ OpenOn(x) \subseteq Upvals
    BY <1>1 DEF OpenOn
  <2>4. \A x \in Threads : Slots(x)' = Slots(x)
    BY <2>1, <2>2, <2>3 DEF Slots
  <2> QED BY <2>1, <2>4 DEF Strong
<1>5. /\ \A x \in Roots \cup Pending : x \in Obj => x \in Kept'
      /\ Kept' \subseteq Obj /\ \A x \in Kept' : \A v \in Strong(x) : v \in Obj => v \in Kept'
  <2>1. PICK K : K = Kept'
    OBVIOUS
  <2>2. K = Reach(Obj, Roots \cup tmudata)'
    BY <2>1 DEF Kept
  <2>3. Reach(Obj, Roots \cup tmudata)' = Reach(Obj, Roots \cup Pending)
    BY <1>1, <1>4 DEF Reach, ClosedIn, Roots
  <2> QED BY <2>1, <2>2, <2>3, ReachClosed
<1>6. Kept \subseteq Kept'
  <2>1. Roots \cup tmudata \subseteq Roots \cup Pending
    BY DEF Pending
  <2>2. PICK K : K = Kept'
    OBVIOUS
  <2>3. Reach(Obj, Roots \cup tmudata) \subseteq K
    BY <2>1, <2>2, <1>5, ReachWithin
  <2> QED BY <2>2, <2>3 DEF Kept
<1>7. \A x \in Obj : isgray(x) \/ isblack(x) => x \in Kept'
  BY <1>1, <1>6 DEF FullInv
<1>8. reached \subseteq Kept'
  <2>1. PICK K : K = Kept'
    OBVIOUS
  <2>2. Remarked \subseteq K
    <3> DEFINE fromUpvals == UNION {refs[u] : u \in {x \in Upvals : open[x] # NoThread /\ isgray(x)}}
               fromAgain  == UNION {Strong(x) : x \in grayagain}
               S == fromUpvals \cup {running} \cup basicmt \cup fromAgain
    <3>2. Remarked = Reach(WhiteOf(Obj), S)
      BY DEF Remarked
    <3>1. \A v \in S : \/ v \in {running} \cup basicmt \/ \E x \in grayagain : v \in Strong(x)
                      \/ \E u \in Upvals : isgray(u) /\ v \in refs[u]
      OBVIOUS
    <3> HIDE DEF S
    <3>3. ASSUME NEW v \in S, v \in Obj PROVE v \in K
      <4>1. CASE v \in {running} \cup basicmt
        BY <4>1, <3>3, <2>1, <1>5 DEF Roots
      <4>2. ASSUME NEW x \in grayagain, v \in Strong(x) PROVE v \in K
        <5>1. isgray(x) /\ x \in Obj
          BY <1>1, KindsDisjoint DEF TriColor, TypeOK
        <5> QED BY <4>2, <5>1, <1>7, <1>5, <2>1, <3>3
      <4>3. ASSUME NEW u \in Upvals, isgray(u), v \in refs[u] PROVE v \in K
        <5>1. u \in Obj /\ Strong(u) = refs[u]
          BY KindsDisjoint DEF Strong
        <5> QED BY <4>3, <5>1, <1>7, <1>5, <2>1, <3>3
      <4> QED BY <3>1, <4>1, <4>2, <4>3
    <3>4. WhiteOf(Obj) \subseteq Obj
      BY DEF WhiteOf
    <3> QED BY <3>2, <3>3, <3>4, <1>5, <2>1, ReachWithin
  <2>3. Preserved \subseteq K
    <3>1. PICK W : W = (WhiteOf(Obj) \ Remarked) \cup Pending
      OBVIOUS
    <3>2. Preserved = Reach(W, Pending)
      BY <3>1 DEF Preserved
    <3>3. W \subseteq Obj
      BY <3>1, KindsDisjoint DEF WhiteOf, Pending, Separated, TypeOK
    <3> QED BY <3>2, <3>3, <1>5, <2>1, ReachWithin
  <2> QED BY <2>1, <2>2, <2>3 DEF reached
<1>9. ASSUME NEW x \in Obj, Alive(x)' PROVE x \in (Kept \cup WeakStrings)'
  <2>1. CASE x \in reached \cup grayagain
    <3>1. x \in grayagain => isgray(x)
      BY <1>1 DEF TriColor
    <3> QED BY <2>1, <3>1, <1>7, <1>8
  <2>2. CASE x \in F
    <3>1. PICK t \in weak : x \in refs[t]
      BY <2>2, <1>2
    <3>2. t \in Kept' /\ t \in Weak /\ x \in refs'[t] /\ x \in Strings
      BY <3>1, <2>2, <1>1, <1>2, <1>3, <1>7, <1>8
    <3> QED BY <3>2 DEF WeakStrings
  <2>3. CASE x \notin reached \cup F \cup grayagain
    <3>1. marked'[x] = marked[x] /\ marked[x] # "free" /\ marked[x] # currentwhite
      BY <2>3, <1>9, <1>1, OtherWhite DEF Alive, isdead, otherwhite, TypeOK, Whites
    <3>2. isgray(x) \/ isblack(x)
      BY <3>1, <1>1 DEF TriColor, isdead, isgray, isblack, otherwhite, TypeOK, Whites
    <3> QED BY <3>2, <1>7
  <2> QED BY <2>1, <2>2, <2>3
<1> QED BY <1>1, <1>9 DEF FullInv

\* The sweep frees what is dead; what is alive keeps its references, those of a thread
\* in other places when an upvalue of its stack is freed.
LEMMA SweepFull ==
  ASSUME IInv, FullInv, full' = "marking",
         (\E b \in SUBSET Strings : SweepString(b)) \/ \E o \in Obj : Sweep(o)
  PROVE  FullInv'
<1> USE DEF IInv
<1>1. ASSUME NEW b \in SUBSET Strings, SweepString(b) PROVE FullInv'
  <2>1. Kept' = Kept /\ WeakStrings' = WeakStrings
    BY <1>1, KeptSame DEF SweepString
  <2>2. \A x \in Obj : Alive(x)' => Alive(x)
    BY <1>1 DEF SweepString, Alive, isdead, otherwhite, TypeOK, Whites, Sweeping
  <2> QED BY <1>1, <2>1, <2>2 DEF SweepString, FullInv
<1>2. ASSUME NEW o \in Obj, Sweep(o) PROVE FullInv'
  <2> DEFINE D == {u \in OpenOn(o) : isdead(u)}
             F == D \cup (IF isdead(o) THEN {o} ELSE {})
  <2>1. /\ gcstate = "sweep" /\ gcstate' # "propagate" /\ full = "marking" /\ o \in tosweep
        /\ \A x \in Obj : marked'[x] = IF x \in F THEN "free"
                                       ELSE IF x \in OpenOn(o) \cup {o} THEN currentwhite
                                       ELSE marked[x]
        /\ \A x \in Obj : refs'[x] = IF x \in F THEN {}
                                     ELSE IF x = o THEN refs[o] \cup UNION {refs[u] : u \in D}
                                     ELSE refs[x]
        /\ \A x \in Obj : open'[x] = IF x \in F \/ (isdead(o) /\ open[x] = o) THEN NoThread
                                     ELSE open[x]
        /\ UNCHANGED <<currentwhite, tmudata, basicmt, running>>
    BY <1>2 DEF Sweep
  <2>2. \A u : u \in D <=> u \in Upvals /\ open[u] = o /\ isdead(u)
    BY DEF OpenOn
  <2>3. \A x : x \in F <=> x \in D \/ (x = o /\ isdead(o))
    OBVIOUS
  <2>4. o # NoThread /\ (D # {} => o \in Threads)
    BY <2>2, KindsDisjoint DEF TypeOK
  <2> HIDE DEF D, F
  <2>5. \A x \in Obj : Alive(x)' => Alive(x)
    <3>1. \A x \in OpenOn(o) \cup {o} : x \in Obj => marked[x] # "free"
      BY <2>1, <2>4 DEF OpenOn, Shapes, Sweeping
    <3>2. \A x : isdead(x)' <=> marked'[x] = otherwhite
      BY <2>1 DEF isdead, otherwhite
    <3> QED BY <2>1, <2>2, <2>3, <3>1, <3>2, OtherWhite DEF Alive, isdead, OpenOn, TypeOK, Whites
  <2>6. ASSUME NEW x \in Obj, Alive(x) PROVE Strong(x) \subseteq Strong(x)'
    <3>1. x \notin F
      BY <2>2, <2>3, <2>6 DEF Alive, isdead
    <3>2. refs[x] \subseteq refs'[x]
      BY <3>1, <2>1
    <3>3. CASE x \notin Threads
      BY <3>2, <3>3 DEF Strong
    <3>4. CASE x \in Threads
      <4>1. ASSUME NEW u \in Upvals, open[u] = x, NEW v \in refs[u] PROVE v \in Slots(x)'
        <5>1. u \in Obj /\ u # o
          BY <2>1, <4>1, <3>4, KindsDisjoint DEF Sweeping
        <5>2. CASE u \in D
          <6>1. x = o /\ o \in Obj
            BY <5>2, <4>1, <2>2
          <6>2. refs'[x] = refs[o] \cup UNION {refs[w] : w \in D}
            BY <6>1, <3>1, <2>1
          <6> QED BY <6>2, <5>2, <4>1 DEF Slots
        <5>3. CASE u \notin D
          <6>1. refs'[u] = refs[u] /\ open'[u] = x
            BY <5>1, <5>3, <4>1, <3>1, <2>1, <2>3
          <6> QED BY <6>1, <4>1 DEF Slots, OpenOn
        <5> QED BY <5>2, <5>3
      <4>2. Slots(x) \subseteq Slots(x)'
        BY <4>1, <3>2 DEF Slots, OpenOn
      <4> QED BY <4>2, <3>4 DEF Strong
    <3> QED BY <3>3, <3>4
  <2>7. Kept \subseteq Kept'
    <3> DEFINE K == {x \in Kept' : Alive(x)}
    <3>1. ASSUME NEW x \in K, NEW v \in Strong(x) PROVE v \in K
      <4>1. x \in Obj /\ x \in Kept' /\ Alive(x)
        BY ReachClosed, <3>1 DEF Kept, Reach
      <4>2. v \in Obj /\ Alive(v) /\ v \in Strong(x)'
        BY <4>1, <3>1, <2>6, StrongAlive
      <4>3. v \in Kept'
        BY <4>1, <4>2 DEF Kept, Reach, ClosedIn
      <4> QED BY <4>2, <4>3
    <3>2. \A x \in Roots \cup tmudata : x \in Obj => x \in Kept'
      BY <2>1 DEF Kept, Reach, ClosedIn, Roots
    <3>3. \A x \in Roots \cup tmudata : x \in Obj => x \in K
      BY <3>2, KeptClosed, KeptAlive
    <3> HIDE DEF K
    <3>4. Kept \subseteq K
      BY <3>1, <3>3, ReachWithin DEF Kept
    <3> QED BY <3>4 DEF K
  <2>8. WeakStrings \subseteq WeakStrings'
    <3>1. ASSUME NEW t \in Kept \cap Weak PROVE refs'[t] = refs[t]
      <4>1. t \in Obj /\ Alive(t) /\ t \notin Threads /\ t \notin Upvals
        BY KeptAlive, KindsDisjoint
      <4>2. t \notin F
        BY <4>1, <2>2, <2>3 DEF Alive
      <4>3. t = o => D = {}
        BY <4>1, <2>4
      <4> QED BY <4>1, <4>2, <4>3, <2>1
    <3> QED BY <3>1, <2>7 DEF WeakStrings
  <2> QED BY <2>1, <2>5, <2>7, <2>8 DEF FullInv
<1> QED BY <1>1, <1>2

LEMMA FullInvStep == ASSUME IInv, FullInv, [Next]_vars PROVE FullInv'
<1>1. CASE UNCHANGED vars
  BY <1>1, KeptSame DEF vars, FullInv, isgray, isblack, Alive, isdead, otherwhite
<1>2. CASE Next /\ full' = "marking"
  <2>1. ~FullGC /\ ~FinalizeEnd /\ \A u \in Userdata : ~GCTM(u)
    BY <1>2 DEF FullGC, FinalizeEnd, GCTM
  <2>2. ~Mutator
    BY <1>2 DEF Mutator, MutatorRuns, collectorState, Load, PushCClosure, SetTable, SetObject,
           Erase, SetUpval, SetSlot, XMove, CaptureShared, Pop, Create, New, InternString,
           CloseUpval, Resume, CaptureNew, SetBasicMetatable, Yield
  <2>3. SingleStep
    BY <1>2, <2>1, <2>2 DEF Next
  <2> QED BY <1>2, <2>1, <2>3, MarkFull, AtomicFull, SweepFull DEF SingleStep
<1> QED BY <1>1, <1>2 DEF FullInv

\* When the sweep of a full collection is over and no finalizer has run yet, all garbage is
\* gone, whatever cycle luaC_fullgc interrupted: what is left is reachable, kept for a
\* finalizer, or a string in a weak table.
THEOREM FullCollection == Spec => []FullCollects
<1>1. Init => FullInv
  BY DEF Init, FullInv
<1>2. IInv /\ FullInv => FullCollects
  <2> SUFFICES ASSUME IInv, FullInv, gcstate = "finalize", full = "marking",
                      NEW x \in Allocated
               PROVE  x \in Kept \cup WeakStrings
    BY DEF FullCollects, Kept, WeakStrings
  <2>1. x \in Obj /\ Alive(x)
    BY OtherWhite DEF IInv, Idle, NoDangling, Allocated, Alive, isdead, TypeOK
  <2> QED BY <2>1 DEF FullInv
<1> QED BY <1>1, <1>2, InitInv, StepKeepsInv, FullInvStep, PTL DEF Spec

-----------------------------------------------------------------------------
(* Collecting at once: the steps of LuaGC as steps of Heap.                 *)

\* What the program sees of the objects.
Live == {o \in Obj : Alive(o)}
Held == [o \in Obj |-> IF Alive(o) THEN Holds(o) ELSE {}]

LEMMA FromClosed ==
  ASSUME NEW P
  PROVE  /\ AsHeap!From(P) \subseteq Obj
         /\ \A x \in Roots : x \in Obj => x \in AsHeap!From(P)
         /\ \A x \in AsHeap!From(P) \ P : \A v \in Held[x] : v \in Obj => v \in AsHeap!From(P)
BY DEF AsHeap!From, Held

LEMMA FromWithin ==
  ASSUME NEW P, NEW K \in SUBSET Obj, Roots \subseteq K, \A x \in K \ P : Held[x] \subseteq K
  PROVE  AsHeap!From(P) \subseteq K
BY DEF AsHeap!From, Held

\* Strings and values aside, traversing an object marks what it holds.
LEMMA HoldsStrong == \A x \in Obj : x \notin Weak => Holds(x) = Strong(x)
BY DEF Holds, Strong

LEMMA HoldsAlive ==
  ASSUME IInv, NEW x \in Obj, Alive(x)
  PROVE  \A v \in Holds(x) : v \in Obj /\ Alive(v)
<1>1. x \in Weak => Holds(x) = refs[x]
  BY KindsDisjoint DEF Holds
<1> QED BY <1>1, HoldsStrong, StrongAlive DEF IInv, NoDangling, TypeOK

\* When the mark phase ends, what the program needs has been marked, and no userdata is
\* separated that others than the pending ones lead to.
LEMMA NeededMarked ==
  ASSUME IInv, gcstate = "propagate", gray = {}
  PROVE  /\ \A x \in AsHeap!Needed : iswhite(x) => x \in Remarked \cup Preserved
         /\ \A x \in AsHeap!From(Weak \cup tmudata) : iswhite(x) => x \in Remarked
<1>1. \A x \in Roots : x \in Obj /\ Alive(x)
  BY KindsDisjoint DEF IInv, Roots, NoDangling, TypeOK
<1>2. AsHeap!Needed \subseteq Reachable
  <2>1. /\ Reachable \subseteq Obj /\ Roots \subseteq Reachable
        /\ \A x \in Reachable : \A v \in Strong(x) : v \in Obj => v \in Reachable
    BY <1>1, ReachClosed DEF Reachable
  <2>2. ASSUME NEW x \in Reachable \ Weak, NEW v \in Held[x] PROVE v \in Reachable
    BY <2>1, <2>2, HoldsStrong, HoldsAlive DEF Held
  <2> QED BY <2>1, <2>2, FromWithin DEF AsHeap!Needed
<1>3. AsHeap!From(Weak \cup tmudata) \subseteq {x \in Obj : Alive(x) /\ (iswhite(x) => x \in Remarked)}
  <2> DEFINE K == {x \in Obj : Alive(x) /\ (iswhite(x) => x \in Remarked)}
  <2>1. Roots \subseteq K
    <3>1. ~iswhite(MainThread) /\ ~iswhite(Registry)
      BY DEF IInv, TriColor
    <3> QED BY <3>1, <1>1, RemarkedCloses DEF Roots
  <2>2. ASSUME NEW x \in K \ (Weak \cup tmudata), NEW v \in Held[x] PROVE v \in K
    <3>1. v \in Strong(x)
      BY <2>2, HoldsStrong DEF Held
    <3> QED BY <3>1, StrongAlive, MarkedLeadsTo
  <2> HIDE DEF K
  <2>3. K \subseteq Obj
    BY DEF K
  <2>4. AsHeap!From(Weak \cup tmudata) \subseteq K
    BY <2>1, <2>2, <2>3, FromWithin
  <2> QED BY <2>4 DEF K
<1> QED BY <1>2, <1>3, AtomicMarksReachable

\* What is alive holds what is alive.
HoldsLive == \A x \in Obj : Alive(x) => \A v \in Holds(x) : v \in Obj /\ Alive(v)

LEMMA HoldsLiveNext == IInv' => HoldsLive'
<1>1. IInv => HoldsLive
  BY HoldsAlive DEF HoldsLive
<1> QED BY <1>1, PTL

\* `atomic' is the one step of a cycle in which the program's objects go.
LEMMA AtomicCollects ==
  ASSUME IInv, IInv', DeadFinalized', Atomic PROVE AsHeap!Collect
<1> DEFINE reached == Remarked \cup Preserved
           white == WhiteOf(Obj) \ reached
           done == finalized \cup Separated
           weak == {t \in Weak : t \in reached \/ isgray(t)}
<1>1. /\ gcstate = "propagate" /\ gray = {} /\ UNCHANGED <<open, basicmt, running>>
      /\ \A x \in Obj : refs'[x] = IF x \in weak THEN refs[x] \ Cleared(x, white, done)
                                   ELSE refs[x]
      /\ tmudata' = Pending /\ finalized' = done
  BY DEF Atomic
<1>2. Live' \subseteq Live
  <2>1. ASSUME NEW x \in Obj, marked[x] = "free" PROVE marked'[x] = "free"
    <3>1. x \notin Pending
      BY <2>1, KindsDisjoint DEF Pending, Separated, iswhite, Whites, IInv, NoDangling, Alive
    <3>2. x \notin reached /\ x \notin WhiteOf(Obj)
      BY <3>1, <2>1, RemarkedCloses, PreservedCloses DEF iswhite, Whites, WhiteOf
    <3>3. x \notin grayagain
      BY <2>1, <1>1 DEF IInv, TriColor, isgray
    <3> QED BY <3>2, <3>3, <2>1 DEF Atomic
  <2> QED BY <2>1, <1>1 DEF Live, Alive, IInv, TriColor
<1>3. Roots' = Roots
  BY <1>1 DEF Roots
<1>4. \A x \in Obj : x \notin Weak => Holds(x)' = Holds(x)
  <2>1. \A x \in Obj : x \notin Weak => refs'[x] = refs[x]
    BY <1>1
  <2>2. \A x \in Threads \cup Upvals : x \in Obj /\ x \notin Weak
    BY KindsDisjoint
  <2>3. \A x \in Threads : Slots(x)' = Slots(x)
    BY <1>1, <2>1, <2>2 DEF Slots, OpenOn
  <2> QED BY <2>1, <2>3 DEF Holds
<1>5. ASSUME NEW x \in Weak
      PROVE  /\ Holds(x) = refs[x] /\ Holds(x)' = refs'[x] /\ refs'[x] \subseteq refs[x]
             /\ \A v \in refs[x] \ refs'[x] :
                  v \notin AsHeap!Needed \/ (Kind[x] = "weakvalue" /\ v \in finalized')
  <2>1. x \in Obj /\ x \notin Threads
    BY KindsDisjoint
  <2>2. ASSUME NEW v \in refs[x] \ refs'[x], v \in AsHeap!Needed
        PROVE  Kind[x] = "weakvalue" /\ v \in finalized'
    <3>1. v \in Cleared(x, white, done)
      BY <2>1, <2>2, <1>1
    <3>2. v \notin white
      BY <2>2, <1>1, NeededMarked DEF WhiteOf
    <3> QED BY <3>1, <3>2, <1>1 DEF Cleared
  <2> QED BY <2>1, <2>2, <1>1 DEF Holds
<1>6. finalized' \ finalized = Separated /\ finalized \subseteq finalized'
  BY <1>1 DEF Separated
<1>7. Separated \subseteq (Live \cap Userdata) \ AsHeap!From(Weak \cup tmudata)
  BY <1>1, NeededMarked, KindsDisjoint DEF Separated, Live, Alive, IInv, TriColor, iswhite, Whites
<1>8. Roots \cup tmudata' \subseteq Live'
  <2>1. Roots' \cup tmudata' \subseteq Live'
    BY KindsDisjoint DEF IInv, Roots, NoDangling, TypeOK, Live
  <2> QED BY <2>1, <1>3
<1>9. (Live \ Live') \cap Finalizable \subseteq finalized'
  <2>1. ASSUME NEW u \in Finalizable, u \in Live \ Live' PROVE u \in finalized'
    <3>1. marked[u] # "free" /\ u \in Obj
      BY <2>1 DEF Live, Alive
    <3>2. marked'[u] # "free"
      BY <3>1 DEF Atomic, FinalColor
    <3>3. isdead(u)'
      BY <3>1, <3>2, <2>1 DEF Live, Alive
    <3> QED BY <3>3 DEF DeadFinalized
  <2> QED BY <2>1
<1>10. ASSUME NEW x \in Live'
       PROVE  /\ Held'[x] \subseteq Held[x] \cap Live'
              /\ \A v \in Held[x] \ Held'[x] :
                   x \in Weak /\ (v \notin AsHeap!Needed \/ (Kind[x] = "weakvalue" /\ v \in finalized'))
  <2>1. x \in Obj /\ Alive(x)' /\ Alive(x)
    BY <1>2 DEF Live
  <2>2. Held[x] = Holds(x) /\ Held'[x] = Holds(x)'
    BY <2>1 DEF Held
  <2>3. Held'[x] \subseteq Live'
    BY <2>1, <2>2, HoldsLiveNext DEF HoldsLive, Live
  <2> QED BY <2>1, <2>2, <2>3, <1>4, <1>5
<1>11. \A x \in Obj \ Live' : Held'[x] = {}
  BY DEF Held, Live
<1>12. tmudata' = tmudata \cup (Separated \cap Finalizable)
  BY <1>1 DEF Pending
<1> HIDE DEF reached, white, done, weak
<1> QED BY <1>2, <1>3, <1>6, <1>7, <1>8, <1>9, <1>10, <1>11, <1>12 DEF AsHeap!Collect, Live, Held

\* Steps that change neither what is alive nor what it holds.
LEMMA HeapSame ==
  ASSUME \A x \in Obj : Alive(x)' <=> Alive(x), \A x \in Obj : Alive(x) => Holds(x)' = Holds(x),
         UNCHANGED <<basicmt, running, tmudata, finalized>>
  PROVE  UNCHANGED AsHeap!heapVars
<1>1. Live' = Live /\ Held' = Held /\ Roots' = Roots
  BY DEF Live, Held, Roots
<1> QED BY <1>1 DEF AsHeap!heapVars, Live, Held

LEMMA HoldsSame == ASSUME UNCHANGED <<refs, open>> PROVE \A x : Holds(x)' = Holds(x)
BY DEF Holds, Slots, OpenOn

LEMMA AliveSame ==
  ASSUME IInv, UNCHANGED currentwhite,
         \A x \in Obj : \/ marked'[x] = marked[x]
                        \/ Alive(x) /\ marked'[x] \in {currentwhite, "gray", "black"}
                        \/ isdead(x) /\ marked'[x] = "free"
  PROVE  \A x \in Obj : Alive(x)' <=> Alive(x)
<1>1. \A x : isdead(x)' <=> marked'[x] = otherwhite
  BY DEF isdead, otherwhite
<1>2. otherwhite \in Whites /\ otherwhite # currentwhite /\ currentwhite \in Whites
  BY OtherWhite DEF IInv, TypeOK
<1>3. ASSUME NEW x \in Obj PROVE Alive(x)' <=> Alive(x)
  <2>1. Alive(x)' <=> marked'[x] # "free" /\ marked'[x] # otherwhite
    BY <1>1 DEF Alive
  <2>2. Alive(x) <=> marked[x] # "free" /\ marked[x] # otherwhite
    BY DEF Alive, isdead
  <2> QED BY <2>1, <2>2, <1>2 DEF isdead, Whites
<1> QED BY <1>3

\* Marking while nothing is dead.
LEMMA MarkAlive ==
  ASSUME IInv, \A x \in Obj : ~isdead(x), NEW S, NEW x \in Obj
  PROVE  AfterMark(S)[x] = marked[x] \/ (Alive(x) /\ AfterMark(S)[x] \in {"gray", "black"})
BY TouchedWhite DEF AfterMark, FirstColor, iswhite, Whites, Alive

\* Marking, sweeping and what surrounds them is not seen by the program.
LEMMA MarkUnseen ==
  ASSUME IInv, MarkRoot \/ \E o \in Listed : PropagateMark(o)
  PROVE  UNCHANGED AsHeap!heapVars
<1> USE DEF IInv
<1>1. \A x \in Obj : ~isdead(x)
  <2>1. CASE gcstate = "propagate"
    BY <2>1 DEF TriColor
  <2>2. CASE gcstate \in {"pause", "finalize"}
    BY <2>2, OtherWhite DEF Idle, Allocated, NoDangling, Alive, isdead, TypeOK, Whites
  <2> QED BY <2>1, <2>2 DEF MarkRoot, PropagateMark
<1>3. \A x \in Obj : marked'[x] = marked[x] \/ (Alive(x) /\ marked'[x] \in {"gray", "black"})
  <2>1. CASE MarkRoot
    BY <2>1, <1>1, MarkAlive DEF MarkRoot
  <2>2. ASSUME NEW o \in Listed, PropagateMark(o)
        PROVE  \A x \in Obj : marked'[x] = marked[x] \/ (Alive(x) /\ marked'[x] \in {"gray", "black"})
    <3>1. isgray(o) /\ FinalColor(o) \in {"gray", "black"}
      BY <2>2 DEF PropagateMark, TriColor, FinalColor
    <3>2. \A x \in Obj : marked'[x] = IF x = o THEN FinalColor(o) ELSE AfterMark(Strong(o))[x]
      BY <2>2, AfterMarkType DEF PropagateMark, TypeOK, Colors
    <3> QED BY <3>1, <3>2, <1>1, MarkAlive DEF Alive, isgray
  <2> QED BY <2>1, <2>2
<1>4. UNCHANGED <<currentwhite, refs, open, basicmt, running, tmudata, finalized>>
  BY DEF MarkRoot, PropagateMark
<1> QED BY <1>3, <1>4, AliveSame, HoldsSame, HeapSame

LEMMA SweepUnseen ==
  ASSUME IInv, (\E b \in SUBSET Strings : SweepString(b)) \/ \E o \in Obj : Sweep(o)
  PROVE  UNCHANGED AsHeap!heapVars
<1> USE DEF IInv
<1>1. ASSUME NEW b \in SUBSET Strings, SweepString(b) PROVE UNCHANGED AsHeap!heapVars
  <2>1. \A x \in Obj : \/ marked'[x] = marked[x]
                       \/ Alive(x) /\ marked'[x] \in {currentwhite, "gray", "black"}
                       \/ isdead(x) /\ marked'[x] = "free"
    BY <1>1 DEF SweepString, Alive, Sweeping
  <2> QED BY <1>1, <2>1, AliveSame, HoldsSame, HeapSame DEF SweepString
<1>2. ASSUME NEW o \in Obj, Sweep(o) PROVE UNCHANGED AsHeap!heapVars
  <2> DEFINE D == {u \in OpenOn(o) : isdead(u)}
             F == D \cup (IF isdead(o) THEN {o} ELSE {})
  <2>1. /\ gcstate = "sweep" /\ o \in tosweep
        /\ \A x \in Obj : marked'[x] = IF x \in F THEN "free"
                                       ELSE IF x \in OpenOn(o) \cup {o} THEN currentwhite
                                       ELSE marked[x]
        /\ \A x \in Obj : refs'[x] = IF x \in F THEN {}
                                     ELSE IF x = o THEN refs[o] \cup UNION {refs[u] : u \in D}
                                     ELSE refs[x]
        /\ \A x \in Obj : open'[x] = IF x \in F \/ (isdead(o) /\ open[x] = o) THEN NoThread
                                     ELSE open[x]
        /\ UNCHANGED <<currentwhite, tmudata, finalized, basicmt, running>>
    BY <1>2 DEF Sweep
  <2>2. /\ \A u : u \in D <=> u \in Upvals /\ open[u] = o /\ isdead(u)
        /\ \A x : x \in F <=> x \in D \/ (x = o /\ isdead(o))
    BY DEF OpenOn
  <2>3. /\ o # NoThread /\ (D # {} => o \in Threads)
        /\ open[o] = NoThread /\ marked[o] # "free"
        /\ \A u \in Upvals : open[u] = o => marked[u] # "free"
    BY <2>1, <2>2, KindsDisjoint DEF TypeOK, Sweeping, Shapes
  <2> HIDE DEF D, F
  <2>4. \A x \in Obj : \/ marked'[x] = marked[x]
                       \/ Alive(x) /\ marked'[x] \in {currentwhite, "gray", "black"}
                       \/ isdead(x) /\ marked'[x] = "free"
    BY <2>1, <2>2, <2>3 DEF Alive, OpenOn
  <2>5. ASSUME NEW x \in Obj, Alive(x) PROVE Holds(x)' = Holds(x)
    <3>1. x \notin F
      BY <2>2, <2>5 DEF Alive
    <3>2. CASE x \notin Threads
      BY <3>1, <3>2, <2>1, <2>3 DEF Holds
    <3>3. CASE x \in Threads /\ x # o
      <4>1. refs'[x] = refs[x]
        BY <3>1, <3>3, <2>1
      <4>2. \A u \in Upvals : open'[u] = x <=> open[u] = x
        BY <3>3, <2>1, <2>2, <2>3, KindsDisjoint
      <4>3. \A u \in Upvals : open[u] = x => refs'[u] = refs[u]
        <5>1. ASSUME NEW u \in Upvals, open[u] = x PROVE refs'[u] = refs[u]
          <6>1. u # o /\ u \in Obj /\ open[u] # o
            BY <3>3, <5>1, <2>3, GCAssumption, KindsDisjoint
          <6>2. u \notin F
            BY <6>1, <2>2
          <6> QED BY <6>1, <6>2, <2>1
        <5> QED BY <5>1
      <4> QED BY <3>3, <4>1, <4>2, <4>3 DEF Holds, Slots, OpenOn
    <3>4. CASE x \in Threads /\ x = o
      <4>1. refs'[o] = refs[o] \cup UNION {refs[u] : u \in D}
        BY <3>1, <3>4, <2>1
      <4>2. \A u \in Upvals : open'[u] = o <=> open[u] = o /\ u \notin D
        BY <3>1, <3>4, <2>1, <2>2, <2>3, KindsDisjoint
      <4>3. \A u \in Upvals : open[u] = o /\ u \notin D => refs'[u] = refs[u]
        BY <3>4, <2>1, <2>2, <2>3, KindsDisjoint
      <4>4. \A u \in D : u \in Upvals /\ open[u] = o
        BY <2>2
      <4> QED BY <3>4, <4>1, <4>2, <4>3, <4>4 DEF Holds, Slots, OpenOn
    <3> QED BY <3>2, <3>3, <3>4
  <2> QED BY <2>1, <2>4, <2>5, AliveSame, HeapSame
<1> QED BY <1>1, <1>2

\* A finalizer is called with its userdata on the stack of the running thread.
LEMMA GCTMFinalizes ==
  ASSUME IInv, NEW u \in Userdata, GCTM(u) PROVE AsHeap!Finalize(u)
<1> USE DEF IInv
<1>1. /\ u \in tmudata /\ tmudata' = tmudata \ {u} /\ u \in Obj
      /\ \A x \in Obj : marked'[x] = IF x = u THEN currentwhite ELSE marked[x]
      /\ \A x \in Obj : refs'[x] = IF x = running THEN refs[x] \cup {u} ELSE refs[x]
      /\ UNCHANGED <<currentwhite, open, basicmt, running, finalized>>
  BY KindsDisjoint DEF GCTM, TypeOK
<1>2. Alive(u) /\ running \in Obj /\ running \in Threads /\ Alive(running)
  BY <1>1, KindsDisjoint DEF NoDangling, TypeOK
<1>3. \A x \in Obj : Alive(x)' <=> Alive(x)
  BY <1>1, <1>2, AliveSame
<1>4. Live' = Live /\ Roots' = Roots /\ running \in Roots
  BY <1>1, <1>3 DEF Live, Roots
<1>5. ASSUME NEW x \in Obj
      PROVE  Holds(x)' = IF x = running THEN Holds(x) \cup {u} ELSE Holds(x)
  <2>1. \A y \in Upvals : y \in Obj /\ y # running /\ refs'[y] = refs[y]
    BY <1>1, <1>2, KindsDisjoint
  <2>2. \A t \in Threads : /\ UNION {refs'[y] : y \in OpenOn(t)'} = UNION {refs[y] : y \in OpenOn(t)}
                          /\ t \in Obj
    BY <2>1, <1>1, KindsDisjoint DEF OpenOn
  <2>3. CASE x \in Threads
    BY <2>2, <2>3, <1>1 DEF Holds, Slots
  <2>4. CASE x \notin Threads
    BY <2>4, <1>1, <1>2 DEF Holds
  <2> QED BY <2>3, <2>4
<1>6. Held' = [Held EXCEPT ![running] = @ \cup {u}]
  BY <1>2, <1>3, <1>5 DEF Held
<1> QED BY <1>1, <1>4, <1>6 DEF AsHeap!Finalize, Live, Held

\* What the mutator's actions reach is what the program can name.
LEMMA NamedLocal ==
  ASSUME IInv
  PROVE  /\ \A x \in Local \cup {running} : x \in AsHeap!Named
         /\ \A x \in Local \cup {running} : \A v \in Contents(x) : v \in AsHeap!Named
         /\ \A u \in LocalUpvals : u \in AsHeap!Named \/ u \in OpenOn(running)
<1> USE DEF IInv
<1>1. PICK K : K = AsHeap!Named
  OBVIOUS
<1>2. /\ K \subseteq Obj /\ \A x \in Roots : x \in Obj => x \in K
      /\ \A x \in K : \A v \in Held[x] : v \in Obj => v \in K
  BY <1>1, FromClosed DEF AsHeap!Named
<1>3. \A x \in K : Alive(x) => \A v \in Holds(x) : v \in K /\ Alive(v)
  BY <1>2, HoldsAlive DEF Held
<1>4. running \in K /\ Registry \in K /\ basicmt \subseteq K
  BY <1>2, KindsDisjoint DEF Roots, TypeOK
<1>5. \A x \in Local \cup {running} : x \in K /\ Alive(x)
  <2>1. Holds(running) = Slots(running)
    BY DEF Holds, TypeOK
  <2> QED BY <2>1, <1>3, <1>4, LocalAlive DEF Local
<1>6. ASSUME NEW x \in Local \cup {running}, NEW v \in Contents(x) PROVE v \in K
  <2>1. refs[x] \subseteq Holds(x) /\ (x \in Threads => Slots(x) = Holds(x))
    BY DEF Holds, Slots
  <2>2. CASE v \in Holds(x)
    BY <2>2, <1>3, <1>5
  <2>3. CASE v \notin Holds(x)
    <3>1. PICK u \in refs[x] \cap Upvals : v \in refs[u]
      BY <2>1, <2>3, <1>6 DEF Contents
    <3>2. u \in K /\ Alive(u) /\ Holds(u) = refs[u]
      BY <2>1, <3>1, <1>3, <1>5, KindsDisjoint DEF Holds
    <3> QED BY <3>1, <3>2, <1>3
  <2> QED BY <2>2, <2>3
<1>7. ASSUME NEW u \in LocalUpvals, u \notin OpenOn(running) PROVE u \in K
  <2>1. PICK f \in Local \cap Functions : u \in refs[f]
    BY <1>7 DEF LocalUpvals
  <2>2. f \in K /\ Alive(f) /\ Holds(f) = refs[f]
    BY <2>1, <1>5, KindsDisjoint DEF Holds
  <2> QED BY <2>1, <2>2, <1>3
<1> QED BY <1>1, <1>5, <1>6, <1>7

\* What a step of the program may store: what it can name, makes, revives or finds.
Gained(v) == \/ v \in AsHeap!Named
             \/ ~Alive(v) /\ Alive(v)'
             \/ Alive(v) /\ v \in Strings \cup Upvals

LEMMA ProgramStep ==
  ASSUME IInv, IInv', UNCHANGED tmudata,
         \A x \in Obj : Alive(x) => Alive(x)',
         finalized' \subseteq finalized,
         \A u \in finalized \ finalized' : u \in Obj /\ ~Alive(u) /\ Alive(u)',
         \A r \in Roots' : r \in Roots \/ r \in AsHeap!Named,
         \A x \in Obj : marked[x] # "free" => \A v \in refs'[x] : v \in refs[x] \/ Gained(v),
         \A u \in Upvals : \/ open'[u] = open[u] \/ open'[u] = NoThread
                           \/ \A v \in refs'[u] : Gained(v),
         \A x \in Obj : ~Alive(x) /\ Alive(x)' => \A v \in Holds(x)' : Gained(v)
  PROVE  AsHeap!Program
<1> USE DEF IInv
<1>1. ASSUME NEW o \in Obj, NEW v \in Held'[o] \ Held[o] PROVE v \in Obj /\ Gained(v)
  <2>1. Alive(o)' /\ v \in Holds(o)'
    BY <1>1 DEF Held
  <2>2. v \in Obj
    BY <2>1, HoldsLiveNext DEF HoldsLive
  <2>3. SUFFICES ASSUME Alive(o), v \notin Holds(o) PROVE Gained(v)
    BY <2>1, <2>2, <1>1 DEF Held
  <2>4. CASE v \in refs'[o]
    <3>1. v \notin refs[o]
      BY <2>3 DEF Holds, Slots
    <3> QED BY <3>1, <2>3, <2>4 DEF Alive
  <2>5. CASE v \notin refs'[o]
    <3>1. o \in Threads
      BY <2>1, <2>5 DEF Holds
    <3>2. PICK u \in Upvals : open'[u] = o /\ v \in refs'[u]
      BY <2>1, <2>5, <3>1 DEF Holds, Slots, OpenOn
    <3>3. u \in Obj /\ o # NoThread
      BY KindsDisjoint
    <3>4. CASE open[u] = o
      <4>1. v \notin refs[u]
        BY <2>3, <3>1, <3>4 DEF Holds, Slots, OpenOn
      <4>2. marked[u] # "free"
        BY <3>3, <3>4 DEF Shapes
      <4> QED BY <4>1, <4>2, <3>2, <3>3
    <3> QED BY <3>2, <3>3, <3>4
  <2> QED BY <2>4, <2>5
<1>2. /\ Live \subseteq Live' /\ {MainThread, Registry} \subseteq Roots'
      /\ \A u \in finalized \ finalized' : u \in Live' \ Live
  BY DEF Live, Roots
<1>3. \A v \in Obj : Gained(v) =>
        v \in Live' \ Live \/ (v \in Strings \cup Upvals /\ v \in Live) \/ v \in AsHeap!Named
  BY DEF Gained, Live
<1> QED BY <1>1, <1>2, <1>3 DEF AsHeap!Program, Live, Held

\* Steps that make and revive nothing.
LEMMA StoreStep ==
  ASSUME IInv, IInv', UNCHANGED <<tmudata, finalized>>,
         \A x \in Obj : Alive(x)' <=> Alive(x),
         \A r \in Roots' : r \in Roots \/ r \in AsHeap!Named,
         \A x \in Obj : \A v \in refs'[x] : v \in refs[x] \/ v \in AsHeap!Named,
         \A u \in Upvals : open'[u] = open[u] \/ open'[u] = NoThread
  PROVE  AsHeap!Program
BY ProgramStep DEF Gained

\* A write barrier does not decide what is alive.
LEMMA BarrierUnseen ==
  ASSUME IInv, NEW p \in Obj, NEW v, BarrierForward(p, v) \/ BarrierBack(p, v),
         UNCHANGED collectorState
  PROVE  \A x \in Obj : Alive(x)' <=> Alive(x)
<1> USE DEF IInv, TypeOK
<1>1. isblack(p) => Alive(p)
  BY OtherWhite DEF Alive, isblack, isdead, Whites
<1>2. gcstate = "propagate" => \A x \in Obj : ~isdead(x)
  BY DEF TriColor
<1>3. \A x \in Obj : marked'[x] = marked[x]
                     \/ (Alive(x) /\ marked'[x] \in {currentwhite, "gray", "black"})
  <2>1. CASE BarrierForward(p, v)
    BY <2>1, <1>1, <1>2, MarkAlive DEF BarrierForward
  <2>2. CASE BarrierBack(p, v)
    BY <2>2, <1>1 DEF BarrierBack
  <2> QED BY <2>1, <2>2
<1> QED BY <1>3, AliveSame DEF collectorState

LEMMA LoadProgram ==
  ASSUME IInv, IInv', NEW o \in Obj, NEW v \in Obj,
         Load(o, v) \/ Pop(v) \/ Erase(o, v) \/ SetSlot(o, v) \/ XMove(o, v)
  PROVE  AsHeap!Program
<1>1. \A x \in Obj : Alive(x)' <=> Alive(x)
  BY DEF Load, Pop, Erase, SetSlot, XMove, collectorState, heapState, Alive, isdead, otherwhite
<1>2. \A x \in Obj : \A y \in refs'[x] : y \in refs[x] \/ y \in AsHeap!Named
  <2>1. refs \in [Obj -> SUBSET Obj]
    BY DEF IInv, TypeOK
  <2> QED BY <2>1, NamedLocal DEF Load, Pop, Erase, SetSlot, XMove
<1>3. UNCHANGED <<tmudata, finalized, open, basicmt, running>>
  BY DEF Load, Pop, Erase, SetSlot, XMove, collectorState
<1> QED BY <1>1, <1>2, <1>3, StoreStep DEF Roots

LEMMA BarrierProgram ==
  ASSUME IInv, IInv', NEW o \in Obj, NEW v \in Obj,
         SetTable(o, v) \/ SetObject(o, v) \/ SetUpval(o, v)
  PROVE  AsHeap!Program
<1>1. \A x \in Obj : Alive(x)' <=> Alive(x)
  BY BarrierUnseen DEF SetTable, SetObject, SetUpval
<1>2. \A x \in Obj : \A y \in refs'[x] : y \in refs[x] \/ y \in AsHeap!Named
  <2>1. refs \in [Obj -> SUBSET Obj]
    BY DEF IInv, TypeOK
  <2> QED BY <2>1, NamedLocal DEF SetTable, SetObject, SetUpval
<1>3. UNCHANGED <<tmudata, finalized, open, basicmt, running>>
  BY DEF SetTable, SetObject, SetUpval, collectorState
<1> QED BY <1>1, <1>2, <1>3, StoreStep DEF Roots

LEMMA SwitchProgram ==
  ASSUME IInv, IInv',
         Yield \/ (\E t \in Obj : Resume(t)) \/ \E mt \in SUBSET Tables : SetBasicMetatable(mt)
  PROVE  AsHeap!Program
<1>1. UNCHANGED <<currentwhite, marked, tmudata, finalized, refs, open>>
  BY DEF Yield, Resume, SetBasicMetatable, collectorState, heapState
<1>2. \A x \in Obj : Alive(x)' <=> Alive(x)
  BY <1>1 DEF Alive, isdead, otherwhite
<1>3. \A r \in Roots' : r \in Roots \/ r \in Local
  BY DEF Yield, Resume, SetBasicMetatable, Roots, Local, Slots
<1> QED BY <1>1, <1>2, <1>3, NamedLocal, StoreStep

LEMMA CloseProgram ==
  ASSUME IInv, IInv', NEW u \in Obj, CloseUpval(u) PROVE AsHeap!Program
<1> USE DEF IInv, TypeOK
<1>1. UNCHANGED <<gcstate, currentwhite, tmudata, finalized, basicmt, running>>
  BY DEF CloseUpval, collectorState
<1>2. \A x \in Obj : \A v \in refs'[x] : v \in refs[x]
  BY DEF CloseUpval
<1>3. \A x \in Upvals : open'[x] = open[x] \/ open'[x] = NoThread
  BY KindsDisjoint DEF CloseUpval
<1>4. \A x \in Obj : \/ marked'[x] = marked[x]
                     \/ Alive(x) /\ marked'[x] \in {currentwhite, "gray", "black"}
                     \/ isdead(x) /\ marked'[x] = "free"
  <2>1. CASE isdead(u) \/ ~isgray(u)
    BY <2>1 DEF CloseUpval
  <2>2. CASE isgray(u) /\ ~isdead(u) /\ gcstate # "propagate"
    BY <2>2 DEF CloseUpval, Alive, isgray
  <2>3. CASE isgray(u) /\ ~isdead(u) /\ gcstate = "propagate"
    <3>1. \A x \in Obj : marked'[x] = IF x = u THEN "black" ELSE AfterMark(refs[u])[x]
      BY <2>3, AfterMarkType DEF CloseUpval, Colors
    <3>2. \A x \in Obj : ~isdead(x)
      BY <2>3 DEF TriColor
    <3> QED BY <2>3, <3>1, <3>2, MarkAlive DEF Alive, isgray
  <2> QED BY <2>1, <2>2, <2>3
<1> QED BY <1>1, <1>2, <1>3, <1>4, AliveSame, StoreStep DEF Roots

\* What gets the current white is alive; what does not is as alive as it was.
LEMMA WhiteAlive ==
  ASSUME IInv, UNCHANGED currentwhite, NEW N,
         \A x \in Obj : IF x \in N THEN marked'[x] = currentwhite ELSE marked'[x] = marked[x]
  PROVE  \A x \in Obj : Alive(x)' <=> x \in N \/ Alive(x)
<1>1. \A x : isdead(x)' <=> marked'[x] = otherwhite
  BY DEF isdead, otherwhite
<1>2. otherwhite \in Whites /\ otherwhite # currentwhite /\ currentwhite \in Whites
  BY OtherWhite DEF IInv, TypeOK
<1> QED BY <1>1, <1>2 DEF Alive, isdead, Whites

LEMMA NewProgram ==
  ASSUME IInv, IInv', NEW o \in Obj \ Upvals, NEW c, \A v \in c : v \in AsHeap!Named, New(o, c)
  PROVE  AsHeap!Program
<1> USE DEF IInv, TypeOK
<1>1. /\ Fresh(o) /\ finalized' = finalized \ {o}
      /\ UNCHANGED <<currentwhite, tmudata, open, basicmt, running>>
      /\ \A x \in Obj : marked'[x] = IF x = o THEN currentwhite ELSE marked[x]
  BY DEF New
<1>2. running \in Obj /\ Alive(running) /\ running # o /\ ~Alive(o)
  BY <1>1, KindsDisjoint DEF NoDangling, Alive, Fresh
<1>3. \A x \in Obj : refs'[x] = IF x = running THEN refs[x] \cup {o}
                                ELSE IF x = o THEN c ELSE refs[x]
  BY <1>2 DEF New
<1>4. \A x \in Obj : Alive(x)' <=> x = o \/ Alive(x)
  <2>1. \A x \in Obj : IF x \in {o} THEN marked'[x] = currentwhite ELSE marked'[x] = marked[x]
    BY <1>1
  <2>2. \A x \in Obj : Alive(x)' <=> x \in {o} \/ Alive(x)
    BY <2>1, <1>1, WhiteAlive
  <2> QED BY <2>2
<1>5. Gained(o) /\ \A v \in c : Gained(v)
  BY <1>2, <1>4 DEF Gained
<1>6. \A v \in Holds(o)' : v \in c
  <2>1. \A u \in Upvals : open'[u] # o
    BY <1>1, FreshUnused, KindsDisjoint
  <2> QED BY <2>1, <1>2, <1>3 DEF Holds, Slots, OpenOn
<1> QED BY <1>1, <1>2, <1>3, <1>4, <1>5, <1>6, ProgramStep DEF Roots, Fresh

LEMMA InternProgram ==
  ASSUME IInv, IInv', NEW s \in Obj, InternString(s) PROVE AsHeap!Program
<1> USE DEF IInv, TypeOK
<1>1. /\ s \in Strings /\ ~Fresh(s)
      /\ UNCHANGED <<currentwhite, tmudata, finalized, open, basicmt, running>>
      /\ \A x \in Obj : marked'[x] = IF x = s /\ isdead(s) THEN currentwhite ELSE marked[x]
      /\ \A x \in Obj : refs'[x] = IF x = running THEN refs[x] \cup {s} ELSE refs[x]
  BY DEF InternString, collectorState
<1>2. \A x \in Obj : Alive(x)' <=> Alive(x) \/ (x = s /\ isdead(s))
  <2>1. \A x \in Obj : IF x \in {y \in {s} : isdead(y)} THEN marked'[x] = currentwhite
                       ELSE marked'[x] = marked[x]
    BY <1>1
  <2>2. \A x \in Obj : Alive(x)' <=> x \in {y \in {s} : isdead(y)} \/ Alive(x)
    BY <2>1, <1>1, WhiteAlive
  <2> QED BY <2>2
<1>3. Gained(s)
  BY <1>1, <1>2 DEF Gained, Alive, Fresh
<1>4. s # running /\ s \notin Threads /\ refs'[s] = {}
  BY <1>1, KindsDisjoint DEF Shapes
<1>5. \A v \in Holds(s)' : FALSE
  BY <1>4 DEF Holds
<1> QED BY <1>1, <1>2, <1>3, <1>5, ProgramStep DEF Roots

LEMMA CaptureNewProgram ==
  ASSUME IInv, IInv', NEW f \in Obj, NEW u \in Obj, NEW slot, CaptureNew(f, u, slot)
  PROVE  AsHeap!Program
<1> USE DEF IInv, TypeOK
<1>1. /\ f \in Functions /\ u \in Upvals /\ Fresh(f) /\ Fresh(u) /\ slot \subseteq refs[running]
      /\ UNCHANGED <<currentwhite, tmudata, finalized, basicmt, running>>
  BY DEF CaptureNew, collectorState
<1>2. /\ running \in Obj /\ Alive(running) /\ running # f /\ running # u /\ f # u
      /\ ~Alive(f) /\ ~Alive(u) /\ f \notin Threads /\ u \notin Threads
  BY <1>1, KindsDisjoint DEF NoDangling, Alive, Fresh
<1>3. /\ \A x \in Obj : marked'[x] = IF x \in {f, u} THEN currentwhite ELSE marked[x]
      /\ \A x \in Obj : open'[x] = IF x = u THEN running ELSE open[x]
      /\ \A x \in Obj : x \notin {f, u, running} => refs'[x] = refs[x]
      /\ refs'[f] = {u} /\ refs'[u] = slot
      /\ \A v \in refs'[running] : v = f \/ v \in refs[running]
  BY <1>1, <1>2 DEF CaptureNew
<1>4. \A x \in Obj : Alive(x)' <=> x \in {f, u} \/ Alive(x)
  BY <1>1, <1>3, WhiteAlive
<1>5. Gained(f) /\ Gained(u) /\ \A v \in slot : Gained(v)
  <2>1. \A v \in slot : v \in Local
    BY <1>1 DEF Local, Slots
  <2> QED BY <2>1, <1>2, <1>4, NamedLocal DEF Gained
<1>6. \A x \in {f, u} : \A v \in Holds(x)' : Gained(v)
  BY <1>2, <1>3, <1>5 DEF Holds
<1>7. \A x \in Upvals : open'[x] = open[x] \/ \A v \in refs'[x] : Gained(v)
  BY <1>3, <1>5, KindsDisjoint
<1>8. \A x \in Obj : marked[x] # "free" => \A v \in refs'[x] : v \in refs[x] \/ Gained(v)
  BY <1>1, <1>3, <1>5 DEF Fresh
<1>9. \A x \in Obj : ~Alive(x) /\ Alive(x)' => \A v \in Holds(x)' : Gained(v)
  BY <1>4, <1>6
<1> QED BY <1>1, <1>4, <1>7, <1>8, <1>9, ProgramStep DEF Roots

\* An upvalue of the running stack that the sweep has not reached yet is revived with
\* the value it holds, which is on that stack.
LEMMA CaptureSharedProgram ==
  ASSUME IInv, IInv', NEW f \in Obj, NEW u \in Obj, CaptureShared(f, u) PROVE AsHeap!Program
<1> USE DEF IInv, TypeOK
<1>1. /\ f \in Functions /\ Fresh(f) /\ u \in LocalUpvals
      /\ UNCHANGED <<currentwhite, tmudata, finalized, open, basicmt, running>>
  BY DEF CaptureShared, collectorState
<1>2. /\ u \in Upvals /\ u \notin Threads /\ u # f /\ u # running /\ (Alive(u) \/ open[u] = running)
      /\ running \in Obj /\ Alive(running) /\ running # f /\ ~Alive(f) /\ f \notin Threads
  BY <1>1, LocalAlive, KindsDisjoint DEF NoDangling, Alive, Fresh
<1>3. /\ \A x \in Obj : marked'[x] = IF x = f \/ (x = u /\ isdead(u)) THEN currentwhite
                                     ELSE marked[x]
      /\ \A x \in Obj : x \notin {f, running} => refs'[x] = refs[x]
      /\ refs'[f] = {u} /\ refs'[running] = refs[running] \cup {f}
  BY <1>1, <1>2 DEF CaptureShared
<1>4. \A x \in Obj : Alive(x)' <=> x = f \/ (x = u /\ isdead(u)) \/ Alive(x)
  <2>1. \A x \in Obj : IF x \in {y \in {f, u} : y = f \/ isdead(u)} THEN marked'[x] = currentwhite
                       ELSE marked'[x] = marked[x]
    BY <1>3
  <2>2. \A x \in Obj : Alive(x)' <=> x \in {y \in {f, u} : y = f \/ isdead(u)} \/ Alive(x)
    BY <2>1, <1>1, WhiteAlive
  <2> QED BY <2>2
<1>5. Gained(f) /\ Gained(u)
  <2>1. marked[u] # "free"
    BY <1>2, KindsDisjoint DEF Shapes, Alive
  <2>2. Alive(u) \/ isdead(u)
    BY <2>1 DEF Alive
  <2> QED BY <2>2, <1>2, <1>4 DEF Gained, Alive
<1>6. ~Alive(u) => \A v \in Holds(u)' : Gained(v)
  <2>1. Holds(u)' = refs[u]
    BY <1>2, <1>3 DEF Holds
  <2>2. open[u] = running => \A v \in refs[u] : v \in Local
    BY <1>2 DEF Local, Slots, OpenOn
  <2> QED BY <2>1, <2>2, <1>2, NamedLocal DEF Gained
<1>7. \A v \in Holds(f)' : Gained(v)
  BY <1>2, <1>3, <1>5 DEF Holds
<1>8. \A x \in Obj : marked[x] # "free" => \A v \in refs'[x] : v \in refs[x] \/ Gained(v)
  BY <1>1, <1>3, <1>5 DEF Fresh
<1>9. \A x \in Obj : ~Alive(x) /\ Alive(x)' => \A v \in Holds(x)' : Gained(v)
  BY <1>4, <1>6, <1>7
<1> QED BY <1>1, <1>4, <1>8, <1>9, ProgramStep DEF Roots

LEMMA MutatorProgram == ASSUME IInv, IInv', Mutator PROVE AsHeap!Program
<1>1. ASSUME NEW o \in Obj, NEW v \in Obj,
             Load(o, v) \/ PushCClosure(o, v) \/ SetTable(o, v) \/ SetObject(o, v)
               \/ Erase(o, v) \/ SetUpval(o, v) \/ SetSlot(o, v) \/ XMove(o, v)
               \/ CaptureShared(o, v)
      PROVE  AsHeap!Program
  <2>1. ASSUME PushCClosure(o, v) PROVE AsHeap!Program
    <3>1. o \in Obj \ Upvals /\ v \in Local /\ New(o, {v})
      BY <2>1, KindsDisjoint DEF PushCClosure
    <3>2. \A y \in {v} : y \in AsHeap!Named
      BY <3>1, NamedLocal
    <3> QED BY <3>1, <3>2, NewProgram
  <2> QED BY <1>1, <2>1, LoadProgram, BarrierProgram, CaptureSharedProgram
<1>2. ASSUME NEW o \in Obj,
             Pop(o) \/ Create(o) \/ InternString(o) \/ CloseUpval(o) \/ Resume(o)
      PROVE  AsHeap!Program
  <2>1. Create(o) => o \in Obj \ Upvals /\ New(o, {}) /\ \A y \in {} : y \in AsHeap!Named
    BY DEF Create
  <2> QED BY <1>2, <2>1, LoadProgram, NewProgram, InternProgram, CloseProgram, SwitchProgram
<1>3. ASSUME NEW f \in Obj, NEW u \in Obj, NEW slot, CaptureNew(f, u, slot)
      PROVE  AsHeap!Program
  BY <1>3, CaptureNewProgram
<1>4. ASSUME Yield \/ \E mt \in SUBSET Tables : SetBasicMetatable(mt)
      PROVE  AsHeap!Program
  BY <1>4, SwitchProgram
<1> QED BY <1>1, <1>2, <1>3, <1>4 DEF Mutator

\* Every step of the collector and of the program is one of a heap that is collected at
\* once, or is not seen: `atomic' collects, GCTM finalizes, the rest of singlestep and of
\* luaC_fullgc is not seen, and the program only meets what is alive.
THEOREM IncrementalCollector == Spec => CollectsAtOnce
<1>1. Init => AsHeap!HeapInit
  <2> SUFFICES ASSUME Init PROVE AsHeap!HeapInit
    OBVIOUS
  <2>1. \A o \in Obj : Alive(o) <=> o \in {MainThread, Registry}
    BY DEF Init, Alive, isdead, otherwhite
  <2>2. \A o \in Obj : Holds(o) = {}
    BY KindsDisjoint DEF Init, Holds, Slots, OpenOn
  <2> QED BY <2>1, <2>2, KindsDisjoint DEF AsHeap!HeapInit, Init, Roots
<1>2. Init => IInv /\ DeadFinalized
  <2>1. ASSUME Init PROVE DeadFinalized
    BY <2>1, KindsDisjoint DEF Init, DeadFinalized, isdead, otherwhite
  <2> QED BY <2>1, InitInv
<1>3. IInv /\ DeadFinalized /\ [Next]_vars => (IInv /\ DeadFinalized)'
  BY StepKeepsInv, DeadFinalizedStep
<1>4. ASSUME IInv, DeadFinalized, [Next]_vars PROVE [AsHeap!HeapNext]_(AsHeap!heapVars)
  <2>1. IInv' /\ DeadFinalized'
    BY <1>3, <1>4
  <2>2. CASE UNCHANGED vars
    <3>1. \A x \in Obj : Alive(x)' <=> Alive(x)
      BY <2>2 DEF vars, Alive, isdead, otherwhite
    <3> QED BY <2>2, <3>1, HoldsSame, HeapSame DEF vars
  <2>3. CASE FinalizeEnd \/ FullGC
    <3>1. \A x \in Obj : Alive(x)' <=> Alive(x)
      BY <2>3 DEF FinalizeEnd, FullGC, Alive, isdead, otherwhite
    <3> QED BY <2>3, <3>1, HoldsSame, HeapSame DEF FinalizeEnd, FullGC
  <2>4. CASE SingleStep
    <3>1. ASSUME NEW u \in Userdata, GCTM(u) PROVE AsHeap!HeapNext
      BY <1>4, <3>1, GCTMFinalizes DEF AsHeap!HeapNext
    <3>2. Atomic => AsHeap!HeapNext
      BY <1>4, <2>1, AtomicCollects DEF AsHeap!HeapNext
    <3> QED BY <2>4, <3>1, <3>2, <2>3, <1>4, MarkUnseen, SweepUnseen DEF SingleStep
  <2>5. CASE Mutator
    BY <2>5, <2>1, <1>4, MutatorProgram DEF AsHeap!HeapNext
  <2> QED BY <1>4, <2>2, <2>3, <2>4, <2>5 DEF Next
<1> QED BY <1>1, <1>2, <1>3, <1>4, PTL DEF Spec, CollectsAtOnce, AsHeap!HeapSpec

=============================================================================
