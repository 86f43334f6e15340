-------------------------------- MODULE LuaGC --------------------------------
(***************************************************************************)
(* The incremental mark-and-sweep collector of the embedded Lua 5.1        *)
(* (src/Lua-x/lua-5.1.5/src/lgc.c), the upvalue life cycle of lfunc.c and  *)
(* the write barriers the API and the virtual machine call, interleaved    *)
(* with an arbitrary Lua program (the mutator).                            *)
(*                                                                         *)
(* An object is a model value with a fixed kind.  "function" stands for    *)
(* closures and prototypes, "weakvalue" and "weakkey" for tables whose     *)
(* metatable has that __mode and whose entries hold one collectable        *)
(* component each.  refs[o] is what o contains: the contents of a table,   *)
(* the metatable and environment of a userdata, the upvalues and constants *)
(* of a function, the stack of a thread except the slots captured by open  *)
(* upvalues, and the value of an upvalue (for an open one, the captured    *)
(* slot of the thread open[o]).  The order of the collector's lists is     *)
(* abstracted: a step may take any member.                                 *)
(***************************************************************************)
EXTENDS FiniteSets, Integers

CONSTANTS
  Obj,          \* identities of collectable objects
  Kind,         \* the type tag of each object
  Finalizable,  \* the userdata whose metatable has a __gc method
  MainThread,   \* g->mainthread
  Registry,     \* a permanent root table: the registry and the globals
  NoThread,     \* "closed": not the thread of an open upvalue
  MaxStack,     \* bound: references on one stack
  MaxRefs,      \* bound: references kept in any other object
  Stored,       \* bound: the objects the program copies to other places
  BasicTables   \* bound: the tables it uses as metatables of basic types

Kinds == {"table", "weakvalue", "weakkey", "function", "userdata", "upval",
          "thread", "string"}

ASSUME GCAssumption ==
  /\ Kind \in [Obj -> Kinds]
  /\ MainThread \in Obj /\ Kind[MainThread] = "thread"
  /\ Registry \in Obj /\ Kind[Registry] = "table"
  /\ Finalizable \subseteq {o \in Obj : Kind[o] = "userdata"}
  /\ NoThread \notin Obj
  /\ MaxStack \in Nat /\ MaxRefs \in Nat /\ Stored \subseteq Obj /\ BasicTables \subseteq Obj

VARIABLES
  gcstate,       \* g->gcstate
  currentwhite,  \* the white of new and surviving objects
  marked,        \* the colour of each object, or "free"
  refs,          \* the objects each object refers to
  open,          \* the thread on whose stack an open upvalue lives
  gray,          \* g->gray
  grayagain,     \* g->grayagain, as far as `atomic' will read it
  tosweep,       \* objects the sweep has not reached yet
  tmudata,       \* g->tmudata: userdata waiting for their __gc call
  finalized,     \* userdata with FINALIZEDBIT set
  basicmt,       \* g->mt: metatables of the basic types
  running,       \* the thread whose code executes
  full           \* how far a luaC_fullgc on the C stack has come

vars == <<gcstate, currentwhite, marked, refs, open, gray, grayagain, tosweep,
          tmudata, finalized, basicmt, running, full>>

-----------------------------------------------------------------------------
(* Colours and kinds.                                                       *)

Whites     == {"white0", "white1"}
Weak       == {o \in Obj : Kind[o] \in {"weakvalue", "weakkey"}}
Tables     == {o \in Obj : Kind[o] = "table"} \cup Weak
Threads    == {o \in Obj : Kind[o] = "thread"}
Upvals     == {o \in Obj : Kind[o] = "upval"}
Strings    == {o \in Obj : Kind[o] = "string"}
Functions  == {o \in Obj : Kind[o] = "function"}
Userdata   == {o \in Obj : Kind[o] = "userdata"}
Values     == Obj \ Upvals        \* what a stack slot or a field can hold
Listed     == Tables \cup Threads \cup Functions  \* traversed from g->gray

otherwhite == IF currentwhite = "white0" THEN "white1" ELSE "white0"
iswhite(o) == marked[o] \in Whites
isblack(o) == marked[o] = "black"
isgray(o)  == marked[o] = "gray"
isdead(o)  == marked[o] = otherwhite
Allocated  == {o \in Obj : marked[o] # "free"}
Alive(o)   == marked[o] # "free" /\ ~isdead(o)

OpenOn(t) == {u \in Upvals : open[u] = t}
Slots(t)  == refs[t] \cup UNION {refs[u] : u \in OpenOn(t)}

\* What traversing an object marks; the entries of weak tables are not marked.
Strong(o) == IF o \in Weak THEN {}
             ELSE IF o \in Threads THEN Slots(o)
             ELSE refs[o]

-----------------------------------------------------------------------------
(* Marking.                                                                 *)

\* Mutant: every upvalue turns black when it is marked, an open one too.
FirstColorOpenBlack(o) == IF o \in Userdata \cup Upvals THEN "black" ELSE "gray"

\* The colour reallymarkobject gives, and the one left once it is traversed.
FirstColor(o) == IF o \in Userdata \/ (o \in Upvals /\ open[o] = NoThread)
                 THEN "black" ELSE "gray"
FinalColor(o) == IF o \in Strings \cup Threads \cup Weak
                      \/ (o \in Upvals /\ open[o] # NoThread)
                 THEN "gray" ELSE "black"

\* The white objects reallymarkobject colours when it is called on the white
\* ones of S: it goes through an upvalue to its value and through a userdata
\* to its metatable and environment, everything else waits in g->gray.
WhiteOf(S) == {o \in S : iswhite(o)}
Touched(S) ==
  LET direct   == WhiteOf(S)
      captured == WhiteOf(UNION {refs[u] : u \in direct \cap Upvals})
      values   == direct \cup captured
  IN  values \cup WhiteOf(UNION {refs[u] : u \in values \cap Userdata})

AfterMark(S) ==
  [o \in Obj |-> IF o \in Touched(S) THEN FirstColor(o) ELSE marked[o]]

\* The least subset of W that holds the members of S in W and is closed under
\* the strong references that stay inside W: what propagateall marks.
ClosedIn(W, S, T) == S \cap W \subseteq T /\ \A x \in T : Strong(x) \cap W \subseteq T
Reach(W, S) == {o \in W : \A T \in SUBSET W : ClosedIn(W, S, T) => o \in T}

-----------------------------------------------------------------------------
(* Write barriers.                                                          *)

\* luaC_barrier: object p, not a table, is about to point to v.
BarrierForward(p, v) ==
  /\ IF iswhite(v) /\ isblack(p)
     THEN IF gcstate = "propagate"
          THEN /\ marked' = AfterMark({v})
               /\ gray' = gray \cup (Touched({v}) \cap Listed)
          ELSE /\ marked' = [marked EXCEPT ![p] = currentwhite]
               /\ gray' = gray
     ELSE UNCHANGED <<marked, gray>>
  /\ UNCHANGED grayagain

\* Mutants: the table turns gray but is on no list; it goes back to the list that
\* is being traversed.
BarrierBackLost(t, v) ==
  /\ marked' = IF iswhite(v) /\ isblack(t) THEN [marked EXCEPT ![t] = "gray"] ELSE marked
  /\ UNCHANGED <<gray, grayagain>>
BarrierBackToGray(t, v) ==
  /\ IF iswhite(v) /\ isblack(t)
     THEN /\ marked' = [marked EXCEPT ![t] = "gray"]
          /\ gray' = IF gcstate = "propagate" THEN gray \cup {t} ELSE gray
     ELSE UNCHANGED <<marked, gray>>
  /\ UNCHANGED grayagain

\* luaC_barriert: table t is about to point to v.  Outside the mark phase the
\* list is garbage: markroot empties it before anything reads it.
BarrierBack(t, v) ==
  /\ IF iswhite(v) /\ isblack(t)
     THEN /\ marked' = [marked EXCEPT ![t] = "gray"]
          /\ grayagain' = IF gcstate = "propagate" THEN grayagain \cup {t}
                          ELSE grayagain
     ELSE UNCHANGED <<marked, grayagain>>
  /\ UNCHANGED gray

-----------------------------------------------------------------------------
(* The collector: one action per case of singlestep.                        *)

\* GCSpause, and the second half of luaC_fullgc: markroot.
MarkRoot ==
  LET roots == {MainThread, Registry} \cup basicmt IN
  /\ \/ gcstate = "pause" /\ full = "no" /\ full' = "no"
     \/ gcstate = "finalize" /\ full = "sweeping" /\ full' = "marking"
  /\ marked' = AfterMark(roots)
  /\ gray' = Touched(roots) \cap Listed
  /\ grayagain' = {}
  /\ gcstate' = "propagate"
  /\ UNCHANGED <<currentwhite, refs, open, tosweep, tmudata, finalized, basicmt,
                 running>>

\* GCSpropagate with work left: traverse one gray object.
PropagateMark(o) ==
  /\ gcstate = "propagate" /\ o \in gray
  /\ marked' = [AfterMark(Strong(o)) EXCEPT ![o] = FinalColor(o)]
  /\ gray' = (gray \ {o}) \cup (Touched(Strong(o)) \cap Listed)
  /\ grayagain' = IF o \in Threads THEN grayagain \cup {o} ELSE grayagain
  /\ UNCHANGED <<gcstate, currentwhite, refs, open, tosweep, tmudata, finalized,
                 basicmt, running, full>>

\* Mutant: remarkupvals is left out.
RemarkedNoUpvals ==
  Reach(WhiteOf(Obj), {running} \cup basicmt \cup UNION {Strong(x) : x \in grayagain})

\* What `atomic' marks before it looks for userdata to finalize: through the
\* gray open upvalues, the running thread, the basic metatables, grayagain.
Remarked ==
  LET fromUpvals == UNION {refs[u] : u \in {x \in Upvals : open[x] # NoThread /\ isgray(x)}}
      fromAgain  == UNION {Strong(x) : x \in grayagain}
  IN  Reach(WhiteOf(Obj), fromUpvals \cup {running} \cup basicmt \cup fromAgain)

\* luaC_separateudata(L, 0), after `Remarked' left these userdata white.
Separated == {u \in Userdata : iswhite(u) /\ u \notin Remarked /\ u \notin finalized}

\* Mutants: a userdata still pending is lost when the next cycle finds others; a
\* userdata without a __gc method is queued too.
PendingForgets == IF Separated \cap Finalizable = {} THEN tmudata
                  ELSE Separated \cap Finalizable
PendingAll     == tmudata \cup Separated

Pending   == tmudata \cup (Separated \cap Finalizable)

\* Mutant: every userdata ever finalized is marked again.
PreservedAll ==
  Reach((WhiteOf(Obj) \ Remarked) \cup Pending, Pending \cup finalized)

\* marktmu whitens every pending userdata and marks it again, and propagateall
\* marks what those userdata refer to.
Preserved == Reach((WhiteOf(Obj) \ Remarked) \cup Pending, Pending)

\* Mutants: dead objects stay; the FINALIZEDBIT is not looked at.
ClearedDeadStay(t, white, done) ==
  {v \in refs[t] \ Strings : Kind[t] = "weakvalue" /\ v \in done}
ClearedAnyUserdata(t, white, done) ==
  {v \in refs[t] \ Strings : v \in white \/ (Kind[t] = "weakvalue" /\ v \in Userdata)}

\* iscleared: the entries cleartable drops from a weak table, given the
\* objects still white and the userdata already separated.
Cleared(t, white, done) ==
  {v \in refs[t] \ Strings :
     v \in white \/ (Kind[t] = "weakvalue" /\ v \in done)}

\* GCSpropagate with no gray object left: atomic.
Atomic ==
  LET reached == Remarked \cup Preserved
      white   == WhiteOf(Obj) \ reached
      done    == finalized \cup Separated
      weak    == {t \in Weak : t \in reached \/ isgray(t)}
      kept    == white \cap Strings \cap UNION {refs[t] : t \in weak}
  IN
  /\ gcstate = "propagate" /\ gray = {}
  /\ marked' = [o \in Obj |-> IF o \in reached \cup kept \cup grayagain
                              THEN FinalColor(o)
                              ELSE marked[o]]
  /\ refs' = [o \in Obj |-> IF o \in weak THEN refs[o] \ Cleared(o, white, done)
                            ELSE refs[o]]
  /\ tmudata' = Pending
  /\ finalized' = done
  /\ currentwhite' = otherwhite
  /\ tosweep' = {o \in Allocated : open[o] = NoThread /\ o \notin Pending}
  /\ grayagain' = {}
  /\ gcstate' = "sweepstring"
  /\ UNCHANGED <<open, gray, basicmt, running, full>>

\* GCSsweepstring: one bucket of the string table.
SweepString(bucket) ==
  LET dead == {s \in bucket : isdead(s)}
      left == (tosweep \cap Strings) \ bucket
  IN
  /\ gcstate = "sweepstring"
  /\ bucket \subseteq tosweep \cap Strings
  /\ bucket = {} => left = {}
  /\ marked' = [o \in Obj |-> IF o \in dead THEN "free"
                              ELSE IF o \in bucket THEN currentwhite
                              ELSE marked[o]]
  /\ tosweep' = tosweep \ bucket
  /\ gcstate' = IF left = {} THEN "sweep" ELSE "sweepstring"
  /\ UNCHANGED <<currentwhite, refs, open, gray, grayagain, tmudata, finalized,
                 basicmt, running, full>>

\* GCSsweep: one object of the root list.  A thread's open upvalues are swept
\* first: a dead one leaves its slot to the stack, and the live ones of a dead
\* thread are closed (luaE_freethread).
Sweep(o) ==
  LET deadUpvals == {u \in OpenOn(o) : isdead(u)}
      freed      == deadUpvals \cup (IF isdead(o) THEN {o} ELSE {})
      swept      == OpenOn(o) \cup {o}
      slots      == UNION {refs[u] : u \in deadUpvals}
      last       == tosweep = {o}
  IN
  /\ gcstate = "sweep" /\ o \in tosweep
  /\ marked' = [x \in Obj |-> IF x \in freed THEN "free"
                              ELSE IF x \in swept THEN currentwhite
                              ELSE marked[x]]
  /\ refs' = [x \in Obj |-> IF x \in freed THEN {}
                            ELSE IF x = o THEN refs[o] \cup slots
                            ELSE refs[x]]
  /\ open' = [x \in Obj |-> IF x \in freed \/ (isdead(o) /\ open[x] = o) THEN NoThread
                            ELSE open[x]]
  /\ tosweep' = tosweep \ {o}
  /\ gcstate' = IF last THEN "finalize" ELSE "sweep"
  /\ UNCHANGED <<currentwhite, gray, grayagain, tmudata, finalized, basicmt, running,
                 full>>

\* GCSfinalize: call one __gc method.  The userdata goes back to the root list
\* and is the method's argument; its body is mutator actions, which may collect
\* themselves, so what is left of a full collection is not told apart from then
\* on from an incremental cycle.
GCTM(u) ==
  /\ gcstate = "finalize" /\ full # "sweeping" /\ u \in tmudata
  /\ tmudata' = tmudata \ {u}
  /\ marked' = [marked EXCEPT ![u] = currentwhite]
  /\ refs' = [refs EXCEPT ![running] = @ \cup {u}]
  /\ full' = "no"
  /\ UNCHANGED <<gcstate, currentwhite, open, gray, grayagain, tosweep, finalized,
                 basicmt, running>>

\* Mutant: the cycle may end before every finalizer has run.
FinalizeEndEarly ==
  /\ gcstate = "finalize" /\ full # "sweeping"
  /\ gcstate' = "pause" /\ full' = "no"
  /\ UNCHANGED <<currentwhite, marked, refs, open, gray, grayagain, tosweep,
                 tmudata, finalized, basicmt, running>>

\* GCSfinalize with no userdata left: the cycle ends.
FinalizeEnd ==
  /\ gcstate = "finalize" /\ full # "sweeping" /\ tmudata = {}
  /\ gcstate' = "pause"
  /\ full' = "no"
  /\ UNCHANGED <<currentwhite, marked, refs, open, gray, grayagain, tosweep,
                 tmudata, finalized, basicmt, running>>

\* Mutant: a full collection only completes the cycle under way.
FullGCOneCycle ==
  /\ full = "no" /\ full' = "marking"
  /\ UNCHANGED <<gcstate, currentwhite, marked, refs, open, gray, grayagain, tosweep,
                 tmudata, finalized, basicmt, running>>

\* luaC_fullgc: a mark phase under way is given up, a sweep is completed, then
\* a whole cycle runs, without any Lua code before the first finalizer.
FullGC ==
  /\ full = "no" /\ full' = "sweeping"
  /\ IF gcstate \in {"pause", "propagate"}
     THEN /\ gcstate' = "sweepstring"
          /\ gray' = {} /\ grayagain' = {}
          /\ tosweep' = {o \in Allocated : open[o] = NoThread}
     ELSE UNCHANGED <<gcstate, gray, grayagain, tosweep>>
  /\ UNCHANGED <<currentwhite, marked, refs, open, tmudata, finalized, basicmt, running>>

-----------------------------------------------------------------------------
(* The mutator.  Its code runs on the stack of `running' and reaches the    *)
(* registry, the globals and the metatables of the basic types.             *)

MutatorRuns == full = "no"
Local       == Slots(running) \cup {Registry} \cup basicmt
LocalUpvals == OpenOn(running)
               \cup (Upvals \cap UNION {refs[f] : f \in Local \cap Functions})
Contents(o) == (IF o \in Threads THEN Slots(o) ELSE refs[o] \ Upvals)
               \cup UNION {refs[u] : u \in refs[o] \cap Upvals}
Room(o)     == Cardinality(refs[o]) < IF o \in Threads THEN MaxStack ELSE MaxRefs
Fresh(o)    == marked[o] = "free"

collectorState == <<gcstate, currentwhite, tosweep, tmudata, finalized, full>>
heapState      == <<marked, gray, grayagain>>

\* lua_gettable, lua_rawget, OP_GETUPVAL, lua_xmove from another stack, ...:
\* a value is copied to the stack.
Load(o, v) ==
  /\ MutatorRuns /\ o \in Local \cup {running} 
  /\ v \in (Contents(o) \cap Stored) \ refs[running] /\ Room(running)
  /\ refs' = [refs EXCEPT ![running] = @ \cup {v}]
  /\ UNCHANGED <<collectorState, heapState, open, basicmt, running>>

\* A slot of the running stack dies or is overwritten.  Slots that hold a
\* coroutine stay while it runs: their owner does not.
Pop(v) ==
  /\ MutatorRuns /\ v \in refs[running]
  /\ refs' = [refs EXCEPT ![running] = @ \ {v}]
  /\ UNCHANGED <<collectorState, heapState, open, basicmt, running>>

\* luaH_new, luaS_newudata, luaE_newthread, luaF_new*closure without upvalues,
\* luaS_newlstr of a new string: white, whatever the state of the collector.
New(o, contents) ==
  /\ MutatorRuns /\ Fresh(o) /\ Room(running)
  /\ marked' = [marked EXCEPT ![o] = currentwhite]
  /\ refs' = [refs EXCEPT ![o] = contents, ![running] = @ \cup {o}]
  /\ finalized' = finalized \ {o}
  /\ UNCHANGED <<gcstate, currentwhite, open, gray, grayagain, tosweep, tmudata,
                 basicmt, running, full>>

Create(o) == o \notin Upvals /\ New(o, {})

\* lua_pushcclosure: the upvalues of a C function are values.
PushCClosure(f, v) == f \in Functions /\ v \in Local \cap Stored /\ New(f, {v})

\* luaS_newlstr of a string that exists, perhaps dead but not yet swept.
InternString(s) ==
  /\ MutatorRuns /\ s \in Strings \ refs[running] /\ ~Fresh(s) /\ Room(running)
  /\ marked' = IF isdead(s) THEN [marked EXCEPT ![s] = currentwhite] ELSE marked
  /\ refs' = [refs EXCEPT ![running] = @ \cup {s}]
  /\ UNCHANGED <<collectorState, gray, grayagain, open, basicmt, running>>

\* OP_CLOSURE with a new upvalue for a live slot (luaF_findupval): the slot moves
\* from refs[running] to refs[u]; it holds nil or a value.
CaptureNew(f, u, slot) ==
  /\ MutatorRuns /\ f \in Functions /\ u \in Upvals /\ Fresh(f) /\ Fresh(u)
  /\ slot \subseteq refs[running] \cap Stored /\ Cardinality(slot) <= 1
  /\ slot = {} => Room(running)
  /\ marked' = [marked EXCEPT ![f] = currentwhite, ![u] = currentwhite]
  /\ refs' = [refs EXCEPT ![f] = {u}, ![u] = slot, ![running] = (@ \ slot) \cup {f}]
  /\ open' = [open EXCEPT ![u] = running]
  /\ UNCHANGED <<collectorState, gray, grayagain, basicmt, running>>

\* Mutant: an upvalue that the sweep under way will free is handed out as it is.
CaptureSharedUnrevived(f, u) ==
  /\ MutatorRuns /\ f \in Functions /\ Fresh(f) /\ u \in LocalUpvals /\ Room(running)
  /\ marked' = [marked EXCEPT ![f] = currentwhite]
  /\ refs' = [refs EXCEPT ![f] = {u}, ![running] = @ \cup {f}]
  /\ UNCHANGED <<collectorState, gray, grayagain, open, basicmt, running>>

\* OP_CLOSURE with an upvalue some closure already has: an open one of this
\* stack, which luaF_findupval revives when it is dead, or one of the closure
\* that executes.
CaptureShared(f, u) ==
  /\ MutatorRuns /\ f \in Functions /\ Fresh(f) /\ u \in LocalUpvals /\ Room(running)
  /\ marked' = [marked EXCEPT ![f] = currentwhite,
                              ![u] = IF isdead(u) THEN currentwhite ELSE @]
  /\ refs' = [refs EXCEPT ![f] = {u}, ![running] = @ \cup {f}]
  /\ UNCHANGED <<collectorState, gray, grayagain, open, basicmt, running>>

\* luaV_settable, lua_rawset, lua_setmetatable on a table: entry, then barrier.
SetTable(t, v) ==
  /\ MutatorRuns /\ t \in Local \cap Tables /\ v \in (Local \cap Stored) \ refs[t] /\ Room(t)
  /\ refs' = [refs EXCEPT ![t] = @ \cup {v}]
  /\ BarrierBack(t, v)
  /\ UNCHANGED <<collectorState, open, basicmt, running>>

\* lua_setmetatable and lua_setfenv on a userdata, lua_setfenv and lua_setupvalue
\* on a function: assignment, then luaC_objbarrier or luaC_barrier.
SetObject(o, v) ==
  /\ MutatorRuns /\ o \in Local \cap (Userdata \cup Functions) /\ Room(o)
  /\ v \in (IF o \in Userdata THEN Local \cap Tables ELSE Local) \cap Stored
  /\ v \notin refs[o]
  /\ refs' = [refs EXCEPT ![o] = @ \cup {v}]
  /\ BarrierForward(o, v)
  /\ UNCHANGED <<collectorState, open, basicmt, running>>

\* A field of a table, userdata or C function, or a captured variable, becomes
\* nil or is overwritten.
Erase(o, v) ==
  /\ MutatorRuns
  /\ o \in (Local \cap (Tables \cup Userdata \cup Functions)) \cup LocalUpvals
  /\ v \in refs[o] \ Upvals
  /\ refs' = [refs EXCEPT ![o] = @ \ {v}]
  /\ UNCHANGED <<collectorState, heapState, open, basicmt, running>>

\* An assignment to a captured local of the running stack: a plain OP_MOVE.
SetSlot(u, v) ==
  /\ MutatorRuns /\ u \in OpenOn(running) /\ v \in (Local \cap Stored) \ refs[u]
  /\ refs' = [refs EXCEPT ![u] = {v}]
  /\ UNCHANGED <<collectorState, heapState, open, basicmt, running>>

\* OP_SETUPVAL.
SetUpval(u, v) ==
  /\ MutatorRuns /\ \E f \in Local \cap Functions : u \in refs[f] \cap Upvals
  /\ v \in (Local \cap Stored) \ refs[u]
  /\ refs' = [refs EXCEPT ![u] = {v}]
  /\ BarrierForward(u, v)
  /\ UNCHANGED <<collectorState, open, basicmt, running>>

\* One turn of the loop of luaF_close: a captured slot of the running stack
\* goes away.  luaC_linkupval gives a gray upvalue the colour of a closed one.
CloseUpval(u) ==
  /\ MutatorRuns /\ u \in OpenOn(running)
  /\ open' = [open EXCEPT ![u] = NoThread]
  /\ IF isdead(u)
     THEN /\ marked' = [marked EXCEPT ![u] = "free"]
          /\ refs' = [refs EXCEPT ![u] = {}]
          /\ gray' = gray
     ELSE /\ refs' = refs
          /\ IF ~isgray(u) THEN UNCHANGED <<marked, gray>>
             ELSE IF gcstate = "propagate"
             THEN /\ marked' = [AfterMark(refs[u]) EXCEPT ![u] = "black"]
                  /\ gray' = gray \cup (Touched(refs[u]) \cap Listed)
             ELSE marked' = [marked EXCEPT ![u] = currentwhite] /\ gray' = gray
  /\ UNCHANGED <<collectorState, grayagain, basicmt, running>>

\* lua_xmove to the stack of a coroutine, as lua_resume's caller does.
XMove(t, v) ==
  /\ MutatorRuns /\ t \in (Local \cap Threads) \ {running}
  /\ v \in (Local \cap Stored) \ refs[t] /\ Room(t)
  /\ refs' = [refs EXCEPT ![t] = @ \cup {v}]
  /\ UNCHANGED <<collectorState, heapState, open, basicmt, running>>

\* lua_resume; one level of coroutines.
Resume(t) ==
  /\ MutatorRuns /\ running = MainThread
  /\ t \in (refs[running] \cap Threads) \ {running}
  /\ running' = t
  /\ UNCHANGED <<collectorState, heapState, refs, open, basicmt>>

\* lua_yield, a return or an error: back to the resumer, with a result or none.
Yield ==
  /\ MutatorRuns /\ running # MainThread
  /\ running' = MainThread
  /\ UNCHANGED <<collectorState, heapState, refs, open, basicmt>>

\* lua_setmetatable on a value of a basic type: no barrier.
SetBasicMetatable(mt) ==
  /\ MutatorRuns /\ mt \subseteq Local \cap Tables \cap BasicTables
  /\ Cardinality(mt) <= 1
  /\ mt # basicmt
  /\ basicmt' = mt
  /\ UNCHANGED <<collectorState, heapState, refs, open, running>>

-----------------------------------------------------------------------------

Init ==
  /\ gcstate = "pause" /\ currentwhite = "white0"
  /\ marked = [o \in Obj |-> IF o \in {MainThread, Registry} THEN "white0" ELSE "free"]
  /\ refs = [o \in Obj |-> {}]
  /\ open = [o \in Obj |-> NoThread]
  /\ gray = {} /\ grayagain = {} /\ tosweep = {}
  /\ tmudata = {} /\ finalized = {} /\ basicmt = {}
  /\ running = MainThread /\ full = "no"

SingleStep ==
  \/ MarkRoot
  \/ \E o \in Listed : PropagateMark(o)
  \/ Atomic
  \/ \E bucket \in SUBSET Strings : SweepString(bucket)
  \/ \E o \in Obj : Sweep(o)
  \/ \E u \in Userdata : GCTM(u)
  \/ FinalizeEnd

Mutator ==
  \/ \E o, v \in Obj : Load(o, v) \/ PushCClosure(o, v) \/ SetTable(o, v)
                       \/ SetObject(o, v) \/ Erase(o, v) \/ SetUpval(o, v)
                       \/ SetSlot(o, v) \/ XMove(o, v)
                       \/ CaptureShared(o, v)
  \/ \E o \in Obj : Pop(o) \/ Create(o) \/ InternString(o) \/ CloseUpval(o)
                    \/ Resume(o)
  \/ \E f, u \in Obj : \E slot \in SUBSET Stored : CaptureNew(f, u, slot)
  \/ \E mt \in SUBSET Tables : SetBasicMetatable(mt)
  \/ Yield

Next == SingleStep \/ FullGC \/ Mutator

\* luaC_checkGC takes steps as the program allocates: fairness says it goes on
\* allocating, and that the collector is not stopped (LUA_GCSTOP).
Spec     == Init /\ [][Next]_vars
FairSpec == Spec /\ WF_vars(SingleStep)

\* lua_setupvalue (debug.setupvalue) on a Lua function f: the value goes to the
\* upvalue u, the barrier looks at the colour of the function.
SetUpvalueApi(f, u, v) ==
  /\ MutatorRuns /\ f \in Local \cap Functions /\ u \in refs[f] \cap Upvals
  /\ v \in (Local \cap Stored) \ refs[u]
  /\ refs' = [refs EXCEPT ![u] = {v}]
  /\ BarrierForward(f, v)
  /\ UNCHANGED <<collectorState, open, basicmt, running>>

\* The same with programs that use it.
DebugSpec == Init /\ [][Next \/ \E f, u, v \in Obj : SetUpvalueApi(f, u, v)]_vars

-----------------------------------------------------------------------------
(* Properties.                                                              *)

TypeOK ==
  /\ gcstate \in {"pause", "propagate", "sweepstring", "sweep", "finalize"}
  /\ currentwhite \in Whites
  /\ marked \in [Obj -> {"free", "white0", "white1", "gray", "black"}]
  /\ refs \in [Obj -> SUBSET Obj]
  /\ open \in [Obj -> Threads \cup {NoThread}]
  /\ gray \subseteq Listed /\ grayagain \subseteq Listed
  /\ tosweep \subseteq Obj /\ tmudata \subseteq Finalizable
  /\ finalized \subseteq Userdata /\ basicmt \subseteq Tables
  /\ running \in Threads
  /\ full \in {"no", "sweeping", "marking"}

\* What an object of each kind may refer to, and which objects may be captured
\* variables: upvalues are held by functions only, and only they can be open.
Shapes ==
  /\ \A o \in Obj : /\ o \notin Functions => refs[o] \subseteq Values
                    /\ o \in Strings => refs[o] = {}
                    /\ o \in Userdata => refs[o] \subseteq Tables
                    /\ marked[o] = "free" => refs[o] = {} /\ open[o] = NoThread
                    /\ open[o] # NoThread => o \in Upvals

\* Nothing an object that survives refers to has been freed, or will be freed by
\* the sweep under way: no dangling reference, whatever the program did between
\* the steps of the collector.  (lgc.c as a whole; the lua_asserts on isdead.)
NoDangling ==
  /\ \A o \in Obj : Alive(o) => \A v \in refs[o] : Alive(v)
  /\ \A u \in Obj : open[u] # NoThread =>
       /\ marked[open[u]] # "free"
       /\ Alive(open[u]) => \A v \in refs[u] : Alive(v)
  /\ \A o \in {MainThread, Registry, running} \cup basicmt \cup tmudata : Alive(o)

\* The tri-colour invariant of the mark phase: a black object refers to no white
\* one, what is gray is on a list the collector will traverse, and closed
\* upvalues and userdata, which are on no list, are never left gray.  (The
\* barriers, luaC_linkupval and the lists of propagatemark.)
TriColor ==
  gcstate = "propagate" =>
    /\ \A o \in Obj : ~isdead(o)
    /\ \A o \in Obj \ tmudata : isblack(o) => \A v \in refs[o] : ~iswhite(v)
    /\ \A o \in (Listed \ Weak) : isgray(o) => o \in gray \cup grayagain
    /\ \A o \in Upvals : isgray(o) => open[o] # NoThread
    /\ \A o \in gray \cup grayagain : isgray(o)
    /\ gray \cap grayagain = {}
    /\ ~iswhite(MainThread) /\ ~iswhite(Registry)
    /\ full # "marking" => tmudata = {}

\* Which objects can be black at all: threads, open upvalues and weak tables stay
\* gray because they are written without a barrier; strings too.  Userdata are
\* never gray.  (lgc.c:78, 87, 286, 302.)
BlackKinds ==
  /\ \A o \in Obj : isblack(o) =>
       o \notin Threads \cup Strings \cup Weak /\ open[o] = NoThread
  /\ \A o \in Userdata : ~isgray(o)

\* What the sweep has still to do: an object that is not of the current white is
\* ahead of the sweep or hangs from a thread that is.
Sweeping ==
  /\ gcstate \in {"sweepstring", "sweep"} =>
       /\ \A o \in Allocated \ tmudata : marked[o] # currentwhite =>
            o \in tosweep \/ open[o] \in tosweep
       /\ \A o \in tosweep : marked[o] # "free" /\ open[o] = NoThread
       /\ tosweep \cap tmudata = {}
       /\ gcstate = "sweep" => tosweep \cap Strings = {}
  /\ full = "marking" => gcstate # "pause"
  /\ full = "sweeping" => gcstate \in {"sweepstring", "sweep", "finalize"}

\* Between cycles every object has the current white, except userdata whose
\* finalizer has not run yet.
Idle ==
  /\ gcstate \in {"pause", "finalize"} =>
       \A o \in Allocated \ tmudata : marked[o] = currentwhite
  /\ gcstate = "pause" => tmudata = {}
  /\ tmudata \subseteq finalized

IInv == TypeOK /\ Shapes /\ NoDangling /\ TriColor /\ BlackKinds /\ Sweeping /\ Idle

\* Objects a root leads to through strong references.
Roots      == {MainThread, Registry, running} \cup basicmt
Reachable  == Reach(Obj, Roots)
Garbage(o) == marked[o] # "free" /\ o \notin Reachable

\* When the sweep of a full collection ends, before any finalizer runs, all that
\* was garbage is gone: what is left is reachable or is kept for a finalizer, and
\* strings also survive in weak tables.  (luaC_fullgc, which completes a stale
\* sweep first because a cycle under way has already missed garbage.)
FullCollects ==
  gcstate = "finalize" /\ full = "marking" =>
    LET kept == Reach(Obj, Roots \cup tmudata)
    IN  Allocated \subseteq kept \cup UNION {refs[t] \cap Strings : t \in kept \cap Weak}

\* A userdata with a __gc method is freed only after its turn in GCTM: once it is
\* flagged it waits in tmudata until it is handed to the method on the running
\* stack, and nothing frees it before that.  (luaC_separateudata, marktmu, GCTM.)
FinalizedBeforeFree ==
  [][\A u \in Finalizable :
       /\ marked[u] # "free" /\ marked'[u] = "free" => u \in finalized \ tmudata
       /\ u \in finalized' \ finalized => u \in tmudata'
       /\ u \in tmudata \ tmudata' => u \in refs'[running]]_vars

\* An entry leaves a weak table, other than by the program, only if its object
\* is otherwise unreachable, or is a value and a userdata already finalized.
\* (cleartable runs after `preserved' userdata are marked, before the flip.)
WeakClears ==
  [][gcstate = "propagate" /\ gcstate' = "sweepstring" /\ full' = full =>
       \A t \in Weak : \A v \in refs[t] \ refs'[t] :
         \/ v \notin Reachable
         \/ Kind[t] = "weakvalue" /\ v \in finalized']_vars

\* The collector, which works between any two steps of the program, is to it one that
\* collects at once and in no other way: objects go when nothing refers to them, entries
\* of weak tables when their objects do, userdata after their finalizers; nothing else of
\* what the program can name changes but by the program (singlestep, luaC_fullgc).  The
\* stack of a thread holds what its open upvalues hold.
Holds(o) == IF o \in Threads THEN Slots(o) ELSE refs[o]
AsHeap == INSTANCE Heap
  WITH Permanent <- {MainThread, Registry},
       WeakValues <- {o \in Obj : Kind[o] = "weakvalue"},
       Findable <- Strings \cup Upvals,
       exists <- {o \in Obj : Alive(o)},
       holds <- [o \in Obj |-> IF Alive(o) THEN Holds(o) ELSE {}],
       roots <- Roots, waiting <- tmudata, noticed <- finalized
CollectsAtOnce == AsHeap!HeapSpec

\* Only garbage is given to finalizers: "move `dead' udata that need finalization to list
\* `tmudata'" (lgc.c:127).  Not so of userdata that only one in tmudata leads to: a program
\* may find that one again, and luaC_fullgc, which may start with a tmudata that is not
\* empty, does not look through it, still black from its marktmu (CollectsAtOnce says what
\* is true).
OnlyGarbageFinalized ==
  gcstate = "propagate" /\ gray = {} => \A u \in Separated : Garbage(u)

\* A program that keeps allocating, and does not force full collections for ever
\* (FullCollects says what these do), completes one cycle after another ...
Forced    == full = "sweeping"
CyclesEnd == []<>(gcstate = "pause" \/ Forced)

\* ... in which every pending finalizer is called ...
FinalizersRun == \A u \in Finalizable : u \in tmudata ~> (u \notin tmudata \/ Forced)

\* ... and no object stays garbage for ever.
GarbageGoes == \A o \in Obj : []<>(~Garbage(o) \/ Forced)

=============================================================================
