------------------------------- MODULE LuaCall -------------------------------
(***************************************************************************)
(* Calls, errors and coroutines (ldo.c, with the coroutine functions of    *)
(* lbaselib.c): the call infos of each thread, the C stack they are        *)
(* interleaved with, the limits of both, and what luaD_pcall, luaD_throw,  *)
(* lua_resume and lua_yield do with them.                                  *)
(*                                                                         *)
(* A function does anything a function of its kind can do.  Values are     *)
(* left out, and with them the value stack.                                *)
(***************************************************************************)
EXTENDS Integers, Sequences, SequencesExt, FiniteSetsExt

CONSTANTS
  Main, Coroutines,      \* the threads
  MaxCCalls, ExtraCCalls,\* LUAI_MAXCCALLS, and the eighth of it that is left to error handlers
  BasicCI, MaxCalls      \* BASIC_CI_SIZE, LUAI_MAXCALLS

ASSUME LuaCallAssumption ==
  /\ Main \notin Coroutines /\ MaxCCalls \in Nat \ {0} /\ ExtraCCalls \in Nat \ {0}
  /\ BasicCI \in Nat \ {0, 1} /\ MaxCalls \in Nat

VARIABLES
  frames,    \* the kinds of each thread's call infos above base_ci, "lua" or "C", innermost first
  sizeCI,    \* size_ci of each
  thStatus,  \* L->status of each: "ok" (0), "yield" or "error"
  fresh,     \* the coroutines whose function is still on their stack
  nCcalls, baseCcalls, allowhook,
  errfunc,   \* of each thread: "none" or a "function"
  cstack,    \* activations on the C stack, innermost first: [kind, t, depth] with what they save
  pc,        \* "run", "precall", "error" (luaG_errormsg) or "throw" (luaD_throw)
  arg        \* the kind of function to call, or the code thrown

callVars == <<frames, sizeCI, thStatus, fresh, nCcalls, baseCcalls, allowhook, errfunc, cstack, pc, arg>>
Threads  == {Main} \cup Coroutines

CallInit ==
  /\ frames = [t \in Threads |-> <<>>] /\ sizeCI = [t \in Threads |-> BasicCI]
  /\ thStatus = [t \in Threads |-> "ok"] /\ fresh = Coroutines
  /\ nCcalls = [t \in Threads |-> 0] /\ baseCcalls = [t \in Threads |-> 0]
  /\ allowhook = [t \in Threads |-> TRUE] /\ errfunc = [t \in Threads |-> "none"]
  /\ cstack = <<>> /\ pc = "run" /\ arg = "none"

\* The thread that runs, which the innermost activation belongs to.
L == IF cstack = <<>> THEN Main ELSE Head(cstack).t
Depth == Len(frames[L])
Runs(kind) == pc = "run" /\ Depth > 0 /\ Head(frames[L]) = kind
Activation(kind) == [kind |-> kind, t |-> L, depth |-> Depth]

-----------------------------------------------------------------------------

\* luaD_call on top of the activations `under': too deep it is an error, and much too deep,
\* when errors are already being handled, it is thrown without calling the handler again.
Call(kind, under, f) ==
  LET n == nCcalls[L] + 1 IN
  /\ nCcalls' = [nCcalls EXCEPT ![L] = n]
  /\ \/ n = MaxCCalls /\ cstack' = under \o cstack /\ pc' = "error" /\ arg' = "none"
     \/ n >= MaxCCalls + ExtraCCalls /\ cstack' = under \o cstack /\ pc' = "throw" /\ arg' = "errerr"
     \/ /\ n < MaxCCalls + ExtraCCalls /\ n # MaxCCalls
        /\ cstack' = <<Activation(kind)>> \o under \o cstack /\ pc' = "precall" /\ arg' = f

\* OP_CALL; and a call by the API or of a metamethod.
VMCall(f) ==
  /\ Runs("lua") /\ pc' = "precall" /\ arg' = f
  /\ UNCHANGED <<frames, sizeCI, thStatus, fresh, nCcalls, baseCcalls, allowhook, errfunc, cstack>>
ApiCall(f) ==
  /\ Runs("lua") \/ Runs("C")
  /\ Call("call", <<>>, f)
  /\ UNCHANGED <<frames, sizeCI, thStatus, fresh, baseCcalls, allowhook, errfunc>>

\* luaD_pcall, of a C function or of the host.
PCall(f, ef) ==
  /\ Runs("C") \/ (cstack = <<>> /\ pc = "run")
  /\ Call("call", <<[kind |-> "pcall", t |-> L, depth |-> Depth, nCcalls |-> nCcalls[L],
                      allowhook |-> allowhook[L], errfunc |-> errfunc[L]]>>, f)
  /\ errfunc' = [errfunc EXCEPT ![L] = ef]
  /\ UNCHANGED <<frames, sizeCI, thStatus, fresh, baseCcalls, allowhook>>

\* luaD_callhook, of a hook that calls a function.
Hook(f) ==
  /\ Runs("lua") /\ allowhook[L]
  /\ allowhook' = [allowhook EXCEPT ![L] = FALSE]
  /\ Call("call", <<Activation("hook")>>, f)
  /\ UNCHANGED <<frames, sizeCI, thStatus, fresh, baseCcalls, errfunc>>

\* luaD_precall: a call info for the function; growCI doubles their number, but the first
\* time it passes the limit this is an error, and then the end.
Precall ==
  LET size == sizeCI[L]  full == Depth = size - 1 IN
  /\ pc = "precall"
  /\ \/ full /\ size > MaxCalls /\ pc' = "throw" /\ arg' = "errerr" /\ UNCHANGED <<frames, sizeCI>>
     \/ /\ full /\ size <= MaxCalls /\ 2 * size > MaxCalls
        /\ sizeCI' = [sizeCI EXCEPT ![L] = 2 * size]
        /\ pc' = "error" /\ arg' = "none" /\ UNCHANGED frames
     \/ /\ ~full \/ 2 * size <= MaxCalls
        /\ sizeCI' = [sizeCI EXCEPT ![L] = IF full THEN 2 * size ELSE size]
        /\ frames' = [frames EXCEPT ![L] = <<arg>> \o @]
        /\ pc' = "run" /\ arg' = "none"
  /\ UNCHANGED <<thStatus, fresh, nCcalls, baseCcalls, allowhook, errfunc, cstack>>

-----------------------------------------------------------------------------

\* Mutant: hooks are not allowed again.
AfterHookStill(a) == allowhook
AfterHook(a) == IF a.kind = "hook" THEN [allowhook EXCEPT ![a.t] = TRUE] ELSE allowhook

\* luaD_poscall; and where the function is not the VM's own callee, the C functions that
\* wait for it return: luaD_call with what it was called from, or luaG_errormsg, which
\* throws; and lua_resume, when the coroutine's function was the last.
Awaited == cstack # <<>> /\ Head(cstack).depth = Depth - 1
WithinVM ==
  /\ ~Awaited
  /\ UNCHANGED <<nCcalls, allowhook, errfunc, cstack, pc, arg>>
Finished ==
  /\ Awaited /\ nCcalls' = [nCcalls EXCEPT ![L] = @ - 1]
  /\ LET a == IF Len(cstack) > 1 THEN cstack[2] ELSE Head(cstack) IN
     \/ /\ Head(cstack).kind = "call" /\ a.kind \in {"pcall", "hook"} /\ a.depth = Depth - 1 /\ a.t = L
        /\ cstack' = SubSeq(cstack, 3, Len(cstack))
        /\ errfunc' = IF a.kind = "pcall" THEN [errfunc EXCEPT ![L] = a.errfunc] ELSE errfunc
        /\ allowhook' = AfterHook(a)
        /\ UNCHANGED <<pc, arg>>
     \/ /\ Head(cstack).kind = "resume"
           \/ (Head(cstack).kind = "call" /\ ~(a.kind \in {"pcall", "hook"} /\ a.depth = Depth - 1 /\ a.t = L))
        /\ cstack' = Tail(cstack) /\ UNCHANGED <<errfunc, allowhook, pc, arg>>
     \/ /\ Head(cstack).kind = "handler"
        /\ cstack' = Tail(cstack) /\ pc' = "throw" /\ arg' = "errrun"
        /\ UNCHANGED <<errfunc, allowhook>>
Return ==
  /\ Runs("lua") \/ Runs("C")
  /\ frames' = [frames EXCEPT ![L] = Tail(@)]
  /\ WithinVM \/ Finished
  /\ UNCHANGED <<sizeCI, thStatus, fresh, baseCcalls>>

\* An error in a function; luaG_errormsg, which calls the handler if there is one.
Fail ==
  /\ Runs("lua") \/ Runs("C")
  /\ pc' = "error"
  /\ UNCHANGED <<frames, sizeCI, thStatus, fresh, nCcalls, baseCcalls, allowhook, errfunc, cstack, arg>>
ErrorMsg ==
  /\ pc = "error"
  /\ \/ errfunc[L] = "none" /\ pc' = "throw" /\ arg' = "errrun" /\ UNCHANGED <<nCcalls, cstack>>
     \/ errfunc[L] = "function" /\ \E f \in {"lua", "C"} : Call("handler", <<>>, f)
  /\ UNCHANGED <<frames, sizeCI, thStatus, fresh, baseCcalls, allowhook, errfunc>>

\* restore_stack_limit.
Limited(t, depth) ==
  IF sizeCI[t] > MaxCalls /\ depth + 1 < MaxCalls THEN [sizeCI EXCEPT ![t] = MaxCalls] ELSE sizeCI
\* luaD_throw jumps to L->errorJmp, the thread's innermost luaD_rawrunprotected: in
\* luaD_pcall, which restores what it saved, or in lua_resume, for which the thread is dead.
ErrorJmp == Min({i \in DOMAIN cstack : cstack[i].t = L /\ cstack[i].kind \in {"pcall", "resume"}})
Throw ==
  LET a == cstack[ErrorJmp] IN
  /\ pc = "throw" /\ pc' = "run" /\ arg' = "none"
  /\ cstack' = SubSeq(cstack, ErrorJmp + 1, Len(cstack))
  /\ \/ /\ a.kind = "pcall"
        /\ frames' = [frames EXCEPT ![L] = SubSeq(@, Len(@) - a.depth + 1, Len(@))]
        /\ nCcalls' = [nCcalls EXCEPT ![L] = a.nCcalls]
        /\ allowhook' = [allowhook EXCEPT ![L] = a.allowhook]
        /\ errfunc' = [errfunc EXCEPT ![L] = a.errfunc]
        /\ sizeCI' = Limited(L, a.depth)
        /\ UNCHANGED thStatus
     \/ /\ a.kind = "resume"
        /\ thStatus' = [thStatus EXCEPT ![L] = "error"]
        /\ nCcalls' = [nCcalls EXCEPT ![L] = @ - 1]
        /\ UNCHANGED <<frames, allowhook, errfunc, sizeCI>>
  /\ UNCHANGED <<fresh, baseCcalls>>

-----------------------------------------------------------------------------

\* Mutant: a coroutine without frames is not told from one with.
CoStatusFlat(co) ==
  IF co = L THEN "running"
  ELSE IF thStatus[co] = "yield" THEN "suspended"
  ELSE IF thStatus[co] = "error" THEN "dead"
  ELSE IF co \in fresh THEN "suspended" ELSE "dead"
\* costatus.
CoStatus(co) ==
  IF co = L THEN "running"
  ELSE IF thStatus[co] = "yield" THEN "suspended"
  ELSE IF thStatus[co] = "error" THEN "dead"
  ELSE IF frames[co] # <<>> THEN "normal"
  ELSE IF co \in fresh THEN "suspended" ELSE "dead"

\* Mutant: the level of the resuming thread is not handed on.
LevelOwn(co) == nCcalls[co]
Level(co) == nCcalls[L]
\* auxresume: lua_setlevel, and lua_resume of a coroutine that is not too deep, which calls
\* its function, or finishes the call of the C function that yielded.
Resume(co) ==
  /\ Runs("C") /\ CoStatus(co) = "suspended"
  /\ IF Level(co) >= MaxCCalls
     THEN /\ nCcalls' = [nCcalls EXCEPT ![co] = Level(co)]
          /\ UNCHANGED <<frames, thStatus, fresh, baseCcalls, cstack, pc, arg>>
     ELSE /\ nCcalls' = [nCcalls EXCEPT ![co] = Level(co) + 1]
          /\ baseCcalls' = [baseCcalls EXCEPT ![co] = Level(co) + 1]
          /\ cstack' = <<[kind |-> "resume", t |-> co, depth |-> 0]>> \o cstack
          /\ fresh' = fresh \ {co} /\ thStatus' = [thStatus EXCEPT ![co] = "ok"]
          /\ IF co \in fresh
             THEN pc' = "precall" /\ arg' = "lua" /\ UNCHANGED frames
             ELSE frames' = [frames EXCEPT ![co] = Tail(@)] /\ UNCHANGED <<pc, arg>>
  /\ UNCHANGED <<sizeCI, allowhook, errfunc>>

\* lua_yield, which is an error when anything but the VM is between it and lua_resume.
Yield ==
  /\ Runs("C")
  /\ IF nCcalls[L] > baseCcalls[L]
     THEN pc' = "error" /\ UNCHANGED <<thStatus, nCcalls, cstack>>
     ELSE /\ thStatus' = [thStatus EXCEPT ![L] = "yield"]
          /\ cstack' = Tail(cstack) /\ nCcalls' = [nCcalls EXCEPT ![L] = @ - 1]
          /\ UNCHANGED pc
  /\ UNCHANGED <<frames, sizeCI, fresh, baseCcalls, allowhook, errfunc, arg>>

CallNext ==
  \/ \E f \in {"lua", "C"} :
       VMCall(f) \/ ApiCall(f) \/ Hook(f) \/ \E ef \in {"none", "function"} : PCall(f, ef)
  \/ Precall \/ Return \/ Fail \/ ErrorMsg \/ Throw \/ Yield
  \/ \E co \in Coroutines : Resume(co)
CallSpec == CallInit /\ [][CallNext]_callVars

-----------------------------------------------------------------------------
(* Properties.                                                              *)

\* LUAI_MAXCCALLS bounds the C stack, not only each thread's part of it (luaD_call,
\* lua_setlevel): however coroutines resume each other and error handlers fail, the
\* activations that recurse in C stay below the limit and its eighth.
CStackBounded ==
  Cardinality({i \in DOMAIN cstack : cstack[i].kind \in {"call", "handler", "resume"}})
    < MaxCCalls + ExtraCCalls

\* A protected call returns to its caller with the call infos, the count of C calls, the
\* hooks and the error handler it began with, whether by an error at any depth, which
\* restores them, or without one, where nobody does (luaD_pcall).
PcallRestores ==
  [][\A i \in DOMAIN cstack :
       LET a == cstack[i] IN
       a.kind = "pcall" /\ Len(cstack') = Len(cstack) - i =>
         /\ Len(frames'[a.t]) = a.depth /\ nCcalls'[a.t] = a.nCcalls
         /\ allowhook'[a.t] = a.allowhook /\ errfunc'[a.t] = a.errfunc]_callVars

\* coroutine.status tells the truth, and so no coroutine is resumed into itself: those that
\* wait on the C stack, and only those, are running or normal (costatus, lua_resume).
StatusTrue ==
  \A co \in Coroutines :
    LET resumed == {i \in DOMAIN cstack : cstack[i].kind = "resume" /\ cstack[i].t = co} IN
    /\ Cardinality(resumed) <= 1
    /\ CoStatus(co) \in {"running", "normal"} <=> resumed # {}
=============================================================================
