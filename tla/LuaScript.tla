------------------------------- MODULE LuaScript -------------------------------
(***************************************************************************)
(* A script from its text to its results: the parser and code generator    *)
(* compile it (f_parser in ldo.c), the function is dumped and loaded again *)
(* as luac and string.dump allow, whole or cut off, and the virtual        *)
(* machine executes what was loaded.  Beside it stands what the script     *)
(* means, computed from its tree by the reference semantics.               *)
(***************************************************************************)
EXTENDS LuaParser, LuaChunk, LuaMachine

CONSTANTS
  Programs,     \* the scripts, a sequence of syntax trees
  Compiler(_),  \* from a text to its function: Parse of LuaParser
  Manual(_),    \* from a script to what it is to tell its host: Means
  Cuts          \* bound: how much the end of a chunk may lack

ASSUME LuaScriptAssumption == Cuts \subseteq Nat /\ 0 \in Cuts

VARIABLES
  script,    \* the script, an index of Programs
  phase,     \* "source", "compiled", "rejected", "loaded" or "running"
  compiled,  \* what the parser returned
  meaning    \* what the script is to tell its host

vars == <<script, phase, compiled, meaning, vm>>

Reference == INSTANCE LuaReference
Means(program) == LET m == Reference!Meaning(program, Collation) IN [trace |-> m.trace, ends |-> m.ends]

Init ==
  /\ script \in DOMAIN Programs
  /\ phase = "source" /\ compiled = <<>> /\ meaning = <<>> /\ vm = Idle

\* f_parser of a text; the meaning is found beside.
Compile ==
  /\ phase = "source"
  /\ phase' = "compiled"
  /\ compiled' = Compiler(Reference!WriteBlock(Programs[script]))
  /\ meaning' = Manual(Programs[script])
  /\ UNCHANGED <<script, vm>>

\* luaU_dump and f_parser of the chunk, of which the last cut items are lost.
Chunk_(cut, strip) == LET d == Dump(compiled.proto, strip) IN SubSeq(d, 1, Len(d) - cut)
Load_(loaded, strip) ==
  /\ phase' = IF ~loaded.ok THEN "rejected" ELSE IF strip THEN "loaded" ELSE "running"
  /\ compiled' = [compiled EXCEPT !.proto = loaded.p]
  /\ vm' = IF phase' = "running" THEN Boot(compiled'.proto) ELSE vm
  /\ UNCHANGED <<script, meaning>>
LoadWhole ==
  /\ phase = "compiled" /\ ~compiled.error
  /\ \E strip \in BOOLEAN : Load_(Undump(Chunk_(0, strip)), strip)
LoadCut ==
  /\ phase = "compiled" /\ ~compiled.error
  /\ \E cut \in Cuts \ {0} : Load_(Undump(Chunk_(cut, FALSE)), FALSE)

Run == Execute /\ UNCHANGED <<script, phase, compiled, meaning>>

Next == Compile \/ LoadWhole \/ LoadCut \/ Run
Spec == Init /\ [][Next]_vars

-----------------------------------------------------------------------------
(* Properties.                                                              *)

\* When a script has ended, its host was told what the reference manual says the
\* script means, and got the results it says; it failed if and only if it should.
Ending(v) == IF v.status = "error" THEN <<"error">>
             ELSE <<"returns", [i \in 1 .. v.top - 1 |-> Reference!Shown(v.stack[i])]>>
SameAsReference ==
  vm.status \in {"done", "error"} =>
    /\ Ending(vm) = meaning.ends
    /\ [i \in DOMAIN vm.trace |-> [j \in DOMAIN vm.trace[i] |-> Reference!Shown(vm.trace[i][j])]] = meaning.trace

\* No lua_assert of the parser, of the code generator or of their agreement on
\* registers fails, and each script is accepted.
AssertsHold == phase # "source" => compiled.asserted /\ (phase # "rejected" => ~compiled.error)

\* Between two instructions the stack ends where the frame does, but before an
\* instruction that takes an open list; no frame reaches below the one that called it
\* (the assertions at the top of luaV_execute).
StackDiscipline ==
  vm.status = "running" =>
    /\ vm.top = F(vm).top \/ OpenOp(I(vm))
    /\ F(vm).base <= vm.top /\ vm.top <= StackSize
    /\ \A j \in 2 .. Len(vm.ci) : vm.ci[j - 1].base <= vm.ci[j].func /\ vm.ci[j].func < vm.ci[j].base

\* An open upvalue stands for a slot below the top of the stack, where one that a block or
\* a function left open does not stay for long; and no two stand for one slot.
UpvaluesOpen ==
  vm.status = "running" =>
    \A u \in DOMAIN vm.upvals : vm.upvals[u].open =>
      /\ vm.upvals[u].at < vm.top
      /\ \A w \in DOMAIN vm.upvals \ {u} : vm.upvals[w].open => vm.upvals[w].at # vm.upvals[u].at

\* A chunk that was dumped is loaded again, the same function but for the debug
\* information that was stripped; one that is cut off is rejected.
RECURSIVE Stripped(_)
Stripped(p) == [p EXCEPT !.locvars = <<>>, !.upvalues = <<>>, !.p = [i \in DOMAIN @ |-> Stripped(@[i])]]
RoundTrip ==
  [][/\ LoadWhole => \/ phase' = "running" /\ compiled'.proto = compiled.proto
                     \/ phase' = "loaded" /\ compiled'.proto = Stripped(compiled.proto)
     /\ LoadCut => phase' = "rejected"]_vars
=============================================================================
