# XSE.Lua: a verification development

TLA+ models of XSE.Lua, the Lua runtime of a cocos2d game: Lua 5.1.5
(`src/Lua-x/lua-5.1.5`), a TCP client and MD5 as native extensions
(`src/Lua-x/Extentions`), a small object layer for the scripts
(`src/Script/core.lua`) and the outline of an embedding API
(`src/Lua-Interface`, `src/lua-src`). The models are checked with TLC; the
theorems are checked with TLAPS.

Paths below are relative to `src/`; `lua/` stands for `Lua-x/lua-5.1.5/src/`.

## 1. The system

| component | state | operations | hard to get right |
|---|---|---|---|
| garbage collector, `lua/lgc.c`, `lua/lfunc.c` | colour of every object, `gcstate`, `currentwhite`, `gray`, `grayagain`, `weak`, `tmudata`, sweep position | `singlestep`, `luaC_fullgc`, barriers, `luaC_link*`, `luaF_findupval`, `luaF_close` | interleaves with every instruction of the program, finalizers run Lua code in the middle of a cycle |
| string table, `lua/lstring.c` | buckets of interned strings | `luaS_newlstr`, `luaS_resize` | strings that are dead and not yet freed come back |
| tables, `lua/ltable.c` | array part, hash part, `lastfree` | get, set, `rehash`, `luaH_next`, `luaH_getn` | moves of colliding nodes, traversal during changes, borders |
| calls and coroutines, `lua/ldo.c`, `lua/lstate.c` | stack, `CallInfo`s, `nCcalls`, status, error jumps | call, return, `luaD_pcall`, resume, yield | restoration after an error, limits, illegal resumes |
| metatables, virtual machine, C API, `lua/ltm.c`, `lua/lvm.c`, `lua/lapi.c` | stack slots, frames, upvalues, flags of absent metamethods | instructions and API functions | open lists of values, closing of variables, chains of metamethods; every store of a reference needs its barrier |
| compiler, `lua/llex.c`, `lua/lparser.c`, `lua/lcode.c` | code, jump lists, registers, scopes | statements, expressions | jump lists threaded through the code |
| libraries, `lua/lauxlib.c`, `lua/loadlib.c`, `lua/ltablib.c`, `lua/lstrlib.c`, ... | reference free list, `package.loaded`, buffers | `luaL_ref`, `require`, `sort`, matching | sequences of calls with failures in between |
| TCP client, `Lua-x/Extentions/Network/tcp.{h,cpp}` | `session`, `m_tcp_state`, `m_buffer`, `m_data`, handlers, `errorSignal` | `connect`, `shutdown`, `send`, `Update`, handlers | the stream is cut anywhere; connect threads and a signal handler write shared state |
| MD5, `Lua-x/Extentions/md5` | `total`, `state`, `buffer` | `md5_update`, `md5_finish` | input cut anywhere, count in two words |
| object layer, `Script/core.lua` | `vtable` of each class, properties | `extends`, `callbase`, `object:new` | the file does not compile (line 79) |
| embedding API, `Lua-Interface`, `lua-src` | a global `lua_State *` | constants and declarations | nothing is implemented |

How they interact. The game loop calls `tcp::Update` once a frame; it hands
complete packets to handlers, which call Lua functions by name. Scripts call
`lua_tcp::connect/send/shutdown` from the same thread; `connect` starts a thread
that writes `m_tcp_state` later. The virtual machine and the API allocate
through the collector, which takes a few steps whenever the allocation
threshold is reached (`luaC_checkGC`), and call its barriers at every store into
an object that may be black. `ldo.c` and `lfunc.c` meet when a frame ends: the
open upvalues of its slots are closed, at whatever moment of a cycle that is.

What makes each component correct:

* collector: nothing that the program can reach is freed; garbage goes; every
  finalizer runs once, before its userdata goes; weak tables lose exactly the
  entries whose object dies;
* TCP client: the handlers get the packets of the peer once, whole, in order;
  a lost connection is reported; a state is not attributed to another
  connection;
* tables: a map with a border and a traversal that visits every entry once;
* calls: stack, counters and hooks are as before a protected call that failed;
  a coroutine is resumed only when suspended;
* string table: one object per string; compiler: every jump ends where its
  construct says; libraries: references are never shared, a module is loaded
  once, `sort` sorts; MD5: the digest does not depend on how the input is cut.

`PROJECT.json` lists the components with what is modelled of each, and under
`hazards` the places of the code where these properties are at stake.

## 2. Modules

| module | models | files |
|---|---|---|
| `LuaGC` | collector, barriers, upvalues, an arbitrary program | `lua/lgc.c`, `lua/lgc.h`, `lua/lfunc.c`, stores of `lua/lapi.c`, `lua/lvm.c`, `lua/ldo.c`, `lua/lstring.c` |
| `Heap` | what the collector promises a program: objects that last, collections at once | `lua/lgc.c` |
| `LuaGC_proofs` | theorems about `LuaGC`, and that it implements `Heap` | |
| `MCLuaGC` | instances of `LuaGC` | |
| `FrameStream` | what the receiver promises: packets, once and in order, until the stream is broken | `Network/tcp.cpp` |
| `TcpReceive` | `tcp::Update` over a byte stream cut anywhere | `Network/tcp.cpp` |
| `TcpReceive_proofs` | theorems about `TcpReceive` | |
| `MCTcpReceive` | instances of `TcpReceive` | |
| `TcpClient`, `TcpClient_proofs` | connections of several clients: connect threads, signals, handlers that call again; theorems | `Network/tcp.cpp`, `Network/tcp.h` |
| `MCTcpClient` | an instance of `TcpClient` | |
| `LuaCode` | code generator | `lua/lcode.c`, `lua/lopcodes.c` |
| `LuaParser` | parser, one operator per grammar rule | `lua/lparser.c` |
| `LuaVerify`, `LuaChunk` | symbolic check of code; dumping and loading of chunks | `lua/ldebug.c`, `lua/ldump.c`, `lua/lundump.c` |
| `LuaMachine` | virtual machine | `lua/lvm.c`, with `lua/ldo.c`, `lua/lfunc.c`, `lua/ltm.c` |
| `LuaReference` | what a script means, after the reference manual | `Lua-x/lua-5.1.5/doc/manual.html`, section 2 |
| `LuaScript` | a script from its text to its results, beside its meaning | |
| `MCLuaScript` | the scripts TLC runs | |
| `TableMap` | what a table promises: a map with a traversal | |
| `LuaTable`, `LuaTable_proofs` | tables, implementing `TableMap`; theorems | `lua/ltable.c` |
| `LuaCall` | calls, errors, coroutines | `lua/ldo.c`, `lua/lbaselib.c`, `lua/lapi.c`, `lua/ldebug.c` |
| `StringMatch`, `StringMatch_proofs` | pattern matching, find, gsub, gmatch; theorems | `lua/lstrlib.c` |
| `TableSort`, `TableSort_proofs` | `table.sort`; theorems | `lua/ltablib.c` |
| `LuaAuxiliary` | references and string buffers | `lua/lauxlib.c` |
| `LuaRequire` | `require` and `module` | `lua/loadlib.c` |
| `LuaRuntime_proofs` | theorems about `LuaCall`, `LuaAuxiliary`, `LuaRequire` and `Md5Stream` | |
| `SequenceLemmas` | lemmas the proofs share: least numbers, induction with a set, concatenated and reversed sequences | |
| `Md5Stream` | the blocks MD5 compresses | `Extentions/md5/md5.cpp` |
| `MCLuaRuntime` | an instance of the seven modules from `LuaTable` to `Md5Stream` | |

### LuaGC

An object is a model value with a fixed kind (table, weak table, function,
userdata, upvalue, thread, string). `marked` is its colour, or "free".
`refs[o]` is what `o` contains; an upvalue holds its value, and while it is open
`open[u]` names the thread whose stack slot it stands for, so that the slot is
counted once and not twice. `gray` and `grayagain` are the collector's lists,
`tosweep` the objects the sweep has not reached, `tmudata` and `finalized` the
userdata queued and flagged, `full` how far a `luaC_fullgc` on the C stack has
come.

Collector actions are the cases of `singlestep`: `MarkRoot` (GCSpause),
`PropagateMark` (one gray object), `Atomic` (the whole of `atomic`, one action
because nothing runs in between), `SweepString` (a bucket), `Sweep` (an object,
with the open upvalues of a thread), `GCTM` and `FinalizeEnd` (GCSfinalize).
`FullGC` is the entry of `luaC_fullgc`; its two phases are the same actions with
`full` set, during which no program action is possible.

The program is a set of actions that store references the way the code does,
each with its barrier: `SetTable` (luaC_barriert), `SetObject`
(luaC_objbarrier), `SetUpval` (luaC_barrier), `SetSlot`, `XMove`, `Resume`,
`Yield` (stacks need none), `CaptureNew`, `CaptureShared`, `CloseUpval`
(luaF_findupval and luaF_close), `InternString`, `SetBasicMetatable`, and `Load`,
`Pop`, `Create`, `PushCClosure`, `Erase`. A program may use only what its running
stack, the registry and the basic metatables lead to.

`Heap` is the abstract specification: a program that names objects from its roots,
collections that happen at once (`Collect`), finalizers that are called
(`Finalize`). The refinement mapping `AsHeap` takes the objects that are alive
for those that exist, `tmudata` for the userdata that wait and `finalized` for
those noticed as garbage; a thread holds its stack with the slots of its open
upvalues. `Atomic` is a `Collect`, `GCTM` a `Finalize`, an action of the program a
`Program`, and the program sees nothing of the rest of a cycle. Beyond what the
program can name it may only find strings and upvalues again that are dead and not
yet freed (`Findable`).

Abstractions. The lists of the collector have no order: a step takes any member,
which covers every order. `propagateall` inside `atomic` is a least fixed point,
`Reach`. A white object is counted as touched by `reallymarkobject` through an
upvalue's value and a userdata's metatable and environment, which that function
marks itself. Entries of a weak table have one collectable component each.
Weakness is fixed per table, whereas `__mode` may change while a program runs.
The prototype of a function is one of its contents. The amount of work in one
`luaC_step` is left out: the program may run between any two steps.

### TcpReceive and FrameStream

`PeerSend` frames a packet (length in big-endian order, then bytes) and puts it
on the wire. `Receive(n)` is `Update` up to its loop, `recv` returning n bytes;
`Turn` is one turn of the loop, `Done` its end. A byte is a number below `Base`
and a header has `HeadLen` of them, with the sign of a C int in the length.
`recv` may cut the stream anywhere, also in a header. `platform` selects the compiled
branches. The connection is up and no SIGPIPE is pending; handlers do not call back.
The history variable `wiped` says that `bzero` (XNUX, the POSIX platforms) has cleared
bytes that were kept. From then on lengths are read from whatever is there, and the
model goes on with them. `FrameStream` is the abstract specification, with `sent` and
`received` in common. Its `broken` stands for `wiped`, or for a client that has crashed at a
header that is not whole: until then each packet is the next one of the peer, afterwards
any.

### TcpClient

What `TcpReceive` leaves out: connections that come and go. The clients, the
scripts and the game loop are one thread, whose C stack is the variable `stack`:
a frame holds what `connect`, `Update` or the loop over received bytes goes on
with when the handlers it called have returned, and while handlers run, scripts
may call any client again (`ScriptRuns`). Threads of `connect` (`threads`) write
the state of their client when the peer answers (`ConnectReturns`), at any time.
`errorSignal` counts SIGPIPEs. A packet is two halves, each marked with the
socket it came from, so that a packet of two streams can be told. A socket is
named by the call of `connect` that opened it. The game loop's list of clients
(`loop`) and the peer are external.

### From a script to its results

`LuaParser` and `LuaCode` are functions from the tokens of a script to its
prototype, statement by statement like the C code: the state of the function
being compiled (`FuncState`, `LexState`, the `expdesc` in hand) is a record that
each operator transforms. Constants, registers, jump lists, and the limits
(MAXINDEXRK, MAXARG_C, LFIELDS_PER_FLUSH and so on) are those of the code, the
limits as CONSTANTS, so that a short script meets them. `lua_assert`s are
evaluated and remembered in `asserted`.

`LuaMachine` has one action, an instruction of the running function. Its state
is `lua_State` with its stack, call infos, tables, closures and upvalues; C
functions that call back (metamethods, iterators of `for`) leave what they go on
with in the frame's `after`. `LuaScript` strings these together: `Compile`,
`LoadWhole` or `LoadCut` (a chunk dumped and loaded again, whole, stripped or
cut off), and `Run`. `LuaReference` evaluates the syntax tree with environments
and a store and knows nothing of registers or instructions; it is the abstract
specification, and SameAsReference says that compiler, loader and machine
together implement it on what a script tells its host and returns.

### Parts of the runtime

`LuaTable`: `table` has the array part, the nodes with their chains and
`lastfree`; its operations are operators of the same names as the functions of
`ltable.c`. Clearing and collecting of keys (`CollectKeys`) happen at any time.
The refinement mapping gives `TableMap` the map that `luaH_get` reads, kept in
the history variable `fields`.

`LuaCall`: `frames` are the call infos of each thread, `cstack` the activations
of C functions that call functions (`luaD_call`, `luaD_pcall`, `lua_resume`,
hooks and error handlers), which is where `longjmp` lands. A Lua or C function
does anything its kind may do. Values are left out.

`StringMatch` executes `match` with the activations that wait in a stack of
choices; LeftmostBest compares with a definition by sets of matches.
`TableSort` has a comparison per step, since the order function is a program;
it may answer anything. `LuaAuxiliary` has the table of references with the free
list inside, and the strings of a buffer on the stack. `LuaRequire` has
`package.loaded` and the stack of loaders and modules that run. `Md5Stream`
follows which bytes go into which block, and the count of bits with the width
of `unsigned long` either that of a word or larger.

## 3. Runs

Collector, all with `MCLuaGC`. An instance has the main thread, the registry and
two to four more objects, with at most two references per stack and one or two
elsewhere. That is enough for each hazard: a lost object takes one object that
is traversed early, one that is moved, and the stack it is moved through; the
finalizer order takes two userdata; a captured variable takes a function, an
upvalue and a second thread.

| run | objects beside main thread and registry | shows |
|---|---|---|
| `gc_closures` | a function, an upvalue, a coroutine | NoDangling, TriColor and CollectsAtOnce (refinement of `Heap`) with open, shared and closed upvalues and dying coroutines |
| `gc_finalizers` | two userdata with `__gc` | FinalizedBeforeFree; under fairness CyclesEnd, FinalizersRun, GarbageGoes, with finalizers that resurrect, create and collect |
| `gc_weakvalues` | a table with weak values, a table, a userdata without `__gc` | TypeOK, WeakClears, CollectsAtOnce |
| `gc_weakkeys` | a table with weak keys that is also a basic metatable, a userdata with `__gc`, a string | the inductive invariant `IInv` of the proofs, FullCollects |
| `gc_finalize_reachable` | a table with weak keys that is a basic metatable, a table, two userdata with `__gc`; `Directed` leaves the interleavings that matter | violates OnlyGarbageFinalized |
| `gc_setupvalue` | two functions, an upvalue | violates NoDangling, with `lua_setupvalue` among the program's operations (`DebugSpec`) |

Receiver, all with `MCTcpReceive`: up to four packets of one to three bytes, a
header of four bits, a buffer of nine. The longest packet does not fit in the
buffer with another one, packets share a buffer, and the longest length needs
two bits of the header.

| run | platform | shows |
|---|---|---|
| `tcp_frames` | both | Frames (refinement of FrameStream, delivery included), Whole, HeaderCut, BufferFits |
| `tcp_wipe` | POSIX | violates PartialHeaderKept |
| `tcp_straddle` | Windows | violates HeaderComplete |

`recv` cuts the stream anywhere in all three. In `tcp_frames` headers are kept in part,
wiped and misread; packets that were never sent are delivered; recv writes past the
capacity of the buffer; the client crashes, before and after a wipe. HeaderCut says what
the other two runs leave open: that a header cut by recv is the only way to
such a state. A client that crashed stops, hence no check for deadlock there.

Connections, with `MCTcpClient`. `tcp_connections`: three clients, three calls of
`connect`, one signal, two halves waiting on a socket, a stack of three when a
script begins. The clients are symmetric. Three calls allow for a client that is
connected again twice, or for two clients of which one is connected again while
an older thread is under way; the client whose `send` raised the signal leaves
the game loop by itself, so that it takes two others to see whom the signal
hits; the stack allows for a handler amid the loop of `Update` whose script
fails and calls another handler.

| property | shows |
|---|---|
| StateTruthful | the state is what the peer said of the present socket, but when the thread of another call has answered meanwhile: that is the only way it lies |
| SignalsShared | a signal disconnects at most one client, though maybe the wrong one |
| Unmixed | a packet joins two streams only if its client was connected while it had a socket, or amid its own Update |
| NothingVanishes | a client that silently loses what it sends is one the game loop no longer calls: it was shut down, or its connect failed |

Scripts, with `MCLuaScript`. `script_manual` runs 737 scripts: all conditions of
`and`, `or`, `not` and comparisons of two and three levels over six leaves, as
values, in `if`, in `while` and `repeat`, with values that make them true and
false; multiple assignments with their conflicts; and scripts for closures in
loops, varargs, tail calls, constructors longer than a flush, methods, generic
`for`, metamethods and their cache, concatenation, errors, and constants past the
limit of an RK operand. Chunks are cut by one or three items. The limits are small
(three constants in RK operands, two fields per flush, one byte of SETLIST
count). Properties: SameAsReference; AssertsHold; StackDiscipline and
UpvaluesOpen in every state of the machine; RoundTrip.

Runtime, with `MCLuaRuntime`. `runtime_parts` is one run of seven parts that share
no state: a behaviour is one of one part (`runs`), the others keep their initial
state. The parts are independent in the code as well, so nothing is lost by not
interleaving them; each is explored completely within its bounds.

| part | bounds | shows |
|---|---|---|
| `LuaTable` | integers 1 to 3, two strings with the same hash, tables created with up to two slots in either part, MAXBITS 3, MAX_INT 4 | IsMap (refinement of `TableMap`), KeyFound, LengthIsBorder; four colliding keys are enough for a node to be moved out of another chain, freed, reused and found dead; the length is searched for by halving, by doubling up to MAX_INT with nothing there, and one by one past it |
| `LuaCall` | two coroutines, 3 + 1 C calls, three call infos | CStackBounded, PcallRestores, StatusTrue; both limits are passed while errors are handled |
| `StringMatch` | subjects of up to three characters, patterns of all pairs of parts, captured repetitions, anchors, nested captures, a capture asked for while another is open | LeftmostBest, GsubAsGmatch |
| `TableSort` | all permutations of two to six elements, pairs of which weigh the same; four and five with a function that answers anything | SortKeeps, SortSorts, SortShallow |
| `LuaAuxiliary` | three references, a buffer of two characters, LIMIT 3, fourteen characters added | RefsKept, BufferKept |
| `LuaRequire` | two modules, four loaders and modules at a time | LoadedOnce |
| `Md5Stream` | words of 7 bits, blocks of 8 bytes, messages of up to 36 bytes | DigestOfMessage; 16 bytes fill the low word of the count |

Within these bounds `growCI` passes its limit the first time it grows, so a
successful growth is not reached.

Fairness. `FairSpec` of `LuaGC` assumes that collector steps go on being taken:
the code takes them as the program allocates (`luaC_checkGC`), so the assumption
is a program that keeps allocating and does not stop the collector
(`LUA_GCSTOP`). Nothing is assumed about the program's other actions; in
particular a program that writes all the time must not keep a cycle from ending.
The three liveness properties except programs that force full collections for
ever: finalizers that create the next userdata and call `collectgarbage()` nest
one full collection in another until the C stack ends, which the model does not
count, and new userdata could pass older ones, since `tmudata` has no order here.
What a full collection does is FullCollects.
`TcpReceive` assumes that the game loop keeps calling `Update` and that `recv`
returns something when bytes have arrived; it promises delivery until the stream is
broken. The other modules state safety only.

## 4. Disagreements with the code's own words

1. `lgc.c:127` says that `luaC_separateudata` moves dead userdata to `tmudata`, and
   the manual (`Lua-x/lua-5.1.5/doc/manual.html:2055`) that garbage userdata are
   finalized. `luaC_fullgc` may be called by a finalizer while other userdata wait
   in `tmudata`. Those are still black from their `marktmu`, so that marking does
   not look through them (`lgc.c:121` whitens them only after the separation). If
   the program has found one of them again, what only it leads to is given to its
   finalizer while in use (`gc_finalize_reachable`). Nothing is freed too early
   (NoDangling), and CollectsAtOnce says exactly what is separated. For the same
   reason a store into such a userdata runs a forward barrier in GCSfinalize, which
   `lgc.c:664` asserts never happens; what the barrier does then is harmless.
2. `lua_setupvalue` (`lapi.c:1082`) runs the barrier on the closure although the
   value goes to the upvalue; `lgc.c:701` says that closed upvalues need a
   barrier. With two closures over one upvalue, a value in use is freed
   (`gc_setupvalue`). The other specifications therefore do not contain that
   operation, and the theorems are about programs without it.
3. `tcp.cpp:265` says that fewer bytes than a header wait for the rest, but on the
   POSIX platforms `tcp.cpp:253` wipes them (`tcp_wipe`).
4. Inside the loop of `Update` the same check is missing (`tcp_straddle`).

Met while modelling, without a sentence in the code to hold against it, and
excepted by the property that is about it:

* On the POSIX platforms recv is offered REV_BUF_LEN bytes behind those that were kept
  (`tcp.cpp:257`; Windows offers what is left), so that it may write past the end of
  `m_buffer`, by less than a header (BufferFits).
* `md5_update` compares `ctx->total[0] < length << 3` with the unmasked product.
  Where `unsigned long`, and so `uint32`, has 64 bits, a message of 2^29 bytes or
  more given in one call carries once too often. DigestOfMessage excepts such
  messages when `wide`.
* A client that is connected again while it has a socket forgets the old one;
  its connect thread still writes the state (StateTruthful, `late`), and half a
  packet is completed from the new stream (Unmixed, `replaced`).
* After `shutdown` the state stays CONNECTED, so that `send` neither fails nor
  sends; connecting again does not put the client back into the game loop
  (NothingVanishes is about the clients that are in it).

## 5. Theorems

Each is about the specification of its module for any values of the constants
that satisfy the module's assumption.

| theorem | states |
|---|---|
| `LuaGC_proofs`: `TypeCorrect` | `[]TypeOK` |
| `LuaGC_proofs`: `Invariance`, `NoDanglingReference`, `TriColorHolds` | `[]IInv`, `[]NoDangling`, `[]TriColor` |
| `LuaGC_proofs`: `FinalizerBeforeFree`, `WeakEntriesStay` | `FinalizedBeforeFree`, `WeakClears` |
| `LuaGC_proofs`: `FullCollection` | `[]FullCollects` |
| `LuaGC_proofs`: `IncrementalCollector` | `CollectsAtOnce`: `LuaGC` implements `Heap` |
| `TcpReceive_proofs`: `Invariance`, `TypeCorrect`, `BufferBounded`, `NothingLost` | `[]IInv`, `[]TypeOK`, `[]BufferFits`, `[]Whole` |
| `TcpReceive_proofs`: `OnlyHeaderCuts` | `[]HeaderCut` |
| `TcpReceive_proofs`: `Refinement` | `Stream!Init /\ [][Stream!Next]_<<sent, received, wiped \/ pc = "crashed">>`, the safety part of `Frames` |
| `TcpClient_proofs`: `Invariance`, `TypeCorrect` | `[]IInv`, `[]TypeOK` |
| `TcpClient_proofs`: `StateTold`, `StreamsUnmixed`, `NoSilentLoss`, `VictimsBounded` | `[]StateTruthful`, `[]Unmixed`, `[]NothingVanishes`, `[]SignalsShared` |
| `LuaRuntime_proofs`: `CallsStayLinked` | `[]CallInv`, the invariant the next three rest on |
| `LuaRuntime_proofs`: `StackBounded`, `StatusTold`, `PcallsRestore` | `[]CStackBounded`, `[]StatusTrue`, `PcallRestores` |
| `TableSort_proofs`: `ElementsKept`, `TableSorted`, `RecursionShallow` | `[]SortKeeps`, `[]SortSorts`, `[]SortShallow` |
| `LuaTable_proofs`: `TableInvariant` | `[]TableInv`, the invariant the next three rest on |
| `LuaTable_proofs`: `KeysAreFound`, `LengthAlwaysBorder` | `[]KeyFound`, `[]LengthIsBorder` |
| `LuaTable_proofs`: `TableIsMap` | `IsMap`: `LuaTable` implements `TableMap` |
| `LuaRuntime_proofs`: `OneAtATime`, `ReferencesKept`, `BufferInOrder`, `DigestInOrder` | `[]LoadedOnce`, `[]RefsKept`, `[]BufferKept`, `[]DigestOfMessage` |
| `StringMatch_proofs`: `MatcherInside`, `SameMatches` | `[]MatchInside`, `[]GsubAsGmatch` |
| `StringMatch_proofs`: `FindsBest` | `[]LeftmostBest` |

`LuaGC`. `GCAssumption`: the main thread is a thread, the registry a table, only
userdata have finalizers, "closed" is not an object, the bounds are numbers.
`NoDangling` alone is not inductive: whether the sweep is about to
free something in use depends on what marking did before the flip. `IInv` adds

* `Shapes`: which kinds refer to which, so that an upvalue is reached through
  functions only and a string refers to nothing;
* `TriColor`: in the mark phase black never refers to white, and what is gray
  is on a list; at `atomic` the list is empty, so everything white after
  `Remarked` and `Preserved` is out of reach of what is not;
* `BlackKinds`: threads, open upvalues, weak tables and strings are never black,
  which is why stores into them need no barrier;
* `Sweeping`: an object whose colour is not the current white is still ahead of
  the sweep, or hangs from a thread that is;
* `Idle`: between cycles all objects but the pending userdata have the current
  white, so that the next mark phase starts with no black object.

`LuaGC_proofs` has one lemma per action of the program and one per action of the
collector; the long one is `Atomic`, which uses that `Reach` is
closed under strong references. `WeakEntriesStay` adds that what `atomic` marks
covers everything strongly reachable from the roots (`AtomicMarksReachable`).

`FullCollection` rests on `FullInv`: until its first finalizer runs, the second
cycle of a full collection marks nothing but what the roots and the waiting userdata
lead to (`Kept`), and after `atomic` nothing else is alive but strings in weak tables.
The program does nothing meanwhile, so that `Kept` stays as it is, but for the
userdata that `atomic` adds to it.

`IncrementalCollector` has three kinds of steps. Marking and sweeping change neither
what is alive nor what it holds (`MarkUnseen`, `SweepUnseen`: when an open upvalue is
freed, its value stays in the slot it stood for). At `atomic` all that the program needs
has been marked, though its references changed while marking went on (`NeededMarked`),
and what remains alive refers to nothing dead. An action of the program has a running
thread that is alive, and gains only what it can name, makes, or finds among strings
and open upvalues (`ProgramStep`). The first statement of `Collect` did not except what
waits in `tmudata`; its proof failed at `NeededMarked`, and the state that was left is
the first disagreement of section 4.

`TcpReceive`. `TcpReceiveAssumption`: a header has at least one byte and fits in the
buffer, packets are not empty and their lengths are ints; nothing is assumed of where
`recv` cuts the stream. That a header reads back as the packet's length (`HeaderReads`) is
proved for any number of bytes of any size, by induction over the bytes with a set in the
place of the library's rule. The invariant has two parts. `Sizes` holds always: what is
read, after a wipe too, is an int, what is copied is what there is room for, and less than
a header is kept (`Idle`), so that what recv can write past the buffer on XNUX is less
than a header. `Safe` holds until a wipe. It keeps all bytes that were ever sent and where
each packet starts in them (`Laid`): buffer and wire are the rest of that stream behind a
position (`Flows`), which lies in the packet being filled where `m_data` ends, or at the
start of the next packet (`Filled`), and what was delivered is what was sent
(`Delivered`). When a header is begun that is not all in the buffer, its rest is on the wire,
next (`CutWhere`): that is what `OnlyHeaderCuts` says of a crash and of bytes that are kept.

`TcpClient`. `TcpClientAssumption`: the bounds are numbers. Each part of `IInv` is
about one property: `InLoop`, a client in the game loop has a socket; `Signals`, a
signal that is noted has had no victim yet; `Streams`, the beginning of a packet
comes from the socket of the `Update` that received it, the only one on the stack
and at its bottom; `Owned`, a socket belongs to one client, and a connect thread writes
for the client of its call; `Answers`, as long as a thread waits for its socket there
is no answer to it.

`LuaCall`. `LuaCallAssumption`: the main thread is no coroutine, the limits are at
least one and `BASIC_CI_SIZE` at least two. The counters that the properties are
about are overwritten by `lua_resume` and by errors, and nothing in the state says
what the activations that wait on the C stack counted: the invariant `CallInv` says
that there are such numbers (`StackInv`), a count of C calls and whether hooks
are allowed for each activation.

* `Chain`: neighbours on the C stack are related as `luaD_call`, `luaD_callhook`,
  `luaD_pcall` and `lua_resume` leave them; the counts grow with every activation that
  recurses and stay below the limit; the activations of a thread are together, on
  top of the one that resumed it.
* `Waiting`: a thread that waits for another has kept what its activation runs with.
* `Running`: so has the running thread, except while an error is on its way.
* `Bases`: `baseCcalls` is the count a coroutine was resumed with, to which
  `resume_error` and yields go back.
* `StatusInv`: status, C stack and call infos of a coroutine agree.

`CStackBounded` follows because the activations that recurse have different counts,
all below the limit; `PcallRestores` because what `luaD_pcall` saved is what the
activation below it runs with. A TLC run of `CallSpec` with three call infos, two
coroutines and three C calls found `CallInv` true in all 1.9 million states before
it was proved; it quantifies over sequences and is no run of the project.

`LuaTable`. `LuaTableAssumption`: indices are the numbers from 1, the keys are finitely
many, the hash of a key is any number, and so are MAXBITS and MAX_INT, whose values in the
code (26 and 2^31 - 3) are an instance. No bound relates the keys to them: `SetField` is
guarded where the code raises "table overflow", at a rehash that needs more than 2^MAXBITS
nodes (`MustRehash`, `ForHash`).
`TableInv` speaks of chains without following them: every node has a path `h` and a
position `d` on it (`Path`), and the chain from a node is the rest of its path, a fact
proved once (`ChainFacts`). What the operations keep is `Placed`:

* a node that has a key lies on the path of the key's main position and not before it, and
  the node in that main position belongs there, which is why a node that moves
  away (`Moved`) splits no chain and joins none, and why a node without a value may be
  reused for another key in its place;
* a node that never had a key is alone on its path and below `lastfree`;
* a key is in one node, but for a dead one further along the path that had it before it was
  collected and came back; so the first node that has the key is the one that counts.

`rehash` counts the keys before it builds the new table; that there is room for each of
them, and that re-inserting never rehashes again, is a pigeonhole argument over the nodes
with keys. `resize` is a fold over the old entries with the invariant `Resizing`. A
traversal has returned the keys up to the index of the last one and no others
(`Walking`); assignments to fields that exist and collections keep the
indices (`Alike`). The two searches of `luaH_getn` are recursive functions; their rules are
proved from the intervals on which they are defined, and the border by induction on the
distance of the ends. Inductions have their property as a set of numbers whose
complement has a least member (`Induct`), since the library's rules are out of reach.

`TableSort`. `TableSortAssumption`: sizes are at least 2, the absent element is no
number, and the weights of elements that a sort with an order meets are integers.
`SafeInv` holds whatever the order function answers: the ranges of the
activations lie in the table, the indices in or just outside their range, and the
table has the elements it had (`Keeps`). `OrderInv` is about an order: the ranges are
`Apart`, and any two positions that no range has in common are in order (`Ordered`);
`MedianInv` and `LoopInv` are what the comparisons of a partition have established so
far, the sentinels among it that keep the loops within the table. For `SortShallow`
each activation has a bound on the size of its range, at least twice the bound of the
activation it calls (`Halving`), because `auxsort` calls itself for the smaller half;
powers are a recursive function, since the prover knows nothing of `^`.

`LuaRequire`. `Entered`: while a module runs its entry is true, so that `require`
does not call its loader; `Marks`: a sentinel is that of a running or failed module.

`LuaAuxiliary`. `LuaAuxiliaryAssumption`: among others, no value that is referred to
is 0, which stands for nil (`luaL_ref` treats nil apart). The invariant has the free
indices as a sequence without repetition that is linked through the table from index
0 on, none of which is held. A buffer has the strings of its pieces on the Lua stack, the
newest on top: read from the bottom (`OnStack`) and followed by what is in the buffer, they are
the text added so far. `adjuststack` joins the topmost ones, `luaL_addvalue` puts a string
below the value it finds on top. The lemmas about `FlattenSeq` and `Reverse` are in
`SequenceLemmas`.

`Md5Stream`. `Md5StreamAssumption`: the bits of a block divide the values of a word,
and a length is a word. What was fed is the blocks that were processed, joined, and then
what is left in the buffer, which is shorter than a block (`Whole`); the low word of the
count is the bits modulo a word, so that `md5_update` reads in it how full the buffer is
(`CountTells`). `UpdateFeeds` is that `md5_update` keeps this, whether what comes
completes a block or not; `PaddingFills`, that padding and length end a block.

`StringMatch`. `StringMatchAssumption`: subjects are sequences of characters; the parts of
a pattern have one of the forms of `Shape`, "^" comes first and "$" last only, since
elsewhere they are characters like others; "^" is in no subject, because an anchored
pattern that gmatch matches looks for that character. `MatchInv` has the matcher inside its
subject (`Sound`): no activation
that waits would go on behind the end, and each leaves, when it gets its turn, only
captures that begin before its place, although those it will give up began behind it
(`Leaves`: how many captures each leaves follows from the activations above it).

That gsub and gmatch meet the same matches compares two runs of the matcher at
different times. Nothing in the state remembers the first, so the proof states what
the matcher does as a function of where it is (`Moved`); the actions compute
that function (`SameMove`), so that one call ends in one way (`OneResult`). Both loops
then take the same turns (`Turn`): `PassesInv` says that the matches of each are those
of a sequence of turns from the first place, and two such sequences that have left the
subject agree (`OneList`). The pattern is one that is not anchored; for this theorem
what the parts of a pattern mean plays no part.

`FindsBest` is about what they mean. A match is a cut of the subject: where each part
ends. Nothing in the state says what has been tried, or where the parts matched so far
ended; the invariant says that there is such a cut (`Walk`):

* its first parts are those matched, each where its meaning lets it end, and the captures
  are those that such a cut has (`CapsAt`; which "(" a ")" closes is told by how many
  are open, `Depth`);
* the activations that wait belong to different parts, the innermost to the last, and each
  says what other ends of its part are left to try (`Untried`);
* every match that begins here agrees with the cut so far, or is left to an activation that
  waits (`LeftTo`). While the matcher goes back, all of them are left.

There is a lemma for each kind of part and for each kind of turn (`WalkMoves`). With no
activation left there is no match here (`WalkNone`). When the pattern has ended the cut is
a match; every other is left to an activation that waits, and is therefore worse at the
part of that activation (`WalkFound`, `Prior`): of the ends that a part may have,
`max_expand` leaves the smaller ones for later, `min_expand` the larger ones. The loop of
`find` has passed the places where there is none (`NoneBefore`), and an anchored pattern
matches at the first place only (`FirstAlone`). That a well-formed pattern raises no error
comes from the same cut, since it says which captures are open.

The first attempt failed at two places where the definition was wrong, not the code:
`WellFormed` took `( () %1 )` for well-formed, in which the first capture is open when it
is asked for (`check_capture` raises an error), and a "^" meant something away from the
start of the subject. The patterns of `runtime_parts` now have such cases.

Only model-checked: liveness, in `LuaGC` and that of `Frames`, which is out of the
prover's reach, and the script modules, whose recursive operators the prover does not
take (SameAsReference, AssertsHold, StackDiscipline, UpvaluesOpen, RoundTrip). The
properties that fail in section 4 are checked by the runs that show it.

## 6. Plan

1. Done: `LuaGC`, `TcpReceive`, `TcpClient`, the script modules and the seven parts
   of the runtime, with their runs; the theorems of section 5, one for every safety
   property of those runs outside the script modules.
2. Proofs: the script modules, with recursive functions in the place of operators.
3. Models: the order of finalizers and `lua_close`; the pacing of `luaC_step` with
   bounded words; the buckets of the string table.

## 7. Not modelled

No behaviour, or only calls of the C library: the command-line programs, the io,
os and math libraries, the embedding API's declarations, the build files and
documents. `Script/core.lua` ends line 79 in a full-width semicolon, at which the
lexer stops: the file never loads.

Left out of the modelled parts:

* collector: the pacing of `luaC_step` and the accounting of memory, failure of
  allocation, the order of its lists, `lua_close`; entries of weak tables as
  pairs;
* receiving: memory beyond a packet (the zero fill at `tcp.cpp:297`) or the buffer, packets
  of length zero, which `send` refuses;
* connections: the destructor, partial sends, the lists of callbacks of
  `lua_tcp`, the bandwidth counter, the Windows branches of `connect` and `send`;
* compiler: the lexer's characters, line information, texts of errors, the limit on
  variables in an assignment (`luaY_checklimit`);
* machine: numbers that are not integers and numerals in strings but ten digits,
  hooks, growth of the stack, collection (which is `LuaGC`'s), coroutines (which
  are `LuaCall`'s), metatables of types other than tables;
* chunks: bytes and widths of integers, which the header compares;
* tables: the hash functions, failure of allocation, and the error "table overflow". Both
  leave `resize` between its two parts, with an array part that has grown already and hides
  what the old nodes hold under its indices;
* calls: the value stack, `lua_atpanic`, hooks that yield or are C functions
  doing more than calling a function, an `errfunc` that is no function;
* strings: how patterns are written (and so character classes), the plain
  search, `init` and `max_s` arguments, sets that contain the zero byte,
  `string.format`, replacement strings;
* table library: the loops over single accesses (`insert`, `remove`, `concat`,
  `foreach`);
* auxiliary library: argument checks, `luaL_register`, `luaL_loadfile`;
* module loader: the search of the paths, dynamic libraries, programs that clear
  entries of `package.loaded`, `package.seeall`;
* MD5: the compression function and the hexadecimal digits;
* string table: buckets, hashing and `luaS_resize`.
