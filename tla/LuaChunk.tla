-------------------------------- MODULE LuaChunk --------------------------------
(***************************************************************************)
(* Precompiled chunks: ldump.c writes a function, lundump.c reads it back. *)
(* A chunk is a sequence of items <<kind, value>>, where the C code writes *)
(* the bytes of the value; an item that is missing, or of another kind, is *)
(* what a reader meets in a chunk that was cut off or damaged.             *)
(*                                                                         *)
(* A reader's state is [z, at, ok]: the chunk, the position in it and no   *)
(* error so far; each operator of the second half reads one part of a      *)
(* function and gives [r, x], the reader behind it and what was read.      *)
(***************************************************************************)
EXTENDS LuaVerify

CONSTANT MaxDepth  \* LUAI_MAXCCALLS: nesting of functions in a chunk

ASSUME LuaChunkAssumption == MaxDepth \in Nat

Header == <<"header", "Lua 5.1">>  \* luaU_header: signature, version and sizes
IntItem(n) == <<"int", n>>
CharItem(x) == <<"char", x>>
StringItem(x) == <<"string", x>>

Flat(seqs) == FoldLeft(LAMBDA acc, x : acc \o x, <<>>, seqs)

DumpConstant(x) ==
  <<CharItem(x[1])>> \o CASE x[1] = "nil" -> <<>>
                          [] x[1] = "boolean" -> <<CharItem(IF x[2] THEN "1" ELSE "0")>>
                          [] x[1] = "number" -> <<<<"number", x[2]>>>>
                          [] x[1] = "string" -> <<StringItem(x[2])>>
DumpDebug(p, strip) ==
  IF strip THEN <<IntItem(0), IntItem(0)>>
  ELSE <<IntItem(Len(p.locvars))>>
       \o Flat([i \in DOMAIN p.locvars |-> <<StringItem(p.locvars[i].name), IntItem(p.locvars[i].startpc),
                                             IntItem(p.locvars[i].endpc)>>])
       \o <<IntItem(Len(p.upvalues))>> \o [i \in DOMAIN p.upvalues |-> StringItem(p.upvalues[i])]
RECURSIVE DumpFunction(_, _)
\* Mutant: the functions inside are written without their own.
DumpFlat(p, strip) ==
  <<IntItem(p.nups), IntItem(p.numparams), CharItem(p.vararg), IntItem(p.maxstack), IntItem(Len(p.code))>>
    \o [i \in DOMAIN p.code |-> <<"code", p.code[i]>>]
    \o <<IntItem(Len(p.k))>> \o Flat([i \in DOMAIN p.k |-> DumpConstant(p.k[i])])
    \o <<IntItem(0)>> \o DumpDebug(p, strip)
DumpFunction(p, strip) ==
  <<IntItem(p.nups), IntItem(p.numparams), CharItem(p.vararg), IntItem(p.maxstack), IntItem(Len(p.code))>>
    \o [i \in DOMAIN p.code |-> <<"code", p.code[i]>>]
    \o <<IntItem(Len(p.k))>> \o Flat([i \in DOMAIN p.k |-> DumpConstant(p.k[i])])
    \o <<IntItem(Len(p.p))>> \o Flat([i \in DOMAIN p.p |-> DumpFunction(p.p[i], strip)])
    \o DumpDebug(p, strip)
Dump(p, strip) == <<Header>> \o DumpFunction(p, strip)

-----------------------------------------------------------------------------

Failed_(r) == [r EXCEPT !.ok = FALSE]
\* LoadBlock: the next item, an error at the end of the chunk.
Load(r, kind) ==
  IF r.ok /\ r.at <= Len(r.z) /\ r.z[r.at][1] = kind
  THEN [r |-> [r EXCEPT !.at = @ + 1], x |-> r.z[r.at][2]]
  ELSE [r |-> Failed_(r), x |-> 0]

\* n parts read one after the other by the operator Part, and a vector with its length.
LoadN(r, n, Part(_)) ==
  FoldLeft(LAMBDA acc, i : IF ~acc.r.ok THEN acc
                           ELSE LET f == Part(acc.r) IN [r |-> f.r, x |-> Append(acc.x, f.x)],
           [r |-> r, x |-> <<>>], [i \in 1 .. n |-> i])
LoadVector(r, Part(_)) == LET n == Load(r, "int") IN LoadN(n.r, n.x, Part)

LoadConstant(r) ==
  LET t == Load(r, "char")
      b == Load(t.r, "char")  n == Load(t.r, "number")  s == Load(t.r, "string")
  IN  CASE t.x = "nil" -> [t EXCEPT !.x = <<"nil">>]
        [] t.x = "boolean" -> [b EXCEPT !.x = <<"boolean", @ # "0">>]
        [] t.x = "number"  -> [n EXCEPT !.x = <<"number", @>>]
        [] t.x = "string"  -> [s EXCEPT !.x = <<"string", @>>]
        [] OTHER -> [r |-> Failed_(t.r), x |-> <<"nil">>]
LoadLocVar(r) ==
  LET n == Load(r, "string")  s == Load(n.r, "int")  e == Load(s.r, "int")
  IN  [r |-> e.r, x |-> [name |-> n.x, startpc |-> s.x, endpc |-> e.x]]

RECURSIVE LoadFunction(_, _)
LoadFunction(r, depth) ==
  LET nups   == Load(r, "int")
      params == Load(nups.r, "int")
      vararg == Load(params.r, "char")
      stack  == Load(vararg.r, "int")
      code   == LoadVector(stack.r, LAMBDA q : Load(q, "code"))
      k      == LoadVector(code.r, LoadConstant)
      protos == LoadVector(k.r, LAMBDA q : LoadFunction(q, depth + 1))
      vars   == LoadVector(protos.r, LoadLocVar)
      upvals == LoadVector(vars.r, LAMBDA q : Load(q, "string"))
      f == [code |-> code.x, k |-> k.x, p |-> protos.x, upvalues |-> upvals.x, nups |-> nups.x,
            locvars |-> vars.x, numparams |-> params.x, vararg |-> vararg.x, maxstack |-> stack.x]
  IN  IF depth > MaxDepth \/ ~upvals.r.ok THEN [r |-> Failed_(r), x |-> <<>>]
      ELSE [r |-> [upvals.r EXCEPT !.ok = CheckCode(f)], x |-> f]

Undump(chunk) ==
  LET h == Load([z |-> chunk, at |-> 1, ok |-> TRUE], "header")
      f == LoadFunction(h.r, 1)
  IN  [ok |-> f.r.ok /\ h.x = Header[2], p |-> f.x]
=============================================================================
