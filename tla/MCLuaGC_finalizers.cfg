CONSTANTS
  mainthread = mainthread registry = registry t1 = t1 t2 = t2 u1 = u1 u2 = u2
  f1 = f1 f2 = f2 uv1 = uv1 co = co s1 = s1 wv = wv wk = wk closed = closed
  Obj = {mainthread, registry, u1, u2}
  Kind <- MCKind
  Finalizable = {u1, u2}
  MainThread = mainthread
  Registry = registry
  NoThread = closed
  MaxStack = 2
  MaxRefs = 2
  Stored = {u1, u2}
  BasicTables = {}
SPECIFICATION FairSpec
PROPERTIES FinalizedBeforeFree CyclesEnd FinalizersRun GarbageGoes
