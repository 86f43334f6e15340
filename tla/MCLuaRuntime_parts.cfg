CONSTANTS
  Indices = {1, 2, 3}
  o1 = o1
  o2 = o2
  Objects <- MCObjects
  HashOf <- MCHashOf
  Values = {v}
  Nil = Nil
  NoKey = NoKey
  Sizes = {0, 1, 2}
  MaxBits = 3
  MaxInt = 4
  Main = Main
  Coroutines = {co1, co2}
  MaxCCalls = 3
  ExtraCCalls = 1
  BasicCI = 3
  MaxCalls = 3
  Subjects <- MCSubjects
  Patterns <- MCPatterns
  MaxCaptures = 2
  SortSizes = {2, 3, 4, 5, 6}
  WildSizes = {4, 5}
  Weight <- MCWeight
  Absent = Absent
  RefValues = {v1, v2}
  MaxRefs = 3
  BufferSize = 2
  Limit = 3
  MaxAdded = 14
  Lengths = {1, 3, 5}
  Modules = {m1, m2}
  MaxLoading = 4
  Word = 128
  Block = 8
  MaxMessage = 36
SPECIFICATION MCSpec
SYMMETRY MCCoroutines
INVARIANTS
  LengthIsBorder
  KeyFound
  CStackBounded
  StatusTrue
  LeftmostBest
  GsubAsGmatch
  SortKeeps
  SortSorts
  SortShallow
  RefsKept
  BufferKept
  LoadedOnce
  DigestOfMessage
PROPERTIES
  IsMap
  PcallRestores
CHECK_DEADLOCK FALSE
