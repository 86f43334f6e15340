SPECIFICATION Spec
CONSTANTS
  MaxIndexRK = 3
  MaxArgC = 1
  MaxArgSBx = 200
  FieldsPerFlush = 2
  MaxStack = 40
  MaxVars = 30
  MaxUpvalues = 8
  MaxLevels = 60
  MaxDepth = 8
  StackSize = 60
  MaxTagLoop = 5
  Collation <- Strings
  Compiler <- Parse
  Manual <- Means
  Programs <- AllPrograms
  Cuts = {0, 1, 3}
INVARIANTS
  SameAsReference
  AssertsHold
  StackDiscipline
  UpvaluesOpen
PROPERTY RoundTrip
CHECK_DEADLOCK FALSE
