\* Three concurrent statements over four memories of two entities.
SPECIFICATION Spec
CONSTANTS
  Ids = {1, 2, 3, 4}
  e1 = e1
  e2 = e2
  a = a
  b = b
  c = c
  d = d
  Entities = {e1, e2}
  EntityOf <- MCEntityOf
  Tags = {a, b, c, d}
  TagsOf <- MCTagsOf
  Stored = {1, 2, 4}
  AuditEnabled = TRUE
  NoMemory = NoMemory
  Statements = {t1, t2, t3}
  Operations <- SafetyOperations
  NoStatement = NoStatement
SYMMETRY Symmetry
INVARIANTS
  IInv
  NoDanglingSurvivor
  NoSupersessionCycle
  ConsolidationTakesEffect
  MergedTagsKept
  ReportedOnce
  OrderedNeverDeadlock
PROPERTIES
  ImplementsContract
