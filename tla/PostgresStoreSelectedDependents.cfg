\* A consolidation commits between the snapshot of a forgetAll and its locks.
SPECIFICATION Spec
CONSTANTS
  Ids = {1, 2}
  e1 = e1
  e2 = e2
  a = a
  b = b
  c = c
  d = d
  Entities = {e1}
  EntityOf <- PairEntityOf
  Tags = {a, b}
  TagsOf <- PairTagsOf
  Stored = {1, 2}
  AuditEnabled = FALSE
  NoMemory = NoMemory
  Statements = {t1, t2}
  Operations <- LivenessOperations
  NoStatement = NoStatement
PROPERTIES
  DeletesNoSurvivor
