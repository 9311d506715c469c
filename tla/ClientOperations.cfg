\* Three clients' calls over four memories.
SPECIFICATION ClientSpec
CONSTANTS
  Ids = {m1, m2, m3, m4}
  e1 = e1
  e2 = e2
  m1 = m1
  m2 = m2
  m3 = m3
  m4 = m4
  Entities = {e1, e2}
  EntityOf <- MCEntityOf
  Tags = {m1, m2, m3, m4}
  TagsOf <- MCTagsOf
  Stored = {m1, m2, m4}
  AuditEnabled = TRUE
  NoMemory = NoMemory
  Calls = {c1, c2, c3}
  Requests <- MCRequests
SYMMETRY Symmetry
INVARIANTS
  ClientTypeOK
  ConsolidateDelivers
  AuditNeverInvents
PROPERTIES
  StoreContract
