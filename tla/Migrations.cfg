\* Two racing calls on every kind of database; fairness of Postgres.
SPECIFICATION FairSpec
CONSTANTS
  Callers = {c1, c2}
  s1 = s1
  s2 = s2
  Sizes = {s1, s2}
  Unset = Unset
  NoCaller = NoCaller
  Databases <- MCDatabases
INVARIANTS
  TypeOK
  ReportedByOne
  SuccessMeansLatest
  RacersDoNotFail
PROPERTIES
  StaysSound
  RefusedUntouched
  EveryCallEnds
