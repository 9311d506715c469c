\* Two rounds of pages of two over four events with three timestamps.
SPECIFICATION Spec
CONSTANTS
  Times = {1, 2, 3}
  EventIds = {1, 2, 3, 4}
  Limit = 2
  Readers = {"r"}
  Followers = {"f"}
  MaxRounds = 2
  InOrder = FALSE
INVARIANTS
  TypeOK
  NothingSkipped
  NoRepeats
PROPERTIES
  RoundIsComplete
CHECK_DEADLOCK FALSE
