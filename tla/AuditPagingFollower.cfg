\* A follower with pages of one, events that arrive in order.
SPECIFICATION Spec
CONSTANTS
  Times = {1, 2, 3}
  EventIds = {1, 2, 3}
  Limit = 1
  Readers = {}
  Followers = {"f"}
  MaxRounds = 1
  InOrder = TRUE
INVARIANTS
  FollowingIsComplete
CHECK_DEADLOCK FALSE
