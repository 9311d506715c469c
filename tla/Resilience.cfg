\* Up to three attempts under every configuration; the provider need not
\* answer.  A call ends.
SPECIFICATION FairSpec
CONSTANTS
  MaxAttempts = 3
  Retryable = {"TRANSIENT", "TIMEOUT"}
INVARIANTS
  OwnAnswer
  AbandonedAreTold
  NothingLeft
  ResilienceInv
PROPERTIES
  CallEnds
CHECK_DEADLOCK FALSE
