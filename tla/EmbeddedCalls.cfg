\* One call over three memories, while other clients change them.
SPECIFICATION Spec
CONSTANTS
  Ids = {1, 2, 3}
  MaxBoost = 2
  LastInstant = 1
  Calls <- MCCalls
  Texts <- MCTexts
INVARIANTS
  CallInv
  BatchPaired
  BetterNeverBelow
  LargestContext
PROPERTIES
  ContextEnds
