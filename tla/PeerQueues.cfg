SPECIFICATION FairSpec
CONSTANTS
  QueueStagedSize = 1
  RekeyAfterMessages = 1
  RejectAfterMessages = 2
  Word = 8
  MaxTimerHandshakes = 1
  Scenarios <- All
  Nil = Nil
INVARIANTS TypeOK NonceOnce WritersHoldRefs
PROPERTIES Returns 
CHECK_DEADLOCK FALSE
