SPECIFICATION FairSpec
CONSTANTS
  MaxServices = 3
  MaxReloads = 1
INVARIANTS
  TypeOK
  InitInOrder
  ReloadAfterInit
  StoppedThenGone
  OneHoldsHandler
PROPERTIES
  InitAnswered
\* the process exits, or nobody calls the inventory any more
CHECK_DEADLOCK FALSE
