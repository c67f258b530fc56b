SPECIFICATION FairSpec
CONSTANTS
  MaxServices = 3
  MaxReloads = 1
PROPERTIES
  StopAnswered
\* the process exits, or nobody calls the inventory any more
CHECK_DEADLOCK FALSE
