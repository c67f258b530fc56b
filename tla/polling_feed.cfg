SPECIFICATION Spec
CONSTANTS
  Poll = Poll
  d1 = d1
  Others = {d1}
  MaxUpdate = 3
  Limit = 2
  MaxParts = 2
  Surplus = 1
  MaxFaults = 1
  Sent = Sent
  Refused = Refused
  Malformed = Malformed
  Failed = Failed
  None = None
INVARIANTS
  TypeOK
  ForgetOnlySeen
  OneGetUpdates
  NoneStranded
PROPERTIES
  ImplementsFeed
\* an answer may be thrown away with the buffer of another: its reader waits on
CHECK_DEADLOCK FALSE
