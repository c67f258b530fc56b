SPECIFICATION FairSpec
CONSTANTS
  Poll = Poll
  Others = {}
  MaxUpdate = 3
  Limit = 2
  MaxParts = 2
  Surplus = 1
  MaxFaults = 2
  Sent = Sent
  Refused = Refused
  Malformed = Malformed
  Failed = Failed
  None = None
INVARIANTS
  OwnAnswer
  NoneStranded
PROPERTIES
  EveryUpdateSeen
