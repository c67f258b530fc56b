SPECIFICATION Spec
CONSTANTS
  MaxUpdate = 2
  Users = {7, 300}
  MaxFaults = 1
  Ids = {7, 300}
  Stored = {255, 256}
  ColumnMax = 1000
  Absent = Absent
  Unfit = Unfit
  Overlap = "rejected"
INVARIANTS
  DialogsPrepared
  ReplyMatchesRow
  NoneSkipped
PROPERTIES
  ExitHasCause
  OncePerProcess
\* nothing is left to do once every update was handled
CHECK_DEADLOCK FALSE
