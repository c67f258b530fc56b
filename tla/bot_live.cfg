SPECIFICATION RecordedSpec
CONSTANTS
  MaxUpdate = 2
  Users = {300}
  MaxFaults = 1
  Ids = {300}
  Stored = {255}
  ColumnMax = 1000
  Absent = Absent
  Unfit = Unfit
  Overlap = "rejected"
PROPERTIES
  UpdateHandled
  CommandAnswered
\* nothing is left to do once every update was handled
CHECK_DEADLOCK FALSE
