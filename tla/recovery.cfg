SPECIFICATION Spec
CONSTANTS
  d1 = d1
  Dialogs = {d1}
  Users = {7, 300}
  MaxFaults = 0
  Ids = {7, 300}
  Stored = {1, 255}
  ColumnMax = 255
  Absent = Absent
  Unfit = Unfit
  Overlap = "rejected"
INVARIANTS
  RecoveryRepairs
