SPECIFICATION Spec
CONSTANTS
  d1 = d1
  d2 = d2
  Dialogs = {d1, d2}
  Users = {7, 300}
  MaxFaults = 1
  Ids = {0, 7, 300}
  Stored = {255, Unfit}
  ColumnMax = 256
  Absent = Absent
  Unfit = Unfit
  Overlap = "undefined"
SYMMETRY Symmetry
INVARIANTS
  TypeOK
  StatementsInOrder
  
