SPECIFICATION Spec
CONSTANTS
  MaxBytes = 5
  MaxEntities = 2
  MaxNumber = 2
  Word = 32
  None = None
INVARIANTS
  CommandFound
  SoundEntityAnswered
  CommandIsNamed
\* an update is looked at once
CHECK_DEADLOCK FALSE
