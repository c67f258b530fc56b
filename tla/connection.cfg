SPECIFICATION FairSpec
CONSTANTS
  c1 = c1
  c2 = c2
  r1 = r1
  r2 = r2
  r3 = r3
  v = v
  Callers = {c1, c2}
  Requests = {r1, r2, r3}
  Values = {v}
  Refused = Refused
  Malformed = Malformed
  Failed = Failed
  None = None
  MaxParts = 2
  Surplus = 1
INVARIANTS
  TypeOK
  AnswerTakenOnce
  NoReaderStranded
PROPERTIES
  RequestCompletes
\* the finite pool of request names may run out on a spoilt stream
CHECK_DEADLOCK FALSE
