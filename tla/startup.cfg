SPECIFICATION Spec
CONSTANTS
  White = White
  Slash = Slash
  Letter = Letter
  Chars = {White, Slash, Letter}
  MaxLength = 2
  MaxArgs = 2
  OsUser = OsUser
  Missing = Missing
  Unreadable = Unreadable
  Unread = Unread
INVARIANTS
  TypeOK
  ExitExplained
  AsConfigured
\* the process ends, or goes on in other modules
CHECK_DEADLOCK FALSE
