SPECIFICATION Spec
CONSTANTS
  c1 = c1
  c2 = c2
  Chats = {c1, c2}
  Providers <- builtin
  Methods <- AllMethods
  MaxFaults = 2
SYMMETRY Symmetry
INVARIANTS
  NoNeedlessFailure
  StaysRefreshable
  SealedFileReadable
PROPERTIES
  StaysSealed
CHECK_DEADLOCK FALSE
