SPECIFICATION Spec
CONSTANTS
  c1 = c1
  Chats = {c1}
  Providers <- Kiro
  Methods <- Idc
  MaxFaults = 1
INVARIANTS
  IdcRefreshedAtOidc
CHECK_DEADLOCK FALSE
