SPECIFICATION Spec
CONSTANTS
  Adapters <- Assembling
  Bindings <- Python
  Payloads <- Texts
  MaxEvents = 2
INVARIANTS
  NoHalfCall
CHECK_DEADLOCK FALSE
