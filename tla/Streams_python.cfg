SPECIFICATION Spec
CONSTANTS
  Adapters <- OpenAI
  Bindings <- Python
  Payloads <- Texts
  MaxEvents = 2
INVARIANTS
  TextOnce
CHECK_DEADLOCK FALSE
