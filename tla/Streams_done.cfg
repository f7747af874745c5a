SPECIFICATION Spec
CONSTANTS
  Adapters <- OpenAI
  Bindings <- Python
  Payloads <- Texts
  MaxEvents = 2
INVARIANTS
  EveryDoneMatchesChat
CHECK_DEADLOCK FALSE
