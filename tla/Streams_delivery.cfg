SPECIFICATION FairSpec
CONSTANTS
  Adapters <- AllAdapters
  Bindings <- AllBindings
  Payloads <- Texts
  MaxEvents = 4
CHECK_DEADLOCK FALSE
INVARIANTS
  DeliveredInOrder
  CompleteWhenFinished
  ErrorsSurface
  CallsComplete
  DoneMatchesChat
PROPERTIES
  StreamsEnd
