SPECIFICATION Spec
CONSTANTS
  Capacity = 2
  NumModules = 1
  MaxReads = 2
  MaxEvents = 2
  MaxFlushes = 1
  MaxActivations = 1
  SensorList <- OneHalKinds
  EventKinds <- AllKinds
  NoEvent = NoEvent
  Poller = Poller
  Nobody = Nobody
INVARIANTS NoCorruptedEventUpstream
