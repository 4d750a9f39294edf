SPECIFICATION FairSpec
CONSTANTS
  Capacity = 2
  NumModules = 1
  MaxReads = 2
  MaxEvents = 4
  MaxFlushes = 2
  MaxActivations = 1
  SensorList <- OneHalKinds
  EventKinds <- KnownKinds
  NoEvent = NoEvent
  Poller = Poller
  Nobody = Nobody
PROPERTIES ImplementsFlushStream AlwaysDrains
