SPECIFICATION Spec
CONSTANTS
  Capacity = 2
  NumModules = 2
  MaxReads = 1
  MaxEvents = 3
  MaxFlushes = 2
  MaxActivations = 1
  SensorList <- TwoSensors
  EventKinds <- Plain
  NoEvent = NoEvent
  Poller = Poller
  Nobody = Nobody
PROPERTY ImplementsFlushStream
