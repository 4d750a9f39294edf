SPECIFICATION Spec
CONSTANTS
  Capacity = 2
  NumModules = 2
  MaxReads = 2
  MaxEvents = 4
  MaxFlushes = 1
  MaxActivations = 2
  SensorList <- TwoSensors
  EventKinds <- Plain
  NoEvent = NoEvent
  Poller = Poller
  Nobody = Nobody
INVARIANTS TypeOK EventsInOrder FlushNotOvertaken NoSleepOnWork RoundRobin
