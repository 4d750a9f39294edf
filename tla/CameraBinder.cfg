\* One call at a time, against a service that may die once.
SPECIFICATION Spec
CONSTANTS
    MaxList = 2
    MaxEvents = 1
INVARIANT SupportsApiAnswered
CHECK_DEADLOCK FALSE
