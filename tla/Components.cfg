SPECIFICATION UnitsSpec
CONSTANTS
    Units = {"pcm", "parser", "mixer", "hal", "compress", "cond", "binder", "params", "metadata", "sensors"}
    N = 2
    IntMax = 12
    StartThreshold = 1
    StopThreshold = 5
    MaxCount = 3
INVARIANTS  StackInBounds  PathsResolve VolumeIsScaled RefCountsOwners StreamPathsFollowRoutes OnOffFollowUse CaptureHasOwner  HandleOutlivesPause CallbackAnswersRequest ParcelsInStep SuccessIsReal SettingsSurvive SizesReadBack OneOwner HandlesReachOwners
PROPERTIES LoadingEnds CaptureEnds  EveryoneServed LockedBufferStays
CHECK_DEADLOCK FALSE
