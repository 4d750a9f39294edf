\* The shipped configuration: a recorder moves between the two microphones.
SPECIFICATION Spec
CONSTANTS
    Devices <- MochaDevices
    Streams <- MochaStreams
    Ctls <- MochaCtls
    MissingCtls = {}
    Outs = {}
    Ins = {"i1"}
    Groups = {{"i1"}}
    OutRoutes <- MochaOutRoutes
    InRoutes <- MochaInRoutes
    VoiceMics <- DefaultMic
INVARIANT StreamPathsFollowRoutes
