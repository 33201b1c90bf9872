\* A PotatoState: PlantCommand and EdibleCommand apply, TreeCommand does not.
CONSTANTS
    Commands <- PlantCommands
    CommandIdOf <- PlantCommandId
    Registered = {1, 2, 3}
    Accepts <- PlantAccepts
    CmdForward <- PlantForward
    CmdBackward <- PlantBackward
    Domains <- PlantDomains
    Results <- PlantResults
    Dom0 <- PlantDom0
    EmptyResult <- NoResult
    StateClass = "potato"
    CountLimit = 20
    FirstId = 1
    IdLimit = 3
    AllowUndo = {TRUE}
    MaxHistory = 4

SPECIFICATION Spec
INVARIANT HistoryReplay
PROPERTY RefinesLinearHistory
