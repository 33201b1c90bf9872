CONSTANTS
    Commands <- SVCommands
    CommandIdOf <- SVCommandId
    Registered = {1}
    Accepts <- SVAccepts
    CmdForward <- SVForward
    CmdBackward <- SVBackward
    Domains <- SVDomains
    Results <- SVDomains
    Dom0 <- NoValues
    EmptyResult <- NoValues
    FirstId = 1
    IdLimit = 3
    AllowUndo = {TRUE}
    MaxHistory = 3

SPECIFICATION Spec
INVARIANT HistoryReplay
