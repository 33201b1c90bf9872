CONSTANTS
    Commands <- InvCommands
    CommandIdOf <- InvCommandId
    Registered <- InvRegistered
    Accepts <- InvAccepts
    CmdForward <- InvForward
    CmdBackward <- InvBackward
    Domains <- InvDomains
    Results <- InvResults
    Dom0 <- InvDom0
    EmptyResult <- EmptyMap
    FirstId = 1
    IdLimit = 3
    AllowUndo = {TRUE}
    MaxHistory = 3

SPECIFICATION Spec
INVARIANT TypeOK HistoryReplay
PROPERTY RefinesLinearHistory FailedCallLeavesDomain
