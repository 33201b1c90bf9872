CONSTANTS
    Commands <- EmpCommands
    CommandIdOf <- EmpCommandId
    Registered = {1}
    Accepts <- EmpAccepts
    CmdForward <- EmpForward
    CmdBackward <- EmpBackward
    Domains <- EmpDomains
    Results <- EmpResults
    Dom0 <- EmptyMap
    EmptyResult <- EmptyMap
    FirstId = 1
    IdLimit = 4
    AllowUndo = {TRUE}
    MaxHistory = 3

SPECIFICATION Spec
PROPERTY RefinesLinearHistory
