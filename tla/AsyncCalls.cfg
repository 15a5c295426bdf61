SPECIFICATION Spec
CONSTANTS
    NumComponents = 1
    NumCompTasks = 2
    NumIOTasks = 2
    Programs <- CallsAndSettings
    ErrorHandlers = {"return", "bcast"}
    Failing <- ReportedOrDirect
    SyncBcast = TRUE
INVARIANTS TypeOK Matched Drained HandlersAgree 
