SPECIFICATION Spec
CONSTANTS
    NumComponents = 2
    NumCompTasks = 1
    NumIOTasks = 2
    Programs <- TwoPrograms
    ErrorHandlers = {"return"}
    Failing <- AllReported
    SyncBcast = FALSE
INVARIANTS SameOrder
PROPERTIES RemoteCall AllReturn
