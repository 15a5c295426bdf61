SPECIFICATION Spec
CONSTANTS
    num_iotasks = 3
    Sizes <- SomeSizes
    nvars = 2
    Ops <- WriteReadReadWrite
    MayFail = TRUE
INVARIANTS
    WrittenRight
    ReadRight
PROPERTIES
    AllReturn
CHECK_DEADLOCK FALSE
