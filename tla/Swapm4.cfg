SPECIFICATION Spec
CONSTANTS
  NTasks = 4
  Traffics <- SparseTraffics
  FlowControls <- FlowControls4
  SyncKinds = {"data"}
INVARIANTS
  ReadySendSafe
  PendingBound
  PairingIsMutual
  MeetsAllOnce
PROPERTIES
  AllReturn
