SPECIFICATION Spec
CONSTANTS
  NTasks = 3
  Traffics <- AllTraffics
  FlowControls <- FlowControls3
  SyncKinds = {"data"}
INVARIANTS
  TypeOK
  CleanExit
PROPERTIES
  AllReturn
  ExchangeSpec
