CONSTANTS
  Clients <- AllClients
  Kind <- AllKinds
  AuthWrites = {"writer"}
  CreatesAdmin = {"reset"}
  Worker = "worker"
  MaxCrashes = 0
SPECIFICATION Spec
PROPERTY ResetReseeds
