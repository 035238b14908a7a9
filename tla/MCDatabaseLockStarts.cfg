CONSTANTS
  Clients <- AllClients
  Kind <- AllKinds
  AuthWrites = {"writer"}
  CreatesAdmin = {}
  Worker = "worker"
  MaxCrashes = 1
SPECIFICATION Spec
PROPERTY StartsWithSeedData
