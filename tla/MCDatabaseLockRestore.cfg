CONSTANTS
  Clients <- Restorer
  Kind <- RestorerKind
  AuthWrites = {"restorer"}
  CreatesAdmin = {}
  Worker = "worker"
  MaxCrashes = 0
SPECIFICATION FairSpec
PROPERTY RestoreReturns
CHECK_DEADLOCK FALSE
