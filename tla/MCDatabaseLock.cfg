CONSTANTS
  Clients <- AllClients
  Kind <- AllKinds
  AuthWrites = {"writer"}
  CreatesAdmin = {"reset"}
  Worker = "worker"
  MaxCrashes = 1
SPECIFICATION FairSpec
INVARIANTS TypeOK LockExcludes
PROPERTIES NothingChangesUnderASession AnswerIsCommitted EveryoneIsServed
