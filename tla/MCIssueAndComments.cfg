SPECIFICATION StorySpec
CONSTANTS
  i1 = i1
  i2 = i2
  Threaded = {i1, i2}
  MaxComments = 4
  MaxEmpty = 1
  Null = Null
  Unknown = Unknown
  s1 = s1
  s2 = s2
  major = major
  minor = minor
  alice = alice
  duplicate = duplicate
  Summaries = {s1, s2}
  Priorities = {major, minor}
  Users = {alice}
  Resolutions = {Done, duplicate}
  Done = Done
  Statuses = {"New", "In Progress", "Done", "Closed"}
  New = "New"
  DoneStatuses = {"Done", "Closed"}
  Transitions <- MCTransitions
  Edits <- MCEdits
  WebEdits <- MCWebEdits
  Imports <- MCImports
  MaxHistory = 4
SYMMETRY MCSymmetry
INVARIANTS
  TypeOK
  HistoryTellsTheRow
PROPERTIES
  DateFollowsResolution
  TransitionSettles
  RollbackUndoesAChange
  ThreadsStayWhole
