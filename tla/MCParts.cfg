SPECIFICATION PartsSpec
CONSTANTS
  i1 = i1
  i2 = i2
  a = a
  b = b
  Issues = {i1, i2}
  Names = {a, b}
  Snapshots = {"snap"}
  MaxUploads = 3
  MaxFailures = 2
  FieldValues = {"a", "b"}
  MaxListed = 2
  MaxLabelEntries = 2
  WriteTimes = {1, 2}
  Projects = {"p", "q"}
  IssueNumbers = {1, 2}
  ComponentNames = {"a", "b"}
  MaxComponents = 3
  LinkedIssues = {"i", "j"}
  LinkTypes = {"blocks", "clones"}
  MaxLinks = 2
  LinkOwners = {"i", "j"}
  GlobalIds = {"g", "h"}
  MaxRemote = 3
  Users = {"admin", "bob"}
  DefaultUser = "admin"
  TokenNames = {"t"}
  OtherEmails = {"x"}
  BatchKeys = {i1, i2}
  NoParent = NoParent
  MaxItems = 2
  MaxEntries = 2
  MaxRequests = 5
  Limits = {1, 2}
  StatusNames = {a, b}
  MaxStatuses = 2
  NoStatus = NoStatus
  Owners = {"u", "v"}
  Addresses = {"x", "y"}
  DynamicLimit = 2
  MaxHooks = 3
  MaxBatch = 2
  Values = {"x", "y"}
  Unknown = "z"
  Words = {"w"}
  Days = {1, 2}
  FoundIssues = {1, 2, 3, 4}
  PageSizes = {1, 2}
  MaxChanges = 2
SYMMETRY MCSymmetry
INVARIANTS
  TypeOK
  OneLinkPerGlobalId
  AccountsStayInHand
  EachRequestOnce
  ClausesAgree
  PagesMissOnlyAfterChanges
  UpdatesDoAndTell
PROPERTIES
  ContentKept
  UploadsAreStored
  RestoreBringsBack
  ValuesOutliveTypes
  ComponentsStayRight
  LinksSurviveImports
  ImportAccountsForAll
  ImportSettles
  RegistryStaysInOrder
