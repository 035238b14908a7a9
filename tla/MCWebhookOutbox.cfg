CONSTANTS
  Hooks <- TwoHooks
  Mutations <- OneMutation
  Group <- TwoGroups
  Wants <- TwoWants
  Unavailable <- TwoUnavailable
  Limit = 1
  MaxAttempts = 2
  MaxCrashes = 1
  MaxWipes = 1
SPECIFICATION Spec
INVARIANTS TypeOK BatchIsWhatIsDelivering OnlyCommittedChangesArePosted AcknowledgedOnce PostsBounded
PROPERTIES SettledForGood StepsImplement
