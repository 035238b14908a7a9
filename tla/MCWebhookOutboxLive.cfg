CONSTANTS
  Hooks <- MixedHooks
  Mutations <- MixedMutations
  Group <- MixedGroups
  Wants <- MixedWants
  Unavailable <- MixedUnavailable
  Limit = 1
  MaxAttempts = 2
  MaxCrashes = 1
  MaxWipes = 0
SPECIFICATION FairSpec
PROPERTIES EventuallySettled Implements
