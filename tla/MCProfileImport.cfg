SPECIFICATION ImportSpec
CHECK_DEADLOCK FALSE
CONSTANTS
  Addresses = {"a", "b"}
  Times = {1}
  WindowKinds = {"Normal", "Private"}
  MaxRows = 3
  MaxRefusals = 2
  Page <- MCPage
  Bonus <- MCBonus
  NoMatch = NoMatch
  Place <- MCPlace
  Profiles <- MCProfiles
  MaxRuns = 2
  OpenTabs <- MCOpenTabs
  Bookmarked <- MCBookmarked
INVARIANTS
  FailureLeavesNothing
  ImportedOnce
  ErasedIsGone
  SuggestionsAreBest
PROPERTY
  WrittenIsWhole
