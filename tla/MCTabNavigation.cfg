SPECIFICATION NavigationSpec
CONSTANTS
  t1 = t1
  t2 = t2
  Surfaces <- TwoTabs
  Windows <- OneWindow
  Destinations = {"a", "b"}
  Scripts = {"page", "failure", "redirect", "delayed_title", "abandoned", "hanging", "stalled"}
  MaxNav = 2
  TimeoutBound = 1
INVARIANTS
  LiveShowsThePage
  EpochFollowsEngine
PROPERTIES
  UncommittedLoadResolves
CHECK_DEADLOCK FALSE
