SPECIFICATION Spec
CONSTANTS
  NormalAddresses <- Normal
  PrivateAddresses <- Private
  NoTab = NoTab
  MaxTabs = 3
  MaxWindows = 2
  NoSession = NoSession
  Torn = Torn
INVARIANTS
  StripConsistent
  PrivateNeverWritten
PROPERTIES
  OthersKeepTheirOrder
  SessionIsRestored
