SPECIFICATION CheckSpec
CONSTANTS
  Procs = {p1, p2}
  Whole = 2
  NoFile = NoFile
  Garbage = Garbage
  NoValue = NoValue
  Installed = 2
  Versions = {1, 2, 3}
  Times = {0, 1}
  NoOffer = NoOffer
INVARIANTS
  Agreement
  WideningKeepsOffers
PROPERTIES
  ValueNeverTorn
  CallsReturn
