SPECIFICATION Spec
CONSTANTS
  Sample = Sample
  SAMPLE = SAMPLE
  Other = Other
  Names = {Sample, SAMPLE, Other}
  Fold <- Spellings
  Nothing = Nothing
INVARIANTS
  ListedIsWhole
  ListedOnceByItsName
