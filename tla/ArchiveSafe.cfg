SPECIFICATION FairSpec
CONSTANTS
  f1 = f1
  f2 = f2
  f3 = f3
  p1 = p1
  p2 = p2
  Files = {f1, f2, f3}
  PartOf <- TwoParts
  Workers = 2
  MaxVersion = 2
  MaxCrashes = 1
  MaxLosses = 1
  OneCommand = TRUE
  Nothing = Nothing
INVARIANTS ReferenceIsBacked
PROPERTIES OriginalIsArchived CleanedIsComplete EventuallyCleaned
\* The archive is made and the directory is empty, or a change bars every retry.
CHECK_DEADLOCK FALSE
