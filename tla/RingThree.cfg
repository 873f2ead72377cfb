SPECIFICATION FairSpec
CONSTANTS
  N = 3
  Calls = 2
INVARIANTS NoDataRace CopiesLandInsideTheCall DrainedOnReturn ExactCopyCount
PROPERTIES ImplementsReduceScatter AllCallsReturn
\* The program ends after its last call.
CHECK_DEADLOCK FALSE
