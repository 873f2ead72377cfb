SPECIFICATION FairSpec
CONSTANTS
  Procs = {p, q}
  Roots = {a, b}
  MaxFaults = 3
  NoRoot = NoRoot
INVARIANTS TypeOK TimedAtMostOnce ReceiptIsGenuine NothingIsReused
PROPERTY TimedIsPublished
\* Every root has its receipt, or is refused.
CHECK_DEADLOCK FALSE
