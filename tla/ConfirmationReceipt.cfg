SPECIFICATION Spec
CONSTANTS
  Procs = {p}
  Roots = {a}
  MaxFaults = 1
  NoRoot = NoRoot
INVARIANT ReceiptAttestsLedger
