SPECIFICATION Spec
CONSTANTS
  Procs = {p1, p2}
  Attempts = {a1, a2}
  Roots = {r1, r2, r3, r4}
  MaxKills = 2
  MaxFaults = 1
  MaxDamage = 1
  NoRoot = NoRoot
  NoCall = NoCall
  NoClaim = NoClaim
  NoParent = NoParent
SYMMETRY Symmetry
CHECK_DEADLOCK FALSE
INVARIANTS OneAttemptPerKey DevicesFollowParent ManifestIsGenuine ClaimIsSettled
