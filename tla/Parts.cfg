SPECIFICATION PartsSpec
CONSTANTS
  Extent = 9
  MaxStride = 5
  MaxViews = 2
  Groups = {g, h}
  Lifetimes <- TwoStages
  Inputs = {given}
  Outputs = {result}
  Vmem = {v1, v2}
  Summaries = {}
  Axes = {}
  Semaphores = {s1, s2}
  Functions = {"silu"}
  NoStatistics = NoStatistics
  Hbm = {hbm}
  Core = {core}
  Trip = 3
  MaxStages = 3
  MaxInterval = 3
  Devices = {d1, d2, d3}
  Given = {given}
  MaxOps = 4
SYMMETRY Symmetry
INVARIANTS OverlapIsExact AliasesAreDeclared TilesArePromised IterationsKeepApart EnginesSuffice InitializedEverywhere
\* A part ends when its schedule is complete or a bound is reached.
CHECK_DEADLOCK FALSE
