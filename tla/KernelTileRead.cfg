SPECIFICATION Spec
CONSTANTS
  a = a
  Inputs = {given}
  Outputs = {result}
  Vmem = {v1, v2}
  Summaries = {}
  Tiles <- TwoTiles
  Views <- TwoViews
  Axes = {a}
  Semaphores = {s1}
  Functions = {"silu"}
  MatmulSharding <- NoSharding
  Reuse = "never"
  MaxOps = 3
  NoStatistics = NoStatistics
SYMMETRY Interchangeable
INVARIANT ReadableIsDefined
