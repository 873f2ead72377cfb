SPECIFICATION Spec
CONSTANTS
  a = a
  Inputs = {given}
  Outputs = {result}
  Vmem = {v1, v2}
  Summaries = {}
  Tiles <- WholeTiles
  Views <- WholeViews
  Axes = {a}
  Semaphores = {s1}
  Functions = {"silu"}
  MatmulSharding <- AxisSharding
  Reuse = "never"
  MaxOps = 3
  NoStatistics = NoStatistics
SYMMETRY Interchangeable
INVARIANT PartialIsTracked
