SPECIFICATION Spec
CONSTANTS
  a = a
  Inputs = {given}
  Outputs = {result}
  Vmem = {v1, v2, v3, n1, n2}
  Summaries = {n1, n2}
  Tiles <- WholeTiles
  Views <- WholeViews
  Axes = {a}
  Semaphores = {s1, s2}
  Functions = {"add", "slice", "silu", "embedding_lookup", "residual_inject", "rms_norm_partial", "rms_norm_apply"}
  MatmulSharding <- NoSharding
  Reuse = "never"
  MaxOps = 6
  NoStatistics = NoStatistics
SYMMETRY Interchangeable
INVARIANTS ReadableIsDefined ReadableIsPromised PartialIsTracked StatisticsAreCurrent EndedIsComplete
\* A schedule may end, and a longer one is not looked at.
CHECK_DEADLOCK FALSE
