--------------------------- MODULE MCKernelSchedule ---------------------------
(* Instances of the kernel schedule for TLC.                                *)
EXTENDS KernelSchedule, TLC

CONSTANT a

\* A buffer is one tile, always named whole.
WholeTiles == {1}
WholeViews == {{1}}

\* Two tiles, named together or alone.
TwoTiles == {1, 2}
TwoViews == {{1}, {2}, {1, 2}}

NoSharding    == {{}}
AxisSharding  == {{a}}

\* Buffers of one shape are interchangeable, and so are semaphores.
Interchangeable ==
  Permutations(Vmem \ Summaries) \cup Permutations(Summaries) \cup Permutations(Semaphores)

=============================================================================
