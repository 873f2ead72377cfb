-------------------------- MODULE MCSurfaceAttempts --------------------------
EXTENDS SurfaceAttempts, TLC

\* Processes, attempts and roots are interchangeable.
Symmetry == Permutations(Procs) \cup Permutations(Attempts) \cup Permutations(Roots)
=============================================================================
