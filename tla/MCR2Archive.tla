----------------------------- MODULE MCR2Archive -----------------------------
(* Instances of the archive for TLC.                                        *)
EXTENDS R2Archive

CONSTANTS f1, f2, f3, p1, p2

\* Two parts; the first holds two files.
TwoParts == [f \in Files |-> IF f = f3 THEN p2 ELSE p1]

=============================================================================
