-------------------------- MODULE MCResumableSearch --------------------------
(* A baseline and two candidates.                                            *)
EXTENDS ResumableSearch

CONSTANTS base, c1, c2

ThreeNames == <<base, c1, c2>>
=============================================================================
