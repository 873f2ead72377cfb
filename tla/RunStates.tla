------------------------------ MODULE RunStates ------------------------------
(* The states of a measured run and the moves the ledger allows between     *)
(* them (RunState and _NEXT_STATES of src/src/tpu_cake/ledger.py).          *)

CREATED   == "created"
VERIFIED  == "verified"
LOWERED   == "lowered"
COMPILED  == "compiled"
CORRECT   == "correct"
TIMED     == "timed"
TRACED    == "traced"
COUNTERED == "countered"
VALIDATED == "validated"
ACCEPTED  == "accepted"
REJECTED  == "rejected"

Measured == {TIMED, TRACED, COUNTERED, VALIDATED}
Terminal == {ACCEPTED, REJECTED}
RunState == {CREATED, VERIFIED, LOWERED, COMPILED, CORRECT} \cup Measured \cup Terminal

NextStates(s) ==
  CASE s = CREATED     -> {VERIFIED}
    [] s = VERIFIED    -> {LOWERED}
    [] s = LOWERED     -> {COMPILED}
    [] s = COMPILED    -> {CORRECT}
    [] s = CORRECT     -> Measured
    [] s \in Measured  -> {ACCEPTED}
    [] OTHER           -> {}

\* transition's check: a rejection may follow any state that is not terminal.
MayFollow(s, t) == s \notin Terminal /\ (t = REJECTED \/ t \in NextStates(s))

=============================================================================
