------------------------------- MODULE MCLedger -------------------------------
(* Instances of the ledger for TLC.                                         *)
EXTENDS Ledger

CONSTANTS r1, a, b

CallOf(k, s, p) == [kind |-> k, run |-> r1, row |-> [state |-> s, payload |-> p]]

\* Two processes drive one run with rival creations, rival measurements and
\* rival outcomes, with and without a lock.  Creation and rejection have
\* conflicting evidence; creation, verification and acceptance are also
\* recorded idempotently.
RivalCalls ==
  {CallOf("create", CREATED, p) : p \in {a, b}}
    \cup {CallOf("record", s, a) : s \in {CREATED, VERIFIED, ACCEPTED}}
    \cup {CallOf("transition", s, a) : s \in RunState \ {COUNTERED, VALIDATED}}
    \cup {CallOf("transition", REJECTED, b)}

=============================================================================
