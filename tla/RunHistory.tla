------------------------------ MODULE RunHistory ------------------------------
(***************************************************************************)
(* What the experiment ledger promises its readers: the history of a run   *)
(* starts with its creation, each later state is an allowed move from the  *)
(* state before it, and nothing follows a terminal state.                  *)
(***************************************************************************)
EXTENDS RunStates, Naturals, Sequences

CONSTANT Runs

VARIABLE history  \* history[r]: the states run r has completed, in order

Init == history = [r \in Runs |-> <<>>]

Complete(r, s) ==
  /\ IF history[r] = <<>>
     THEN s = CREATED
     ELSE MayFollow(history[r][Len(history[r])], s)
  /\ history' = [history EXCEPT ![r] = Append(@, s)]

Next == \E r \in Runs, s \in RunState : Complete(r, s)

Spec == Init /\ [][Next]_history

=============================================================================
