---------------------------- MODULE ReduceScatter ----------------------------
(***************************************************************************)
(* What a collective reduce-scatter promises the program that calls it.    *)
(* The devices make the same calls in the same order.  A device returns    *)
(* from a call only when every device has entered it, and holds, for each  *)
(* half of its own chunk, every device's contribution of that very call    *)
(* exactly once.                                                           *)
(***************************************************************************)
EXTENDS Naturals

CONSTANTS N,      \* the number of devices
          Calls   \* how many times the program calls the collective

VARIABLES entered,   \* entered[d]: the calls device d has entered
          returned,  \* returned[d]: the calls device d has returned from
          result     \* result[d]: the contributions in each half of d's output

Devices == 0..(N - 1)
Halves  == {0, 1}

\* Device d's chunk in call k: one contribution from every device.
Reduced(d, k) == [h \in Halves |-> {<<k, e, d>> : e \in Devices}]
Nothing       == [h \in Halves |-> {}]

Init ==
  /\ entered = [d \in Devices |-> 0]
  /\ returned = [d \in Devices |-> 0]
  /\ result = [d \in Devices |-> Nothing]

Enter(d) ==
  /\ entered[d] = returned[d]
  /\ entered[d] < Calls
  /\ entered' = [entered EXCEPT ![d] = @ + 1]
  /\ result' = [result EXCEPT ![d] = Nothing]
  /\ UNCHANGED returned

Return(d) ==
  /\ returned[d] < entered[d]
  /\ \A e \in Devices : entered[e] >= entered[d]
  /\ returned' = [returned EXCEPT ![d] = @ + 1]
  /\ result' = [result EXCEPT ![d] = Reduced(d, returned[d])]
  /\ UNCHANGED entered

Next == \E d \in Devices : Enter(d) \/ Return(d)

Spec == Init /\ [][Next]_<<entered, returned, result>>

=============================================================================
