------------------------------ MODULE FifoQueues ------------------------------
(***************************************************************************)
(* What the program promises about order: requests wait in one queue per   *)
(* key and leave it from the front, none skipped, none repeated.  The key  *)
(* is the task thread, or the client whose requests must be answered in    *)
(* the order they were sent.                                               *)
(***************************************************************************)
EXTENDS Naturals, Sequences

CONSTANTS Keys, Msgs

VARIABLE waiting

Init == waiting = [k \in Keys |-> <<>>]

Put(k, m) == waiting' = [waiting EXCEPT ![k] = Append(@, m)]

Get(k) ==
  /\ waiting[k] # <<>>
  /\ waiting' = [waiting EXCEPT ![k] = Tail(@)]

Next == \E k \in Keys : Get(k) \/ \E m \in Msgs : Put(k, m)

Spec == Init /\ [][Next]_waiting
=============================================================================
