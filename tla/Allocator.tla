------------------------------- MODULE Allocator -------------------------------
(* What a memory allocator promises the program: a block it hands out is not *)
(* in use, is the caller's with all that was asked for until it is given     *)
(* back, and may be handed out again then.                                   *)
CONSTANTS Blocks, Sizes
VARIABLES held, asked

Init == held = {} /\ asked = [a \in Blocks |-> 0]

Give ==
  \E a \in Blocks \ held, n \in Sizes :
    held' = held \cup {a} /\ asked' = [asked EXCEPT ![a] = n]

Take ==
  \E a \in held : held' = held \ {a} /\ asked' = [asked EXCEPT ![a] = 0]

Next == Give \/ Take
Spec == Init /\ [][Next]_<<held, asked>>
=============================================================================
