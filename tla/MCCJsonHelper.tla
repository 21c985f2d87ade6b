---------------------------- MODULE MCCJsonHelper ----------------------------
(* Instances of CJsonHelper for TLC: two objects, one array and two values, in *)
(* documents of up to three helpers.                                         *)
EXTENDS CJsonHelper, TLC

CONSTANTS o1, o2, a1, v1, v2, h1, h2, h3

MCFold == ("j" :> "j") @@ ("k" :> "k") @@ ("K" :> "k")

Symmetry == Permutations({o1, o2}) \cup Permutations({v1, v2}) \cup Permutations({h1, h2, h3})

(* The name of the last call matters to no later step.                        *)
View == <<tree, live, helper, used>>
=============================================================================
