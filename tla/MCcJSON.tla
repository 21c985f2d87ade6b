-------------------------------- MODULE MCcJSON --------------------------------
(* An instance of cJSON for TLC: keys that differ in case only, and whose two *)
(* orders disagree ("B" < "a", but "a" before "B" where case is ignored).     *)
EXTENDS cJSON, TLC

CONSTANTS o1, o2, a1, a2

MCRank == ("A" :> 1) @@ ("B" :> 2) @@ ("a" :> 3)
MCFold == ("A" :> 1) @@ ("B" :> 2) @@ ("a" :> 1)
MCIndexes == -1 .. 2

Symmetry == Permutations({a1, a2}) \cup Permutations({o1, o2})

(* The name of the last call matters to no later step.                        *)
View == <<heap, live>>
=============================================================================
