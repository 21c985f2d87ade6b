------------------------ MODULE MCNDPluginManagerGlobal ------------------------
(* An instance of NDPluginManagerGlobal for TLC: three files, and one or two  *)
(* task threads.  Callbacks call the table where there is one, and leave it   *)
(* alone where there are two.                                                *)
EXTENDS NDPluginManagerGlobal, TLC

CONSTANTS f1, f2, f3, t1, t2, id1, id2, a1, a2, a3

MCNameOf == (f1 :> "x") @@ (f2 :> "y") @@ (f3 :> "z")
MCMayCall == 0 :> DOMAIN table @@ 1 :> DOMAIN table @@ 2 :> {}

Symmetry == Permutations({t1, t2}) \cup Permutations({id1, id2}) \cup Permutations({a1, a2, a3})
=============================================================================
