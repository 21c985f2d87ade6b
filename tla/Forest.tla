-------------------------------- MODULE Forest --------------------------------
(***************************************************************************)
(* What can be reached in a structure of parents and children: next[n] is   *)
(* the set of the children of n.                                            *)
(***************************************************************************)

(* n, its children, their children, and so on: what is in every set that      *)
(* holds n and the children of its elements.                                  *)
Below(next, n) ==
  LET closed == {S \in SUBSET DOMAIN next : n \in S /\ \A p \in S : next[p] \subseteq S} IN
  {m \in DOMAIN next : \A S \in closed : m \in S}

(* live consists of the trees below the roots: every element is reached from a *)
(* root, no two elements have a child in common, and no root is a child.      *)
IsForest(next, live, roots) ==
  /\ roots \subseteq live /\ live \subseteq DOMAIN next
  /\ \A p \in DOMAIN next : next[p] \subseteq IF p \in live THEN live \ roots ELSE {}
  /\ \A p, q \in DOMAIN next : next[p] \cap next[q] # {} => p = q
  /\ \A n \in live : \E r \in roots : n \in Below(next, r)
=============================================================================
