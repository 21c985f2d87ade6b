----------------------------- MODULE MCMessagePath -----------------------------
(***************************************************************************)
(* Instances of MessagePath for TLC: two requests of one client and one of *)
(* another whose id hashes to the other task thread, or to either.         *)
(***************************************************************************)
EXTENDS MessagePath

CONSTANTS a1, a2, b1, alice, bob

MCClientOf   == (a1 :> alice) @@ (a2 :> alice) @@ (b1 :> bob)
MCHashes     == (alice :> {5}) @@ (bob :> {2, 7})
=============================================================================
