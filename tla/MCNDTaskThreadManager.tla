------------------------- MODULE MCNDTaskThreadManager -------------------------
(***************************************************************************)
(* Instances of NDTaskThreadManager for TLC: the id of alice hashes to one  *)
(* value; that of carol is not NUL-terminated where zmq leaves it, so that *)
(* the hash runs on into what happens to follow.                           *)
(***************************************************************************)
EXTENDS NDTaskThreadManager

CONSTANTS a1, a2, c1, alice, carol

MCClientOf == (a1 :> alice) @@ (a2 :> alice) @@ (c1 :> carol)
MCHashes   == (alice :> {5}) @@ (carol :> {1, 6})
=============================================================================
