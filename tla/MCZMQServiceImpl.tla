--------------------------- MODULE MCZMQServiceImpl ---------------------------
(* Instances of ZMQServiceImpl for TLC: workers and requests are model values *)
(* of the cfg.  They are not declared symmetric: a run checks liveness too.   *)
EXTENDS ZMQServiceImpl, TLC
=============================================================================
