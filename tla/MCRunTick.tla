------------------------------ MODULE MCRunTick ------------------------------
(* Two processes on a run that passes its validator, two on one that does  *)
(* not.                                                                    *)
EXTENDS RunTick, TLC

CONSTANTS p1, p2, p3, p4, w1, w2

MCRunOf == p1 :> w1 @@ p2 :> w1 @@ p3 :> w2 @@ p4 :> w2
MCPasses == w1 :> TRUE @@ w2 :> FALSE
=============================================================================
