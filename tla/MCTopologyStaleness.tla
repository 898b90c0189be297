------------------------ MODULE MCTopologyStaleness -------------------------
(* TopologyStaleness for TLC: a few hosts and topologies. *)
EXTENDS TopologyStaleness

CONSTANTS x, y, t1, t2, w1, w2, r1, r2
=============================================================================
