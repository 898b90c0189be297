------------------------- MODULE MCDiscoveryService -------------------------
(* DiscoveryService for TLC: two daemons are independent but for the       *)
(* cleanup task, so the sessions of one daemon are what matters.           *)
EXTENDS DiscoveryService, TLC

CONSTANTS s1, s2, d1, t1, t2

MCOwner == [s \in Session |-> d1]

Symmetry == Permutations(Session) \cup Permutations(Task)
=============================================================================
