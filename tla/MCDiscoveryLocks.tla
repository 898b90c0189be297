-------------------------- MODULE MCDiscoveryLocks --------------------------
(* DiscoveryLocks for TLC: two ServerPoll daemons polled side by side. *)
EXTENDS DiscoveryLocks

CONSTANTS p1, p2, h1
=============================================================================
