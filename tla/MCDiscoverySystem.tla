-------------------------- MODULE MCDiscoverySystem -------------------------
(* DiscoverySystem for TLC: one daemon, its sessions and handlers. *)
EXTENDS DiscoverySystem

CONSTANTS s1, s2, s3, d1, u1, p1, p2

MCOwner == [s \in Session |-> d1]
=============================================================================
