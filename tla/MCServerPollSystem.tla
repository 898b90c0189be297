------------------------- MODULE MCServerPollSystem -------------------------
(* ServerPollSystem for TLC: one daemon, its poller and a user's handlers. *)
EXTENDS ServerPollSystem

CONSTANTS s1, s2, d1, u1, p1

MCOwner == [s \in Session |-> d1]

MCPoller == [d \in Daemon |-> p1]
=============================================================================
