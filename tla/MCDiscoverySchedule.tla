------------------------ MODULE MCDiscoverySchedule -------------------------
(* DiscoverySchedule for TLC: a few rows and cron expressions. *)
EXTENDS DiscoverySchedule, TLC

CONSTANTS d1, d2, j1, j2, j3, h1, h2, every_hour, every_day, garbled

Symmetry == Permutations(Job) \cup Permutations(Discovery)
=============================================================================
