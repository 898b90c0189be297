------------------------------ MODULE MCHosts ------------------------------
EXTENDS Hosts, TLC

CONSTANTS h1, h2, r1, r2, a1, a2, web, ssh

Symmetry == Permutations(Host) \cup Permutations(Addr) \cup Permutations(Definition)
=============================================================================
