--------------------------- MODULE MCEntityBuffer ---------------------------
(* EntityBuffer for TLC: the hosts of a network scan, each with an id of   *)
(* its own, and the containers of a Docker scan, which share their host's. *)
EXTENDS EntityBuffer

CONSTANTS r1, r2, r3, h1, h2, n1

MCNetwork == [r \in Request |-> IF r = r1 THEN h1 ELSE h2]

MCDocker == [r \in Request |-> h1]
=============================================================================
