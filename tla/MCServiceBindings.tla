------------------------- MODULE MCServiceBindings -------------------------
EXTENDS ServiceBindings, TLC

CONSTANTS e0, e1, p1, p2, jelly, plex, r1, r2, s1, s2, s3

On(p, i) == [port |-> p, iface |-> i]

(* Plex is found on one interface and then on the other, with and without   *)
(* its ports; Jellyfin matches ports of Plex, before it and after it; a port *)
(* nobody matched is reported under Open Ports.                             *)
MCReports ==
    {<<[def |-> plex, bindings |-> {On(p1, e0)}],
       [def |-> OpenPorts, bindings |-> {On(p2, e0)}]>>,
     <<[def |-> jelly, bindings |-> {On(p1, e0), On(p2, e0)}],
       [def |-> plex, bindings |-> {On(p2, e0)}]>>,
     <<[def |-> plex, bindings |-> {On(p1, e1)}]>>,
     <<[def |-> plex, bindings |-> {On(Whole, e1)}],
       [def |-> OpenPorts, bindings |-> {On(p1, All)}]>>}

MCEdits == {{}, {On(p1, All), On(p1, e0)}, {On(p2, e1)}, {On(Whole, e0)},
            {On(p1, All), On(Whole, e1)}}

Symmetry == Permutations(Request) \cup Permutations(Service)
=============================================================================
