-------------------------------- MODULE Hosts -------------------------------
(***************************************************************************)
(* Hosts of one network, their interfaces and services                     *)
(* (backend/src/server/hosts/service.rs, hosts/handlers.rs, and the        *)
(* registration of a daemon in daemons/service.rs).                        *)
(*                                                                         *)
(* Daemons report hosts and users create them; a report about an address   *)
(* some host has goes to that host.  A user may consolidate two hosts: the *)
(* children of one move to the other, one database call at a time, and it  *)
(* is deleted.  The server may stop between any two calls.                 *)
(*                                                                         *)
(* A report has interfaces and a service on a port of one of them, and     *)
(* every service uses the same port number: a binding is the interface, and*)
(* what consolidation does with ports is what it does with interfaces.  An *)
(* address stands for subnet and IP, and for the MAC.  Tags, SNMP data,    *)
(* entries of ifTable and host limits are left out.                        *)
(***************************************************************************)
EXTENDS Naturals

CONSTANTS
    Host,                 \* ids of hosts
    MaxIfaces,            \* bound: rows of interfaces at once
    MaxServices,          \* bound: rows of services at once
    Addr,                 \* addresses
    Definition,           \* service definitions
    Request,              \* requests in progress at once
    AllIfaces,            \* for a binding to all interfaces
    NoRow

Iface == 1 .. MaxIfaces     \* ids of interfaces; a new row has the least free id
Service == 1 .. MaxServices \* ids of services

Bindable == Iface \cup {AllIfaces}
IfaceRow == [host : Host, addr : Addr]
ServiceRow == [host : Host, def : Definition, ifaces : SUBSET Bindable]

ASSUME RowAssumption ==
    /\ NoRow \notin Host \cup Iface \cup Service \cup IfaceRow \cup ServiceRow
    /\ AllIfaces \notin Iface

VARIABLES
    hosts,    \* rows of hosts
    ifaces,   \* rows of interfaces: their host and address
    services, \* rows of services: their host, definition and bindings
    daemons,  \* hosts that a daemon's row refers to
    lock,     \* the request that holds the lock of a host
    at,       \* a request's position
    target,   \* the host it writes to
    other,    \* the host it consolidates into the target, or deletes
    report,   \* the addresses still to be stored and the service it reports
    bound,    \* the interface of its service
    known,    \* interfaces of the target, as read
    moves,    \* interfaces still to be moved, as read
    shifts,   \* services still to be moved, as read
    remap     \* interface_id_map; an interface it lacks becomes all interfaces

rows == <<hosts, ifaces, services, daemons>>
request == <<at, target, other, report, bound, known, moves, shifts, remap>>
vars == <<rows, lock, request>>

Free == {}

NoReport == [addrs |-> {}, def |-> NoRow, discovered |-> FALSE]
Report == [addrs : SUBSET Addr, def : Definition, discovered : BOOLEAN]

HostsTypeOK ==
    /\ hosts \subseteq Host
    /\ ifaces \in [Iface -> IfaceRow \cup {NoRow}]
    /\ services \in [Service -> ServiceRow \cup {NoRow}]
    /\ daemons \subseteq Host
    /\ lock \in [Host -> SUBSET Request]
    /\ at \in [Request -> {"idle", "create", "iface", "daemon", "lock",
                           "read", "iface moves", "service moves", "delete", "drop"}]
    /\ target \in [Request -> Host \cup {NoRow}]
    /\ other \in [Request -> Host \cup {NoRow}]
    /\ report \in [Request -> Report \cup {NoReport}]
    /\ bound \in [Request -> Iface \cup {NoRow}]
    /\ known \in [Request -> SUBSET (Iface \X Addr)]
    /\ moves \in [Request -> SUBSET (Iface \X Addr)]
    /\ shifts \in [Request -> SUBSET (Service \X SUBSET Bindable)]
    /\ remap \in [Request -> [Bindable -> Bindable]]

Init ==
    /\ hosts = {}
    /\ ifaces = [i \in Iface |-> NoRow]
    /\ services = [s \in Service |-> NoRow]
    /\ daemons = {}
    /\ lock = [h \in Host |-> Free]
    /\ at = [r \in Request |-> "idle"]
    /\ target = [r \in Request |-> NoRow]
    /\ other = [r \in Request |-> NoRow]
    /\ report = [r \in Request |-> NoReport]
    /\ bound = [r \in Request |-> NoRow]
    /\ known = [r \in Request |-> {}]
    /\ moves = [r \in Request |-> {}]
    /\ shifts = [r \in Request |-> {}]
    /\ remap = [r \in Request |-> [i \in Bindable |-> AllIfaces]]

-----------------------------------------------------------------------------
IfacesOf(h) == {i \in Iface : ifaces[i] # NoRow /\ ifaces[i].host = h}
ServicesOf(h) == {s \in Service : services[s] # NoRow /\ services[s].host = h}
At(h, a) == {i \in IfacesOf(h) : ifaces[i].addr = a}

(* Mutant: one too far. *)
NextFree(table) ==
    {i + 1 : i \in {k \in DOMAIN table : table[k] = NoRow}}

(* The id of a new row. *)
FirstFree(table) ==
    {i \in DOMAIN table : table[i] = NoRow /\ \A j \in 1 .. i - 1 : table[j] # NoRow}

(* Mutant: no report is about a host there is. *)
NoMatchingHosts(as) == {}

(* find_matching_host_by_interfaces *)
MatchingHosts(as) == {h \in hosts : \E a \in as : At(h, a) # {}}

(* The services of the host other than s that have one of the bindings. *)
Claimants(h, s, bs) ==
    {u \in ServicesOf(h) \ {s} :
        \E b \in bs, c \in services[u].ifaces : b = c \/ AllIfaces \in {b, c}}

(* A request ends; its locks are released. *)
Done(r) ==
    /\ at' = [at EXCEPT ![r] = "idle"]
    /\ target' = [target EXCEPT ![r] = NoRow]
    /\ other' = [other EXCEPT ![r] = NoRow]
    /\ report' = [report EXCEPT ![r] = NoReport]
    /\ bound' = [bound EXCEPT ![r] = NoRow]
    /\ known' = [known EXCEPT ![r] = {}]
    /\ moves' = [moves EXCEPT ![r] = {}]
    /\ shifts' = [shifts EXCEPT ![r] = {}]
    /\ remap' = [remap EXCEPT ![r] = [i \in Bindable |-> AllIfaces]]
    /\ lock' = [h \in Host |-> lock[h] \ {r}]

(* A host's row goes, and by the foreign keys its children and the bindings *)
(* to its interfaces; the rows of daemons have no foreign key.              *)
Cascade(h) ==
    LET lost == IfacesOf(h)
    IN  /\ hosts' = hosts \ {h}
        /\ ifaces' = [i \in Iface |-> IF i \in lost THEN NoRow ELSE ifaces[i]]
        /\ services' = [s \in Service |->
             IF services[s] = NoRow \/ s \in ServicesOf(h) THEN NoRow
             ELSE [services[s] EXCEPT !.ifaces = @ \ lost]]
        /\ UNCHANGED daemons

-----------------------------------------------------------------------------
(* Reports and creation *)

(* create_with_children: a report about a known address goes to that host,  *)
(* and a user's creation is refused.                                        *)
Submit(r, h, as, def, discovered) ==
    LET found == MatchingHosts(as)
    IN  /\ at[r] = "idle"
        /\ discovered \/ (found = {} /\ h \notin hosts)
        /\ at' = [at EXCEPT ![r] = "create"]
        /\ \E t \in (IF found = {} THEN {h} ELSE found) :
             target' = [target EXCEPT ![r] = t]
        /\ report' = [report EXCEPT ![r] =
                       [addrs |-> as, def |-> def, discovered |-> discovered]]
        /\ UNCHANGED <<rows, lock, other, bound, known, moves, shifts, remap>>

(* create, under the host's lock: inserts the row unless there is one. *)
CreateHost(r) ==
    /\ at[r] = "create"
    /\ lock[target[r]] = Free
    /\ hosts' = hosts \cup {target[r]}
    /\ at' = [at EXCEPT ![r] = "iface"]
    /\ UNCHANGED <<ifaces, services, daemons, lock, target, other, report, bound,
                   known, moves, shifts, remap>>

(* An interface: one that the host has, for a report, or a new row. *)
CreateIface(r) ==
    LET h == target[r]
    IN  /\ at[r] = "iface"
        /\ \E a \in report[r].addrs :
             LET here == At(h, a)
                 fails == h \notin hosts \/ (here # {} /\ ~report[r].discovered)
             IN  \/ /\ fails
                    /\ Done(r)
                    /\ UNCHANGED ifaces
                 \/ /\ ~fails
                    /\ \E i \in (IF here = {} THEN FirstFree(ifaces) ELSE here) :
                         /\ ifaces' = [ifaces EXCEPT ![i] = [host |-> h, addr |-> a]]
                         /\ bound' = [bound EXCEPT ![r] = i]
                    /\ report' = [report EXCEPT ![r].addrs = @ \ {a}]
                    /\ UNCHANGED <<lock, at, target, other, known, moves, shifts, remap>>
        /\ UNCHANGED <<hosts, services, daemons>>

(* The service: dropped if another has the binding, merged with the one of  *)
(* its definition, or a new row.                                            *)
CreateService(r) ==
    LET h == target[r]
        same == {s \in ServicesOf(h) : services[s].def = report[r].def}
    IN  /\ at[r] = "iface"
        /\ report[r].addrs = {}
        /\ \/ /\ h \notin hosts \/ ifaces[bound[r]] = NoRow
                   \/ Claimants(h, NoRow, {bound[r]}) # {}
              /\ UNCHANGED services
           \/ /\ h \in hosts /\ ifaces[bound[r]] # NoRow
              /\ Claimants(h, NoRow, {bound[r]}) = {}
              /\ \E s \in (IF same = {} THEN FirstFree(services) ELSE same) :
                   services' = [services EXCEPT ![s] =
                     [host |-> h, def |-> report[r].def,
                      ifaces |-> {bound[r]} \cup (IF same = {} THEN {} ELSE @.ifaces)]]
        /\ Done(r)
        /\ UNCHANGED <<hosts, ifaces, daemons>>

(* A daemon registers: discover_host makes a host without interfaces, and   *)
(* then the row of the daemon refers to it.                                 *)
Register(r, h) ==
    /\ at[r] = "idle"
    /\ h \notin hosts \cup daemons
    /\ hosts' = hosts \cup {h}
    /\ target' = [target EXCEPT ![r] = h]
    /\ at' = [at EXCEPT ![r] = "daemon"]
    /\ UNCHANGED <<ifaces, services, daemons, lock, other, report, bound, known,
                   moves, shifts, remap>>

CreateDaemon(r) ==
    /\ at[r] = "daemon"
    /\ daemons' = daemons \cup {target[r]}
    /\ Done(r)
    /\ UNCHANGED <<hosts, ifaces, services>>

DeleteDaemon(h) ==
    /\ h \in daemons
    /\ daemons' = daemons \ {h}
    /\ UNCHANGED <<hosts, ifaces, services, lock, request>>
-----------------------------------------------------------------------------
(* Consolidation *)

(* The handler finds both hosts; one with a daemon is not merged away. *)
Consolidate(r, d, o) ==
    /\ at[r] = "idle"
    /\ d # o
    /\ {d, o} \subseteq hosts
    /\ o \notin daemons
    /\ at' = [at EXCEPT ![r] = "lock"]
    /\ target' = [target EXCEPT ![r] = d]
    /\ other' = [other EXCEPT ![r] = o]
    /\ UNCHANGED <<rows, lock, report, bound, known, moves, shifts, remap>>

(* The destination's lock, which is held to the end. *)
LockDestination(r) ==
    /\ at[r] = "lock"
    /\ lock[target[r]] = Free
    /\ lock' = [lock EXCEPT ![target[r]] = {r}]
    /\ at' = [at EXCEPT ![r] = "read"]
    /\ UNCHANGED <<rows, target, other, report, bound, known, moves, shifts, remap>>

(* The interfaces of a host, as read. *)
Seen(h) == {<<i, ifaces[i].addr>> : i \in IfacesOf(h)}

ReadIfaces(r) ==
    /\ at[r] = "read"
    /\ known' = [known EXCEPT ![r] = Seen(target[r])]
    /\ moves' = [moves EXCEPT ![r] = Seen(other[r])]
    /\ at' = [at EXCEPT ![r] = "iface moves"]
    /\ UNCHANGED <<rows, lock, target, other, report, bound, shifts, remap>>

(* Mutant: any interface of the destination will do. *)
AnyTwin(a, read) == {x[1] : x \in read}

(* The interfaces of the destination at the address. *)
Twins(a, read) == {x[1] : x \in {y \in read : y[2] = a}}

(* An interface is mapped to the destination's at its address, or moved. *)
MoveIface(r) ==
    /\ at[r] = "iface moves"
    /\ \E m \in moves[r] :
         LET i == m[1]
             twins == Twins(m[2], known[r])
         IN  \/ /\ twins # {}
                /\ \E t \in twins : remap' = [remap EXCEPT ![r][i] = t]
                /\ moves' = [moves EXCEPT ![r] = @ \ {m}]
                /\ UNCHANGED <<ifaces, lock, at, target, other, report, bound,
                               known, shifts>>
             \/ /\ twins = {}
                /\ ifaces[i] # NoRow /\ target[r] \in hosts
                /\ ifaces' = [ifaces EXCEPT ![i].host = target[r]]
                /\ remap' = [remap EXCEPT ![r][i] = i]
                /\ moves' = [moves EXCEPT ![r] = @ \ {m}]
                /\ UNCHANGED <<lock, at, target, other, report, bound, known, shifts>>
             \/ /\ twins = {}
                /\ ifaces[i] = NoRow \/ target[r] \notin hosts
                /\ Done(r)
                /\ UNCHANGED ifaces
    /\ UNCHANGED <<hosts, services, daemons>>

(* The services, without those whose definition the destination has. *)
ReadServices(r) ==
    LET there == {services[s].def : s \in ServicesOf(target[r])}
    IN  /\ at[r] = "iface moves"
        /\ moves[r] = {}
        /\ shifts' = [shifts EXCEPT ![r] =
             {<<s, services[s].ifaces>> :
                 s \in {u \in ServicesOf(other[r]) : services[u].def \notin there}}]
        /\ at' = [at EXCEPT ![r] = "service moves"]
        /\ UNCHANGED <<rows, lock, target, other, report, bound, known, moves, remap>>

(* ServiceService::update: the bindings must be the destination's, and free.*)
(* If not, consolidation fails with what it has done so far.                *)
MoveService(r) ==
    /\ at[r] = "service moves"
    /\ \E m \in shifts[r] :
         LET s == m[1]
             bs == {remap[r][b] : b \in m[2]}
             valid == /\ services[s] # NoRow /\ target[r] \in hosts
                      /\ bs \ {AllIfaces} \subseteq IfacesOf(target[r])
                      /\ Claimants(target[r], s, bs) = {}
         IN  \/ /\ valid
                /\ services' = [services EXCEPT ![s].host = target[r],
                                                ![s].ifaces = bs]
                /\ shifts' = [shifts EXCEPT ![r] = @ \ {m}]
                /\ UNCHANGED <<lock, at, target, other, report, bound, known, moves,
                               remap>>
             \/ /\ ~valid
                /\ Done(r)
                /\ UNCHANGED services
    /\ UNCHANGED <<hosts, ifaces, daemons>>

-----------------------------------------------------------------------------
(* Deletion *)

(* Mutant: no check for daemons. *)
AnyHost(h) == h \in hosts

(* The checks of a deletion. *)
Deletable(h) == h \in hosts /\ h \notin daemons

(* delete_host, at the end of a consolidation, takes the second lock. *)
CheckOther(r) ==
    /\ at[r] = "service moves"
    /\ shifts[r] = {}
    /\ IF Deletable(other[r])
       THEN /\ at' = [at EXCEPT ![r] = "delete"]
            /\ UNCHANGED <<lock, target, other, report, bound, known, moves, shifts,
                           remap>>
       ELSE Done(r)
    /\ UNCHANGED rows

DeleteOther(r) ==
    /\ at[r] = "delete"
    /\ lock[other[r]] = Free
    /\ Cascade(other[r])
    /\ Done(r)

(* A user deletes a host: a check, and later the deletion, without a lock. *)
CheckDelete(r, h) ==
    /\ at[r] = "idle"
    /\ Deletable(h)
    /\ at' = [at EXCEPT ![r] = "drop"]
    /\ other' = [other EXCEPT ![r] = h]
    /\ UNCHANGED <<rows, lock, target, report, bound, known, moves, shifts, remap>>

Drop(r) ==
    /\ at[r] = "drop"
    /\ Cascade(other[r])
    /\ Done(r)

(* The server stops: requests end where they are. *)
Crash(r) ==
    /\ at[r] # "idle"
    /\ Done(r)
    /\ UNCHANGED rows

-----------------------------------------------------------------------------
Step(r) ==
    \/ CreateHost(r) \/ CreateIface(r) \/ CreateService(r)
    \/ CreateDaemon(r)
    \/ LockDestination(r) \/ ReadIfaces(r) \/ MoveIface(r)
    \/ ReadServices(r) \/ MoveService(r)
    \/ CheckOther(r) \/ DeleteOther(r)
    \/ Drop(r)

Arrive(r) ==
    \/ \E h \in Host, as \in (SUBSET Addr) \ {{}}, def \in Definition, discovered \in BOOLEAN :
         Submit(r, h, as, def, discovered)
    \/ \E h \in Host : Register(r, h)
    \/ \E d, o \in Host : Consolidate(r, d, o)
    \/ \E h \in Host : CheckDelete(r, h)

Next ==
    \/ \E r \in Request : Arrive(r) \/ Step(r) \/ Crash(r)
    \/ \E h \in Host : DeleteDaemon(h)

Spec == Init /\ [][Next]_vars

(* The server does not stop. *)
CrashFreeSpec == Init /\ [][\E r \in Request : Arrive(r) \/ Step(r)]_vars

-----------------------------------------------------------------------------
Addresses(h) == {ifaces[i].addr : i \in IfacesOf(h)}

Shared == {a \in Addr : \E h, g \in Host : h # g /\ a \in Addresses(h) \cap Addresses(g)}

(* An address gets a second host only from a daemon's report, which joins it *)
(* to an interface the first host found has (the report is of a machine that *)
(* two hosts were recorded for): never from a user's creation, for a host    *)
(* without interfaces, from a consolidation, or from what a stop left behind *)
(* (find_matching_host_by_interfaces).                                       *)
TwinsAreReported ==
    [][Shared' \subseteq Shared \/
           \E r \in Request : /\ CreateIface(r)
                              /\ report[r].discovered
                              /\ Addresses(target[r]) # {}]_vars

(* A daemon's row refers to a host there is: neither a deletion nor a        *)
(* consolidation takes it away, when requests come one after another         *)
(* (daemons.host_id has no foreign key; two requests that overlap can).      *)
DaemonKeepsHost == daemons \subseteq hosts

(* Only a user's deletion makes an address unknown: consolidation has moved  *)
(* or mapped every interface of the host that it deletes, and a failure or a *)
(* stop in the middle loses none.                                            *)
AddressesKept ==
    [][(\A r \in Request : ~Drop(r)) =>
           \A h \in Host : \A a \in Addresses(h) :
               \E g \in Host : a \in Addresses(g)']_vars

(* A service is bound to interfaces of its own host while no consolidation   *)
(* is in progress ("Validate bindings reference ports/interfaces on the      *)
(* service's host").                                                         *)
BindingsAtHome ==
    (\A r \in Request : at[r] = "idle") =>
        \A h \in Host : \A s \in ServicesOf(h) :
            services[s].ifaces \ {AllIfaces} \subseteq IfacesOf(h)
=============================================================================
