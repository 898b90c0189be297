--------------------------- MODULE ServiceBindings --------------------------
(***************************************************************************)
(* Services of one host and the ports they are bound to                    *)
(* (backend/src/server/services/service.rs, and the services of a report   *)
(* in hosts/service.rs create_with_children).                              *)
(*                                                                         *)
(* A discovery report lists services.  A service that claims a port of     *)
(* another one is dropped, and its other bindings go to the service "Open  *)
(* Ports"; a service the host already has is merged with it.  Users create,*)
(* update and delete services in between.  The database is read and        *)
(* written in separate calls, and the lock each operation takes is that of *)
(* the id it was given.                                                    *)
(*                                                                         *)
(* Two services of one definition are the same service: definitions are    *)
(* those that are not generic, and "Open Ports".  Ports and interfaces of  *)
(* a report are those of the host, created before its services.  Groups,   *)
(* tags, positions and sources are left out.                               *)
(***************************************************************************)
EXTENDS Naturals, Sequences

CONSTANTS
    Service,    \* ids of services; an id is never used twice
    Definition, \* service definitions
    OpenPorts,  \* the one that collects unclaimed ports
    Port, Iface,
    Request,    \* requests in progress at once
    Reports,    \* bound: the reports a daemon may send
    Edits,      \* bound: the sets of bindings a user may submit
    Whole,      \* for the port of a binding to an interface
    All,        \* for the interface of a binding to all interfaces
    NoService,  \* an id that no service has had yet
    Gone        \* an id whose service was deleted

ASSUME DefinitionAssumption == OpenPorts \in Definition
ASSUME BindingAssumption == Whole \notin Port /\ All \notin Iface

Binding ==
    [port : Port, iface : Iface \cup {All}] \cup [port : {Whole}, iface : Iface]
Row == [def : Definition, bindings : SUBSET Binding, discovered : BOOLEAN]
Report == [def : Definition, bindings : SUBSET Binding]

ASSUME RowAssumption ==
    /\ NoService \notin Service \cup Row
    /\ Gone \notin Row \cup {NoService}

(* The daemon binds a service to ports or to its interface, never to both;  *)
(* two services of a report may have one port.                             *)
ASSUME ReportAssumption ==
    /\ Reports \subseteq Seq(Report)
    /\ \A report \in Reports : \A i \in DOMAIN report :
         \A b, c \in report[i].bindings : (b.port = Whole) = (c.port = Whole)
ASSUME EditAssumption == Edits \subseteq SUBSET Binding

VARIABLES
    services, \* the services of the host
    at,       \* a request's position
    todo,     \* the services of its report it has not handled
    claimed,  \* batch_claimed
    orphans,  \* orphaned_bindings
    work,     \* the service it creates or updates
    target,   \* the row it writes
    lock      \* the request that holds a service's lock, if any

request == <<at, todo, claimed, orphans, work, target>>
vars == <<services, request, lock>>

NoReport == [def |-> OpenPorts, bindings |-> {}]

ServicesTypeOK ==
    /\ services \in [Service -> Row \cup {NoService, Gone}]
    /\ at \in [Request -> {"idle", "partition", "create", "upsert", "insert",
                           "save"}]
    /\ todo \in [Request -> Seq(Report)]
    /\ claimed \in [Request -> SUBSET Binding]
    /\ orphans \in [Request -> SUBSET Binding]
    /\ work \in [Request -> Report]
    /\ target \in [Request -> Service \cup {NoService}]
    /\ lock \in [Service -> SUBSET Request]

Init ==
    /\ services = [s \in Service |-> NoService]
    /\ at = [r \in Request |-> "idle"]
    /\ todo = [r \in Request |-> <<>>]
    /\ claimed = [r \in Request |-> {}]
    /\ orphans = [r \in Request |-> {}]
    /\ work = [r \in Request |-> NoReport]
    /\ target = [r \in Request |-> NoService]
    /\ lock = [s \in Service |-> {}]

-----------------------------------------------------------------------------
(* Bindings *)

IsPort(b) == b.port # Whole
Existing == {s \in Service : services[s] \notin {NoService, Gone}}
Unused == {s \in Service : services[s] = NoService}

(* Two services cannot both have these: one port, a common interface. *)
Overlaps(b, c) ==
    /\ IsPort(b)
    /\ b.port = c.port
    /\ b.iface = c.iface \/ b.iface = All \/ c.iface = All

(* One service cannot have both: an interface and a port on it. *)
Excludes(b, c) ==
    /\ IsPort(b) # IsPort(c)
    /\ b.iface = c.iface \/ b.iface = All \/ c.iface = All

(* A port on all interfaces makes c redundant. *)
Covers(b, c) ==
    /\ IsPort(b)
    /\ b.port = c.port
    /\ b.iface = All
    /\ c.iface # All

(* deduplicate_bindings *)
Deduplicated(bs) == {c \in bs : \A b \in bs : ~Covers(b, c)}

(* validate_bindings_no_conflicts *)
NoConflicts(bs) == \A b, c \in bs : ~Excludes(b, c)

(* The bindings of the services other than s. *)
ClaimedByOthers(s) ==
    UNION {services[u].bindings : u \in Existing \ {s}}

(* validate_bindings_available, partition_conflicting_bindings *)
Conflicting(bs, taken) == {b \in bs : \E c \in taken : Overlaps(b, c)}

(* Mutant: a claim without its interface. *)
ClaimedNumbers(bs) == {b.port : b \in bs}

(* batch_claimed: the ports of a service, which the rest of the report may  *)
(* not have.                                                                *)
Claims(bs) == {b \in bs : IsPort(b)}

(* Mutant: a merge that only appends. *)
AppendedBindings(old, new) == old \cup new

(* upsert_service: the bindings of a service that is found again. *)
MergedBindings(old, new) ==
    LET added == {b \in new : \A c \in old : ~Covers(c, b) /\ ~Excludes(b, c)}
    IN  {c \in old : \A b \in added : ~Covers(b, c)} \cup added

(* Service::eq for services of one host. *)
Matching(def) == {s \in Existing : services[s].def = def}

-----------------------------------------------------------------------------
Done(r) ==
    /\ at' = [at EXCEPT ![r] = "idle"]
    /\ todo' = [todo EXCEPT ![r] = <<>>]
    /\ claimed' = [claimed EXCEPT ![r] = {}]
    /\ orphans' = [orphans EXCEPT ![r] = {}]
    /\ work' = [work EXCEPT ![r] = NoReport]
    /\ target' = [target EXCEPT ![r] = NoService]

(* A daemon reports the host: its services are handled in order. *)
DiscoverHost(r, report) ==
    /\ at[r] = "idle"
    /\ at' = [at EXCEPT ![r] = "partition"]
    /\ todo' = [todo EXCEPT ![r] = report]
    /\ UNCHANGED <<services, claimed, orphans, work, target, lock>>

(* Mutant: only the claims of the report itself. *)
TakenInReport(r) == claimed[r]

(* What a service of the report conflicts with: all_claimed. *)
Taken(r) == ClaimedByOthers(NoService) \cup claimed[r]

(* The next service of the report, if it claims nothing that is taken. *)
Partition(r) ==
    LET next == Head(todo[r])
        bad == Conflicting(next.bindings, Taken(r))
    IN  /\ at[r] = "partition"
        /\ todo[r] # <<>>
        /\ todo' = [todo EXCEPT ![r] = Tail(@)]
        /\ IF bad = {}
           THEN /\ claimed' = [claimed EXCEPT ![r] = @ \cup Claims(next.bindings)]
                /\ work' = [work EXCEPT ![r] =
                             [next EXCEPT !.bindings = Deduplicated(@)]]
                /\ at' = [at EXCEPT ![r] = "create"]
                /\ UNCHANGED orphans
           ELSE /\ orphans' = [orphans EXCEPT ![r] = @ \cup (next.bindings \ bad)]
                /\ UNCHANGED <<claimed, work, at>>
        /\ UNCHANGED <<services, target, lock>>

(* The report ends; orphaned bindings go to Open Ports. *)
EndReport(r) ==
    /\ at[r] = "partition"
    /\ todo[r] = <<>>
    /\ IF orphans[r] = {}
       THEN Done(r)
       ELSE /\ work' = [work EXCEPT ![r] =
                         [def |-> OpenPorts,
                          bindings |-> Deduplicated(orphans[r])]]
            /\ orphans' = [orphans EXCEPT ![r] = {}]
            /\ at' = [at EXCEPT ![r] = "create"]
            /\ UNCHANGED <<todo, claimed, target>>
    /\ UNCHANGED <<services, lock>>

(* create reads the host's services: it merges with the first that is the   *)
(* same service if that one was discovered too, and otherwise inserts, after*)
(* a check of the bindings against one another only.  A failure ends the    *)
(* report.                                                                  *)
Create(r) ==
    /\ at[r] = "create"
    /\ \/ \E s \in Matching(work[r].def) :
           /\ services[s].discovered
           /\ target' = [target EXCEPT ![r] = s]
           /\ work' = [work EXCEPT ![r].bindings =
                        MergedBindings(services[s].bindings, @)]
           /\ at' = [at EXCEPT ![r] = "upsert"]
           /\ UNCHANGED <<todo, claimed, orphans>>
       \/ /\ \/ Matching(work[r].def) = {}
             \/ \E s \in Matching(work[r].def) : ~services[s].discovered
          /\ IF NoConflicts(work[r].bindings)
             THEN /\ at' = [at EXCEPT ![r] = "insert"]
                  /\ UNCHANGED <<todo, claimed, orphans, work, target>>
             ELSE Done(r)
    /\ UNCHANGED <<services, lock>>

(* The next service of the report, once one has been written. *)
Resume(r) ==
    /\ at' = [at EXCEPT ![r] = "partition"]
    /\ work' = [work EXCEPT ![r] = NoReport]
    /\ target' = [target EXCEPT ![r] = NoService]
    /\ UNCHANGED <<todo, claimed, orphans>>

(* upsert_service writes the merged bindings.  create holds the lock of the  *)
(* id in the report, not that of the row written here.                      *)
Upsert(r) ==
    LET s == target[r]
    IN  /\ at[r] = "upsert"
        /\ IF s \in Existing
           THEN /\ services' = [services EXCEPT ![s].bindings = work[r].bindings]
                /\ Resume(r)
           ELSE /\ Done(r)
                /\ UNCHANGED services
        /\ UNCHANGED lock

Insert(r) ==
    /\ at[r] = "insert"
    /\ \E s \in Unused :
         /\ lock[s] = {}
         /\ services' = [services EXCEPT ![s] =
              [def |-> work[r].def, bindings |-> work[r].bindings, discovered |-> TRUE]]
    /\ Resume(r)
    /\ UNCHANGED lock

-----------------------------------------------------------------------------
(* Requests of users *)

(* The checks of create and update: an availability check of the bindings   *)
(* against the host's other services follows those of the set itself.       *)
Acceptable(s, bs) ==
    /\ NoConflicts(bs)
    /\ Conflicting(bs, ClaimedByOthers(s)) = {}

(* create or update of a service up to the write: an id that is free is one *)
(* that a create made up.                                                   *)
Submit(r, s, def, bs) ==
    LET kept == Deduplicated(bs)
    IN  /\ at[r] = "idle"
        /\ lock[s] = {}
        /\ s \in Unused \/ (s \in Existing /\ services[s].def = def)
        /\ Acceptable(s, kept)
        /\ at' = [at EXCEPT ![r] = "save"]
        /\ work' = [work EXCEPT ![r] = [def |-> def, bindings |-> kept]]
        /\ target' = [target EXCEPT ![r] = s]
        /\ lock' = [lock EXCEPT ![s] = {r}]
        /\ UNCHANGED <<services, todo, claimed, orphans>>

(* The write; a service a user makes is not a discovered one. *)
Save(r) ==
    LET s == target[r]
    IN  /\ at[r] = "save"
        /\ services' = [services EXCEPT ![s] =
             [def |-> work[r].def, bindings |-> work[r].bindings,
              discovered |-> s \in Existing /\ services[s].discovered]]
        /\ lock' = [lock EXCEPT ![s] = {}]
        /\ Done(r)

Delete(s) ==
    /\ s \in Existing
    /\ lock[s] = {}
    /\ services' = [services EXCEPT ![s] = Gone]
    /\ UNCHANGED <<request, lock>>

-----------------------------------------------------------------------------
Next ==
    \/ \E r \in Request :
         \/ \E report \in Reports : DiscoverHost(r, report)
         \/ Partition(r)
         \/ EndReport(r)
         \/ Create(r)
         \/ Upsert(r)
         \/ Insert(r)
         \/ \E s \in Service, def \in Definition, bs \in Edits :
              Submit(r, s, def, bs)
         \/ Save(r)
    \/ \E s \in Service : Delete(s)

Spec == Init /\ [][Next]_vars

-----------------------------------------------------------------------------
(* No service holds two bindings that exclude or cover one another,          *)
(* whatever the sequence of reports, merges and edits that led to it         *)
(* (upsert_service merges without a check of the result).                    *)
SelfConsistent ==
    \A s \in Existing :
        /\ NoConflicts(services[s].bindings)
        /\ Deduplicated(services[s].bindings) = services[s].bindings

SharesPort(s, u) ==
    s # u /\ Conflicting(services[s].bindings, services[u].bindings) # {}

(* A named service does not hold a port of another named one, if requests    *)
(* other than deletions come one after another: the claims of a report, with *)
(* each other and with what the host has, the merges and the edits stay      *)
(* apart (partition_conflicting_bindings, validate_bindings_available).      *)
NamedApart ==
    \A s, u \in Existing :
        SharesPort(s, u) => services[s].def = OpenPorts \/ services[u].def = OpenPorts

(* "A binding conflicts if another service on the same host already has a    *)
(* port binding to the same port": the orphans of a dropped service escape   *)
(* that check, and Open Ports may share a port with a later service of the   *)
(* report.                                                                   *)
NoSharedPort == \A s, u \in Existing : ~SharesPort(s, u)

(* upsert_service never writes a row while an update holds its lock: it      *)
(* "assumes the caller already holds the service lock".                      *)
UpsertIsExclusive ==
    [][\A r \in Request : Upsert(r) => lock[target[r]] = {}]_vars
=============================================================================
