------------------------- MODULE TopologyStaleness --------------------------
(***************************************************************************)
(* Topologies of one network, the entities they show, and the events that  *)
(* tell them apart (backend/src/server/topology, shared/events/bus.rs,     *)
(* shared/services/traits.rs).                                             *)
(*                                                                         *)
(* A topology stores copies of the network's entities, a graph built from  *)
(* them, and a flag that tells the user that the graph is out of date.     *)
(* Entity services write the database and then publish an event; the event *)
(* bus collects events for 200 ms and hands the batch to the topology      *)
(* service, which reads every topology, marks or refreshes it and writes   *)
(* it back.  Routes read, change and write the same rows without a lock.   *)
(*                                                                         *)
(* Entities are hosts, told apart by what triggers_staleness looks at; an  *)
(* update may leave that alone (a new name).  What the routes for nodes,   *)
(* edges, metadata and locks change is left out: such a route writes back  *)
(* the row it has read.  Of the rows sent to the user interface only their *)
(* age is kept.                                                            *)
(***************************************************************************)
EXTENDS Naturals, Sequences

CONSTANTS
    Host,        \* ids of hosts; an id is never used twice
    Shape,       \* what triggers_staleness tells apart of a host
    Topology,    \* ids of topologies of the network
    Writer,      \* requests that change hosts at once
    Route,       \* requests on topologies at once
    MaxPending,  \* bound: events of requests collected at once
    NotYet, Gone, NoRow

ASSUME PendingAssumption == MaxPending \in Nat \ {0}
ASSUME RequestAssumption == Writer \cap Route = {}

Hosts == [Host -> Shape \cup {NotYet, Gone}]

(* What the graph is built from. *)
Structure(hs) == [h \in Host |-> IF hs[h] \in Shape THEN hs[h] ELSE Gone]

(* The hosts that get_entity_data returns. *)
Present(hs) == {h \in Host : hs[h] \in Shape}

Row ==
    [hosts : SUBSET Host,      \* the hosts whose data it holds
     graph : [Host -> Shape \cup {Gone}],
     stale : BOOLEAN,          \* is_stale
     removed : SUBSET Host]    \* removed_hosts

ASSUME RowAssumption == NoRow \notin Row

HostEvent == [kind : {"host"}, id : Host, removed : BOOLEAN, stale : BOOLEAN]
CreatedEvent == [kind : {"created"}, id : Topology]
UpdatedEvent ==
    [kind : {"updated"}, id : Topology,
     system : BOOLEAN,   \* written by the topology service, or by a user
     latest : BOOLEAN]   \* carries the row as it is stored now
Event == HostEvent \cup CreatedEvent \cup UpdatedEvent

VARIABLES
    hosts,   \* the host table
    topo,    \* the topology table
    pending, \* events collected for the topology service, first ones kept
    batch,   \* the events it is handling; their order does not matter
    copies,  \* the topologies it has read
    fresh,   \* the hosts it has read
    stage,   \* its position
    at,      \* position of a request, a writer's or a route's
    work,    \* what the request works on
    shown,   \* the user interface was last sent the row as it is stored
    raced,   \* history: routes during which a batch was applied
    missed   \* history: topologies whose stale flag a race may have lost

database == <<hosts, topo>>
subscriber == <<pending, batch, copies, fresh, stage>>
history == <<raced, missed>>
requests == <<at, work>>
vars == <<database, subscriber, requests, shown, history>>

Idle == [op |-> "none"]

TopologyTypeOK ==
    /\ hosts \in Hosts
    /\ topo \in [Topology -> Row \cup {NoRow}]
    /\ pending \in Seq(Event)
    /\ batch \subseteq HostEvent \cup CreatedEvent
    /\ copies \in [Topology -> Row \cup {NoRow}]
    /\ fresh \subseteq Host
    /\ at \in [Writer \cup Route -> {"idle", "write", "publish"}]
    /\ shown \subseteq Topology
    /\ stage \in {"idle", "read", "write"}
    /\ raced \subseteq Route
    /\ missed \subseteq Topology

Init ==
    /\ hosts = [h \in Host |-> NotYet]
    /\ topo = [t \in Topology |-> NoRow]
    /\ pending = <<>>
    /\ batch = {}
    /\ copies = [t \in Topology |-> NoRow]
    /\ fresh = {}
    /\ at = [p \in Writer \cup Route |-> "idle"]
    /\ work = [p \in Writer \cup Route |-> Idle]
    /\ shown = {}
    /\ stage = "idle"
    /\ raced = {}
    /\ missed = {}

-----------------------------------------------------------------------------
(* The event bus.  Event equality leaves out the entity itself, and a      *)
(* batch keeps the first of equal events.                                  *)
SameEvent(e, f) ==
    /\ e.kind = f.kind
    /\ e.id = f.id
    /\ e.kind = "host" => e = f
    /\ e.kind = "updated" => e.system = f.system

Published(queue, e) ==
    IF \E i \in 1..Len(queue) : SameEvent(queue[i], e)
    THEN queue ELSE Append(queue, e)

Publish(e) ==
    /\ Len(Published(pending, e)) <= MaxPending
    /\ pending' = Published(pending, e)

(* t is written: older events and what was shown carry an older row. *)
Aged(t) ==
    [i \in 1..Len(pending) |->
       IF pending[i].kind = "updated" /\ pending[i].id = t
       THEN [pending[i] EXCEPT !.latest = FALSE] ELSE pending[i]]

PublishRow(t, system) ==
    LET e == [kind |-> "updated", id |-> t, system |-> system, latest |-> TRUE]
    IN  /\ system \/ Len(Published(Aged(t), e)) <= MaxPending
        /\ pending' = Published(Aged(t), e)

Go(p, label, what) ==
    /\ at' = [at EXCEPT ![p] = label]
    /\ work' = [work EXCEPT ![p] = what]

(* History: the flags of these topologies may be lost, and a route that    *)
(* has read its row cannot tell.                                           *)
Open == {r \in Route : at[r] = "write"}

MayMiss(ts) ==
    /\ missed' = missed \cup ts
    /\ raced' = IF ts = {} THEN raced ELSE raced \cup Open

Existing == {t \in Topology : topo[t] # NoRow}

-----------------------------------------------------------------------------
(* Changes of hosts: CrudService create, update, delete and delete_many *)

(* What triggers_staleness says of a change from old to new. *)
TriggersStaleness(old, new) == old # new

(* The row is read; a deletion of many publishes before it deletes. *)
BeginChange(w, h, new, many) ==
    /\ at[w] = "idle"
    /\ hosts[h] # Gone
    /\ hosts[h] = NotYet => new \in Shape
    /\ many => new = Gone
    /\ Go(w, IF many THEN "publish" ELSE "write",
          [op |-> IF many THEN "delete_many" ELSE "change",
           host |-> h, old |-> hosts[h], new |-> new])
    /\ UNCHANGED <<database, subscriber, shown, history>>

(* The event of a change that makes graphs out of date. *)
Marks(e) == e.kind = "host" /\ e.stale

(* The event of the change will not do when the row was changed by another *)
(* request since it was read, or was deleted after its event was handled.  *)
WriteHost(w) ==
    LET c == work[w]
        late == \/ hosts[c.host] # c.old
                \/ /\ c.op = "delete_many"
                   /\ \A i \in 1..Len(pending) :
                          ~(Marks(pending[i]) /\ pending[i].id = c.host)
    IN  /\ at[w] = "write"
        /\ hosts' = IF hosts[c.host] = Gone THEN hosts
                    ELSE [hosts EXCEPT ![c.host] = c.new]
        /\ MayMiss(IF late THEN Topology ELSE {})
        /\ IF c.op = "delete_many"
           THEN Go(w, "idle", Idle)
           ELSE Go(w, "publish", c)
        /\ UNCHANGED <<topo, subscriber, shown>>

PublishHost(w) ==
    LET c == work[w]
    IN  /\ at[w] = "publish"
        /\ Publish([kind |-> "host", id |-> c.host, removed |-> c.new = Gone,
                    stale |-> TriggersStaleness(c.old, c.new)])
        /\ IF c.op = "delete_many"
           THEN Go(w, "write", c)
           ELSE Go(w, "idle", Idle)
        /\ UNCHANGED <<database, batch, copies, fresh, stage, shown, history>>

-----------------------------------------------------------------------------
(* Routes on topologies *)

Built(hs) ==
    [hosts |-> Present(hs), graph |-> Structure(hs), stale |-> FALSE,
     removed |-> {}]

Refreshed(row, hs) == [row EXCEPT !.hosts = Present(hs)]

BeginRoute(r, t, op) ==
    /\ at[r] = "idle"
    /\ t \in Existing
    /\ Go(r, "write", [op |-> op, topology |-> t, row |-> topo[t],
                       hosts |-> hosts])
    /\ UNCHANGED <<database, subscriber, shown, history>>

(* The row a route writes. *)
NewRow(c) ==
    CASE c.op = "rebuild" -> Built(c.hosts)
      [] c.op = "refresh" -> Refreshed(c.row, c.hosts)
      [] c.op = "edit"    -> c.row

(* It overwrites what a batch or another route has written since it read. *)
EndRoute(r) ==
    LET c == work[r]
        t == c.topology
        row == NewRow(c)
    IN  /\ at[r] = "write"
        /\ c.op # "create"
        /\ topo' = [topo EXCEPT ![t] = row]
        /\ PublishRow(t, FALSE)
        /\ shown' = shown \ {t}
        /\ missed' = IF topo[t] # c.row \/ r \in raced THEN missed \cup {t}
                     ELSE IF c.op = "rebuild" THEN missed \ {t}
                     ELSE missed
        /\ Go(r, "idle", Idle)
        /\ raced' = raced \ {r}
        /\ UNCHANGED <<hosts, batch, copies, fresh, stage>>

BeginCreate(r, t) ==
    /\ at[r] = "idle"
    /\ t \notin Existing
    /\ \A q \in Route : work[q].op = "create" => work[q].topology # t
    /\ Go(r, "write", [op |-> "create", topology |-> t, hosts |-> hosts])
    /\ UNCHANGED <<database, subscriber, shown, history>>

EndCreate(r) ==
    LET c == work[r]
        t == c.topology
    IN  /\ at[r] = "write"
        /\ c.op = "create"
        /\ topo' = [topo EXCEPT ![t] = Built(c.hosts)]
        /\ Publish([kind |-> "created", id |-> t])
        /\ shown' = shown \cup {t}
        /\ Go(r, "idle", Idle)
        /\ missed' = IF hosts # c.hosts THEN missed \cup {t} ELSE missed
        /\ raced' = raced \ {r}
        /\ UNCHANGED <<hosts, batch, copies, fresh, stage>>

-----------------------------------------------------------------------------
(* The topology service handles a batch *)

IsUpdate(e) == e.kind = "updated"

(* The events of a batch that change topologies. *)
Collected == {e \in {pending[i] : i \in 1..Len(pending)} : ~IsUpdate(e)}

(* Mutant: the bus waits for more events to come. *)
FlushMany ==
    /\ stage = "idle"
    /\ Len(pending) >= MaxPending
    /\ pending' = <<>>
    /\ batch' = Collected
    /\ stage' = "read"
    /\ UNCHANGED <<database, copies, fresh, requests, shown, history>>

(* Rows sent to the user interface are those of the events, in order. *)
Flush ==
    LET rowsOf(t) == {i \in 1..Len(pending) :
                        IsUpdate(pending[i]) /\ pending[i].id = t}
    IN  /\ stage = "idle"
        /\ pending # <<>>
        /\ pending' = <<>>
        /\ batch' = Collected
        /\ stage' = IF Collected = {} THEN "idle" ELSE "read"
        /\ shown' = {t \in Topology :
                       IF rowsOf(t) = {} THEN t \in shown
                       ELSE \E i \in rowsOf(t) : /\ pending[i].latest
                                                 /\ \A j \in rowsOf(t) : j <= i}
        /\ UNCHANGED <<database, copies, fresh, requests, history>>

ReadTopologies ==
    /\ stage = "read"
    /\ copies' = topo
    /\ IF Existing = {}
       THEN stage' = "idle" /\ batch' = {} /\ fresh' = {}
       ELSE stage' = "write" /\ fresh' = Present(hosts) /\ UNCHANGED batch
    /\ UNCHANGED <<database, pending, requests, shown, history>>

MarksStale == \E e \in batch : Marks(e)
ClearsStale == \E e \in batch : e.kind = "created"
Refreshes == \E e \in batch : e.kind = "host" /\ ~e.stale
Removed == {h \in Host : \E e \in batch : e.kind = "host" /\ e.removed /\ e.id = h}

(* Mutant: every id is taken for that of a removed host. *)
AppliedToAll(row) ==
    [row EXCEPT
       !.removed = @ \cup {e.id : e \in batch},
       !.stale = ~ClearsStale /\ (@ \/ MarksStale)]

(* Mutant: the hosts are refreshed and the topology is not marked. *)
AppliedQuietly(row) == [row EXCEPT !.hosts = fresh]

(* What a batch makes of a topology. *)
Applied(row) ==
    [row EXCEPT
       !.removed = @ \cup Removed,
       !.stale = ~ClearsStale /\ (@ \/ MarksStale),
       !.hosts = IF Refreshes /\ Removed = {} THEN fresh ELSE @]

WriteTopology(t) ==
    LET row == Applied(copies[t])
        cleared == ClearsStale /\ (copies[t].stale \/ MarksStale)
    IN  /\ stage = "write"
        /\ copies[t] # NoRow
        /\ topo' = [topo EXCEPT ![t] = row]
        /\ PublishRow(t, TRUE)
        /\ shown' = shown \cup {t}
        /\ copies' = [copies EXCEPT ![t] = NoRow]
        /\ IF \A u \in Topology \ {t} : copies[u] = NoRow
           THEN stage' = "idle" /\ batch' = {} /\ fresh' = {}
           ELSE UNCHANGED <<stage, batch, fresh>>
        /\ raced' = raced \cup Open
        /\ missed' = IF topo[t] # copies[t] \/ cleared
                     THEN missed \cup {t} ELSE missed
        /\ UNCHANGED <<hosts, requests>>

(* A database error ends the batch; flush_batch logs it and goes on. *)
BatchFails ==
    /\ stage # "idle"
    /\ stage' = "idle"
    /\ batch' = {}
    /\ copies' = [t \in Topology |-> NoRow]
    /\ fresh' = {}
    /\ MayMiss(Topology)
    /\ UNCHANGED <<database, pending, requests, shown>>

(* Events are kept in memory only; the page is loaded anew. *)
ServerRestart ==
    /\ pending' = <<>>
    /\ batch' = {}
    /\ copies' = [t \in Topology |-> NoRow]
    /\ stage' = "idle"
    /\ at' = [p \in Writer \cup Route |-> "idle"]
    /\ work' = [p \in Writer \cup Route |-> Idle]
    /\ fresh' = {}
    /\ raced' = {}
    /\ missed' = Topology
    /\ shown' = Existing
    /\ UNCHANGED database

-----------------------------------------------------------------------------
WriterStep(w) == WriteHost(w) \/ PublishHost(w)
RouteStep(r) == EndRoute(r) \/ EndCreate(r)
BatchStep ==
    \/ Flush
    \/ ReadTopologies
    \/ \E t \in Topology : WriteTopology(t)

Next ==
    \/ \E w \in Writer, h \in Host, many \in BOOLEAN :
          \E new \in Shape \cup {Gone} : BeginChange(w, h, new, many)
    \/ \E w \in Writer : WriterStep(w)
    \/ \E r \in Route, t \in Topology :
          \/ \E op \in {"rebuild", "refresh", "edit"} : BeginRoute(r, t, op)
          \/ BeginCreate(r, t)
    \/ \E r \in Route : RouteStep(r)
    \/ BatchStep
    \/ BatchFails
    \/ ServerRestart

Spec == Init /\ [][Next]_vars

(* Requests that were begun end, and the timer of the bus ticks. *)
FairSpec ==
    /\ Spec
    /\ \A w \in Writer : WF_vars(WriterStep(w))
    /\ \A r \in Route : WF_vars(RouteStep(r))
    /\ WF_vars(BatchStep)

-----------------------------------------------------------------------------
(* An event that will mark the topologies has not been applied to t yet. *)
OnItsWay(t) ==
    \/ \E i \in 1..Len(pending) : Marks(pending[i])
    \/ MarksStale /\ (stage = "read" \/ copies[t] # NoRow)
    \/ \E w \in Writer :
          /\ work[w].op = "change"
          /\ at[w] = "publish"
          /\ TriggersStaleness(work[w].old, work[w].new)

OutOfDate(t) == t \in Existing /\ topo[t].graph # Structure(hosts)

(* A graph that no longer matches the hosts is marked stale, or an event   *)
(* that will mark it is on its way: a change that happens while the graph  *)
(* is rebuilt is not forgotten.  The exceptions are those `missed' names:  *)
(* requests and batches that write over each other's rows, two requests    *)
(* for one host, delete_many, which publishes before it deletes, a new     *)
(* topology, which clears every flag of the network, and lost batches.     *)
NothingMissed ==
    \A t \in Topology \ missed :
        OutOfDate(t) => topo[t].stale \/ OnItsWay(t)

(* The same, as what the user sees in the end. *)
StaleIsMarked ==
    \A t \in Topology :
        OutOfDate(t) /\ t \notin missed
            ~> \/ ~OutOfDate(t)
               \/ topo[t].stale
               \/ t \in missed

(* When nothing is in progress the user interface has been sent the        *)
(* topology as it is stored.                                               *)
Quiet ==
    /\ pending = <<>>
    /\ stage = "idle"
    /\ \A p \in Writer \cup Route : at[p] = "idle"

StoredIsShown == Quiet => Existing \subseteq shown
=============================================================================
