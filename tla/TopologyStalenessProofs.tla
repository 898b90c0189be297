---------------------- MODULE TopologyStalenessProofs -----------------------
(***************************************************************************)
(* Proofs about TopologyStaleness: the types of its state and that a graph *)
(* that is out of date is marked or about to be, for any number of hosts,  *)
(* topologies, requests and events.                                        *)
(***************************************************************************)
EXTENDS TopologyStaleness, TLAPS

-----------------------------------------------------------------------------
(* The inductive invariant behind NothingMissed *)

Changes ==
    [op : {"change", "delete_many"}, host : Host,
     old : Shape \cup {NotYet, Gone}, new : Shape \cup {Gone}]
Edits ==
    [op : {"rebuild", "refresh", "edit"}, topology : Topology, row : Row,
     hosts : Hosts]
Creations == [op : {"create"}, topology : Topology, hosts : Hosts]

(* What a request works on fits the request. *)
WorkFits ==
    /\ work \in [Writer \cup Route -> {Idle} \cup Changes \cup Edits \cup Creations]
    /\ \A w \in Writer : at[w] # "idle" => work[w] \in Changes
    /\ \A r \in Route : at[r] # "idle" => work[r] \in Edits \cup Creations

(* What the topology service has read is there only while it handles it. *)
CopiesFit ==
    /\ stage = "idle" => batch = {}
    /\ stage # "write" => \A t \in Topology : copies[t] = NoRow

TypeInv == TopologyTypeOK /\ WorkFits /\ CopiesFit

(* A route works on a topology that is there. *)
RoutesHaveRows ==
    \A r \in Route : at[r] = "write" /\ work[r] \in Edits =>
        work[r].topology \in Existing

(* The hosts a rebuild has read are the ones there are, or an event that   *)
(* will mark its topology comes after it.                                  *)
RebuildsFollowed ==
    \A r \in Route \ raced :
        at[r] = "write" /\ work[r] \in Edits =>
            \/ Structure(work[r].hosts) = Structure(hosts)
            \/ OnItsWay(work[r].topology)

StaleInv == TypeInv /\ RoutesHaveRows /\ RebuildsFollowed /\ NothingMissed

-----------------------------------------------------------------------------
(* What the operators compute *)

(* An event's kind says what it carries. *)
LEMMA EventKinds ==
    /\ \A e \in Event : ~IsUpdate(e) => e \in HostEvent \cup CreatedEvent
    /\ \A e \in Event : Marks(e) => e \in HostEvent /\ ~IsUpdate(e)
    /\ \A e \in UpdatedEvent : [e EXCEPT !.latest = FALSE] \in UpdatedEvent
    /\ \A e \in Event : IsUpdate(e) => e \in UpdatedEvent
  BY DEF Event, HostEvent, CreatedEvent, UpdatedEvent, IsUpdate, Marks

(* A queue holds an event that marks topologies. *)
Marked(q) == \E i \in 1 .. Len(q) : Marks(q[i])

(* The bus loses no event, and the new one is there or was. *)
LEMMA PublishedIs ==
    ASSUME NEW q \in Seq(Event), NEW e \in Event
    PROVE  /\ Published(q, e) \in Seq(Event)
           /\ Marked(q) => Marked(Published(q, e))
           /\ Marks(e) => Marked(Published(q, e))
  <1>1. CASE \E i \in 1 .. Len(q) : SameEvent(q[i], e)
    <2>1. Published(q, e) = q
      BY <1>1 DEF Published
    <2>2. PICK i \in 1 .. Len(q) : SameEvent(q[i], e)
      BY <1>1
    <2>3. Marks(e) => Marks(q[i])
      BY <2>2 DEF SameEvent, Marks
    <2> QED
      BY <2>1, <2>2, <2>3 DEF Marked
  <1>2. CASE ~ \E i \in 1 .. Len(q) : SameEvent(q[i], e)
    <2>1. Published(q, e) = Append(q, e)
      BY <1>2 DEF Published
    <2>2. PICK p : p = Append(q, e)
      OBVIOUS
    <2>3. /\ p \in Seq(Event) /\ Len(p) = Len(q) + 1 /\ p[Len(q) + 1] = e
          /\ \A i \in 1 .. Len(q) : p[i] = q[i]
      BY <2>2
    <2>4. Len(q) + 1 \in 1 .. Len(p) /\ \A i \in 1 .. Len(q) : i \in 1 .. Len(p)
      BY <2>3
    <2> QED
      BY <2>1, <2>2, <2>3, <2>4 DEF Marked
  <1> QED
    BY <1>1, <1>2

LEMMA AgedIs ==
    ASSUME pending \in Seq(Event), NEW t
    PROVE  /\ Aged(t) \in Seq(Event)
           /\ Marked(pending) => Marked(Aged(t))
  <1>1. PICK q \in Seq(Event) : q = pending
    OBVIOUS
  <1>2. PICK n \in Nat : n = Len(q)
    OBVIOUS
  <1> DEFINE f(i) == IF q[i].kind = "updated" /\ q[i].id = t
                     THEN [q[i] EXCEPT !.latest = FALSE] ELSE q[i]
             p == [i \in 1 .. n |-> f(i)]
  <1>3. Aged(t) = p
    BY <1>1, <1>2 DEF Aged
  <1>4. \A i \in 1 .. n : f(i) \in Event /\ (Marks(q[i]) => f(i) = q[i])
    <2>1. ASSUME NEW i \in 1 .. n
          PROVE  f(i) \in Event /\ (Marks(q[i]) => f(i) = q[i])
      <3>1. PICK e \in Event : e = q[i]
        BY <1>2
      <3>2. IsUpdate(e) => [e EXCEPT !.latest = FALSE] \in Event
        BY EventKinds DEF Event
      <3> QED
        BY <3>1, <3>2 DEF IsUpdate, Marks
    <2> QED
      BY <2>1
  <1> HIDE DEF f
  <1>5. p \in Seq(Event) /\ Len(p) = n /\ \A i \in 1 .. n : p[i] = f(i)
    BY <1>2, <1>4
  <1> HIDE DEF p
  <1> QED
    BY <1>1, <1>2, <1>3, <1>4, <1>5 DEF Marked

LEMMA PublishRowIs ==
    ASSUME pending \in Seq(Event), NEW t \in Topology, NEW system \in BOOLEAN,
           PublishRow(t, system)
    PROVE  pending' \in Seq(Event) /\ (Marked(pending) => Marked(pending)')
  <1>1. PICK e : e = [kind |-> "updated", id |-> t, system |-> system, latest |-> TRUE]
    OBVIOUS
  <1>2. e \in Event
    BY <1>1 DEF Event, UpdatedEvent
  <1>3. PICK q : q = Aged(t)
    OBVIOUS
  <1>4. q \in Seq(Event) /\ (Marked(pending) => Marked(q))
    BY <1>3, AgedIs
  <1>5. pending' = Published(q, e)
    BY <1>1, <1>3 DEF PublishRow
  <1>6. Published(q, e) \in Seq(Event) /\ (Marked(q) => Marked(Published(q, e)))
    BY <1>2, <1>4, PublishedIs
  <1>7. Marked(Published(q, e)) => Marked(pending)'
    BY <1>5 DEF Marked, Marks
  <1> QED
    BY <1>4, <1>5, <1>6, <1>7

LEMMA PublishIs ==
    ASSUME pending \in Seq(Event), NEW e \in Event, Publish(e)
    PROVE  /\ pending' \in Seq(Event)
           /\ Marked(pending) \/ Marks(e) => Marked(pending)'
  <1>1. pending' = Published(pending, e)
    BY DEF Publish
  <1>2. PICK q \in Seq(Event) : q = pending
    OBVIOUS
  <1>3. /\ Published(q, e) \in Seq(Event)
        /\ Marked(q) \/ Marks(e) => Marked(Published(q, e))
    BY PublishedIs
  <1>4. Marked(Published(q, e)) => Marked(pending)'
    BY <1>1, <1>2 DEF Marked, Marks
  <1> QED
    BY <1>1, <1>2, <1>3, <1>4

(* The rows that are written. *)
LEMMA BuiltIs ==
    ASSUME NEW hs \in Hosts
    PROVE  /\ Built(hs) \in Row
           /\ Built(hs).graph = Structure(hs)
  BY DEF Built, Present, Structure, Row, Hosts

LEMMA NewRowIs ==
    ASSUME NEW c \in Edits
    PROVE  /\ NewRow(c) \in Row
           /\ \/ NewRow(c).graph = Structure(c.hosts) /\ c.op = "rebuild"
              \/ /\ NewRow(c).graph = c.row.graph /\ NewRow(c).stale = c.row.stale
                 /\ c.op # "rebuild"
  <1>1. /\ c.op \in {"rebuild", "refresh", "edit"} /\ c.row \in Row
        /\ c.hosts \in Hosts
    BY DEF Edits
  <1>2. CASE c.op = "rebuild"
    BY <1>1, <1>2, BuiltIs DEF NewRow
  <1>3. CASE c.op = "refresh"
    <2>1. NewRow(c) = [c.row EXCEPT !.hosts = Present(c.hosts)]
      BY <1>3 DEF NewRow, Refreshed
    <2> QED
      BY <1>1, <1>3, <2>1 DEF Row, Present
  <1>4. CASE c.op = "edit"
    BY <1>1, <1>4 DEF NewRow
  <1> QED
    BY <1>1, <1>2, <1>3, <1>4

LEMMA AppliedIs ==
    ASSUME NEW row \in Row, fresh \subseteq Host
    PROVE  /\ Applied(row) \in Row
           /\ Applied(row).graph = row.graph
           /\ Applied(row).stale = (~ClearsStale /\ (row.stale \/ MarksStale))
  <1>1. row.hosts \subseteq Host /\ row.removed \subseteq Host
    BY DEF Row
  <1>2. PICK S \in SUBSET Host : S = row.removed \cup Removed
    BY <1>1 DEF Removed
  <1>3. PICK T \in SUBSET Host : T = IF Refreshes /\ Removed = {} THEN fresh ELSE row.hosts
    BY <1>1
  <1>4. PICK b \in BOOLEAN : b = (~ClearsStale /\ (row.stale \/ MarksStale))
    OBVIOUS
  <1>5. Applied(row) = [row EXCEPT !.removed = S, !.stale = b, !.hosts = T]
    BY <1>2, <1>3, <1>4 DEF Applied
  <1> QED
    BY <1>4, <1>5 DEF Row

-----------------------------------------------------------------------------
(* Types *)

Works == {Idle} \cup Changes \cup Edits \cup Creations

(* A request moves. *)
LEMMA GoIs ==
    ASSUME TypeInv, NEW p \in Writer \cup Route,
           NEW label \in {"idle", "write", "publish"}, NEW what \in Works,
           Go(p, label, what),
           label # "idle" => /\ p \in Writer => what \in Changes
                             /\ p \in Route => what \in Edits \cup Creations
    PROVE  /\ at' \in [Writer \cup Route -> {"idle", "write", "publish"}]
           /\ WorkFits'
           /\ at'[p] = label /\ work'[p] = what
           /\ \A q \in (Writer \cup Route) \ {p} : at'[q] = at[q] /\ work'[q] = work[q]
  <1>1. /\ at \in [Writer \cup Route -> {"idle", "write", "publish"}]
        /\ work \in [Writer \cup Route -> Works] /\ WorkFits
    BY DEF TypeInv, TopologyTypeOK, WorkFits, Works
  <1>2. at' = [at EXCEPT ![p] = label] /\ work' = [work EXCEPT ![p] = what]
    BY DEF Go
  <1>3. /\ at' \in [Writer \cup Route -> {"idle", "write", "publish"}]
        /\ at'[p] = label /\ \A q \in (Writer \cup Route) \ {p} : at'[q] = at[q]
    BY <1>1, <1>2
  <1>4. /\ work' \in [Writer \cup Route -> Works]
        /\ work'[p] = what /\ \A q \in (Writer \cup Route) \ {p} : work'[q] = work[q]
    BY <1>1, <1>2
  <1>5. \A w \in Writer : at'[w] # "idle" => work'[w] \in Changes
    BY <1>1, <1>3, <1>4 DEF WorkFits
  <1>6. \A r \in Route : at'[r] # "idle" => work'[r] \in Edits \cup Creations
    BY <1>1, <1>3, <1>4 DEF WorkFits
  <1>7. WorkFits'
    BY <1>4, <1>5, <1>6 DEF WorkFits, Works
  <1> QED
    BY <1>3, <1>4, <1>7

LEMMA IdleWorks == Idle \in Works
  BY DEF Works

LEMMA BeginChangeTyped ==
    ASSUME TypeInv, NEW w \in Writer, NEW h \in Host, NEW new \in Shape \cup {Gone},
           NEW many \in BOOLEAN, BeginChange(w, h, new, many)
    PROVE  TypeInv'
  <1>1. PICK c : c = [op |-> IF many THEN "delete_many" ELSE "change",
                      host |-> h, old |-> hosts[h], new |-> new]
    OBVIOUS
  <1>2. PICK label \in {"write", "publish"} : Go(w, label, c)
    BY <1>1 DEF BeginChange
  <1>3. c \in Changes /\ c \in Works
    BY <1>1 DEF TypeInv, TopologyTypeOK, Hosts, Changes, Works
  <1>4. /\ at' \in [Writer \cup Route -> {"idle", "write", "publish"}]
        /\ WorkFits'
    BY <1>2, <1>3, GoIs, RequestAssumption
  <1>5. UNCHANGED <<hosts, topo, pending, batch, copies, fresh, stage, shown, raced, missed>>
    BY DEF BeginChange, database, subscriber, history
  <1> QED
    BY <1>4, <1>5 DEF TypeInv, TopologyTypeOK, CopiesFit

LEMMA WriterTyped ==
    ASSUME TypeInv, NEW w \in Writer, WriterStep(w)
    PROVE  TypeInv'
  <1>0. at[w] \in {"write", "publish"}
    BY DEF WriterStep, WriteHost, PublishHost
  <1>1. PICK c \in Changes : c = work[w]
    BY <1>0 DEF TypeInv, WorkFits
  <1>2. c \in Works /\ c.host \in Host /\ c.new \in Shape \cup {Gone}
    BY DEF Works, Changes
  <1>3. \E label \in {"idle", "write", "publish"} : \E what \in Works :
            Go(w, label, what) /\ (label # "idle" => what \in Changes)
    BY <1>1, <1>2, IdleWorks DEF WriterStep, WriteHost, PublishHost
  <1>4. at' \in [Writer \cup Route -> {"idle", "write", "publish"}] /\ WorkFits'
    BY <1>3, GoIs, RequestAssumption
  <1>5. CASE WriteHost(w)
    <2>1. hosts' \in Hosts
      <3>1. hosts \in Hosts
        BY DEF TypeInv, TopologyTypeOK
      <3>2. hosts' = hosts \/ hosts' = [hosts EXCEPT ![c.host] = c.new]
        BY <1>1, <1>5 DEF WriteHost
      <3> QED
        BY <1>2, <3>1, <3>2 DEF Hosts
    <2>2. UNCHANGED <<topo, pending, batch, copies, fresh, stage, shown>>
      BY <1>5 DEF WriteHost, subscriber
    <2>3. \E ts \in SUBSET Topology : MayMiss(ts)
      BY <1>5 DEF WriteHost
    <2>4. missed' \subseteq Topology /\ raced' \subseteq Route
      BY <2>3 DEF MayMiss, Open, TypeInv, TopologyTypeOK
    <2> QED
      BY <1>4, <2>1, <2>2, <2>4 DEF TypeInv, TopologyTypeOK, CopiesFit
  <1>6. CASE PublishHost(w)
    <2>1. PICK e : e = [kind |-> "host", id |-> c.host, removed |-> c.new = Gone,
                        stale |-> TriggersStaleness(c.old, c.new)]
      OBVIOUS
    <2>2. e \in Event
      BY <1>2, <2>1 DEF Event, HostEvent, TriggersStaleness
    <2>3. pending' \in Seq(Event)
      <3>1. Publish(e)
        BY <1>1, <1>6, <2>1 DEF PublishHost
      <3> QED
        BY <2>2, <3>1, PublishIs DEF TypeInv, TopologyTypeOK
    <2>4. UNCHANGED <<hosts, topo, batch, copies, fresh, stage, shown, raced, missed>>
      BY <1>6 DEF PublishHost, database, history
    <2> QED
      BY <1>4, <2>3, <2>4 DEF TypeInv, TopologyTypeOK, CopiesFit
  <1> QED
    BY <1>5, <1>6 DEF WriterStep

LEMMA BeginRouteTyped ==
    ASSUME TypeInv, NEW r \in Route, NEW t \in Topology,
           \/ \E op \in {"rebuild", "refresh", "edit"} : BeginRoute(r, t, op)
           \/ BeginCreate(r, t)
    PROVE  TypeInv'
  <1>0. hosts \in Hosts /\ topo \in [Topology -> Row \cup {NoRow}]
    BY DEF TypeInv, TopologyTypeOK
  <1>1. PICK c \in Edits \cup Creations : Go(r, "write", c)
    <2>1. ASSUME NEW op \in {"rebuild", "refresh", "edit"}, BeginRoute(r, t, op)
          PROVE  \E c \in Edits \cup Creations : Go(r, "write", c)
      <3>1. topo[t] \in Row
        BY <1>0, <2>1 DEF BeginRoute, Existing
      <3>2. [op |-> op, topology |-> t, row |-> topo[t], hosts |-> hosts] \in Edits
        BY <1>0, <3>1 DEF Edits
      <3> QED
        BY <2>1, <3>2 DEF BeginRoute
    <2>2. ASSUME BeginCreate(r, t)
          PROVE  \E c \in Edits \cup Creations : Go(r, "write", c)
      <3>1. [op |-> "create", topology |-> t, hosts |-> hosts] \in Creations
        BY <1>0 DEF Creations
      <3> QED
        BY <2>2, <3>1 DEF BeginCreate
    <2> QED
      BY <2>1, <2>2
  <1>2. c \in Works
    BY DEF Works
  <1>3. at' \in [Writer \cup Route -> {"idle", "write", "publish"}] /\ WorkFits'
    BY <1>1, <1>2, GoIs, RequestAssumption
  <1>4. UNCHANGED <<hosts, topo, pending, batch, copies, fresh, stage, shown, raced, missed>>
    BY DEF BeginRoute, BeginCreate, database, subscriber, history
  <1> QED
    BY <1>3, <1>4 DEF TypeInv, TopologyTypeOK, CopiesFit

(* What a route writes. *)
LEMMA RouteWrites ==
    ASSUME TypeInv, NEW r \in Route, RouteStep(r)
    PROVE  /\ at[r] = "write" /\ work[r].topology \in Topology
           /\ \E row \in Row :
                 /\ topo' = [topo EXCEPT ![work[r].topology] = row]
                 /\ \/ EndRoute(r) /\ work[r] \in Edits /\ row = NewRow(work[r])
                    \/ EndCreate(r) /\ work[r] \in Creations /\ row = Built(work[r].hosts)
           /\ pending' \in Seq(Event)
           /\ Marked(pending) => Marked(pending)'
           /\ Go(r, "idle", Idle)
           /\ UNCHANGED <<hosts, batch, copies, fresh, stage>>
  <1>1. at[r] = "write"
    BY DEF RouteStep, EndRoute, EndCreate
  <1>2. PICK c \in Edits \cup Creations : c = work[r]
    BY <1>1 DEF TypeInv, WorkFits
  <1>3. PICK t \in Topology : t = c.topology
    BY DEF Edits, Creations
  <1>4. pending \in Seq(Event)
    BY DEF TypeInv, TopologyTypeOK
  <1>5. CASE EndRoute(r)
    <2>1. /\ c.op # "create" /\ topo' = [topo EXCEPT ![t] = NewRow(c)]
          /\ PublishRow(t, FALSE) /\ Go(r, "idle", Idle)
          /\ UNCHANGED <<hosts, batch, copies, fresh, stage>>
      BY <1>2, <1>3, <1>5 DEF EndRoute
    <2>2. c \in Edits
      BY <2>1 DEF Creations
    <2>3. NewRow(c) \in Row
      BY <2>2, NewRowIs
    <2>4. pending' \in Seq(Event) /\ (Marked(pending) => Marked(pending)')
      BY <1>4, <2>1, PublishRowIs
    <2> QED
      BY <1>1, <1>2, <1>3, <1>5, <2>1, <2>2, <2>3, <2>4
  <1>6. CASE EndCreate(r)
    <2>1. PICK e : e = [kind |-> "created", id |-> t]
      OBVIOUS
    <2>2. /\ c.op = "create" /\ topo' = [topo EXCEPT ![t] = Built(c.hosts)]
          /\ Publish(e) /\ Go(r, "idle", Idle)
          /\ UNCHANGED <<hosts, batch, copies, fresh, stage>>
      BY <1>2, <1>3, <1>6, <2>1 DEF EndCreate
    <2>3. c \in Creations /\ c.hosts \in Hosts
      BY <2>2 DEF Edits, Creations
    <2>4. Built(c.hosts) \in Row
      BY <2>3, BuiltIs
    <2>5. e \in Event
      BY <2>1 DEF Event, CreatedEvent
    <2>6. pending' \in Seq(Event) /\ (Marked(pending) => Marked(pending)')
      BY <1>4, <2>2, <2>5, PublishIs
    <2> QED
      BY <1>1, <1>2, <1>3, <1>6, <2>2, <2>3, <2>4, <2>6
  <1> QED
    BY <1>5, <1>6 DEF RouteStep

LEMMA RouteTyped ==
    ASSUME TypeInv, NEW r \in Route, RouteStep(r)
    PROVE  TypeInv'
  <1>1. PICK t \in Topology, row \in Row : topo' = [topo EXCEPT ![t] = row]
    BY RouteWrites
  <1>2. topo' \in [Topology -> Row \cup {NoRow}]
    BY <1>1 DEF TypeInv, TopologyTypeOK
  <1>3. /\ pending' \in Seq(Event) /\ Go(r, "idle", Idle)
        /\ UNCHANGED <<hosts, batch, copies, fresh, stage>>
    BY RouteWrites
  <1>4. at' \in [Writer \cup Route -> {"idle", "write", "publish"}] /\ WorkFits'
    BY <1>3, GoIs, IdleWorks
  <1>5. PICK t2 \in Topology : t2 = work[r].topology
    BY RouteWrites
  <1>6. shown' \subseteq Topology /\ missed' \subseteq Topology /\ raced' \subseteq Route
    <2>1. shown \subseteq Topology /\ missed \subseteq Topology /\ raced \subseteq Route
      BY DEF TypeInv, TopologyTypeOK
    <2> QED
      BY <1>5, <2>1 DEF RouteStep, EndRoute, EndCreate
  <1> QED
    BY <1>2, <1>3, <1>4, <1>6 DEF TypeInv, TopologyTypeOK, CopiesFit

LEMMA FlushTyped ==
    ASSUME TypeInv, Flush
    PROVE  TypeInv'
  <1>0. stage = "idle" /\ pending \in Seq(Event)
    BY DEF Flush, TypeInv, TopologyTypeOK
  <1>1. /\ pending' = <<>> /\ batch' = Collected
        /\ stage' = IF Collected = {} THEN "idle" ELSE "read"
        /\ shown' \subseteq Topology
        /\ UNCHANGED <<hosts, topo, copies, fresh, at, work, raced, missed>>
    BY DEF Flush, database, requests, history
  <1>2. Collected \subseteq HostEvent \cup CreatedEvent
    <2>1. \A i \in 1 .. Len(pending) : pending[i] \in Event
      BY <1>0
    <2> QED
      BY <2>1, EventKinds DEF Collected
  <1>3. pending' \in Seq(Event)
    BY <1>1
  <1>4. WorkFits'
    BY <1>1 DEF TypeInv, WorkFits
  <1>5. CopiesFit'
    BY <1>0, <1>1 DEF TypeInv, CopiesFit
  <1> QED
    BY <1>1, <1>2, <1>3, <1>4, <1>5 DEF TypeInv, TopologyTypeOK

LEMMA ReadTyped ==
    ASSUME TypeInv, ReadTopologies
    PROVE  TypeInv'
  <1>1. /\ copies' = topo
        /\ \/ Existing = {} /\ stage' = "idle" /\ batch' = {} /\ fresh' = {}
           \/ Existing # {} /\ stage' = "write" /\ fresh' = Present(hosts) /\ batch' = batch
        /\ UNCHANGED <<hosts, topo, pending, at, work, shown, raced, missed>>
    BY DEF ReadTopologies, database, requests, history
  <1>2. WorkFits'
    BY <1>1 DEF TypeInv, WorkFits
  <1>3. CopiesFit'
    BY <1>1 DEF TypeInv, CopiesFit, Existing
  <1> QED
    BY <1>1, <1>2, <1>3 DEF TypeInv, TopologyTypeOK, Present

(* What the topology service writes. *)
LEMMA TopologyWrites ==
    ASSUME TypeInv, NEW t \in Topology, WriteTopology(t)
    PROVE  /\ stage = "write" /\ copies[t] \in Row /\ Applied(copies[t]) \in Row
           /\ topo' = [topo EXCEPT ![t] = Applied(copies[t])]
           /\ topo' \in [Topology -> Row \cup {NoRow}]
           /\ pending' \in Seq(Event) /\ (Marked(pending) => Marked(pending)')
           /\ copies' = [copies EXCEPT ![t] = NoRow]
           /\ copies' \in [Topology -> Row \cup {NoRow}]
           /\ \/ /\ \A u \in Topology \ {t} : copies[u] = NoRow
                 /\ stage' = "idle" /\ batch' = {} /\ fresh' = {}
              \/ stage' = stage /\ batch' = batch /\ fresh' = fresh
           /\ UNCHANGED <<hosts, at, work>>
  <1>1. /\ topo \in [Topology -> Row \cup {NoRow}] /\ copies \in [Topology -> Row \cup {NoRow}]
        /\ pending \in Seq(Event) /\ fresh \subseteq Host
    BY DEF TypeInv, TopologyTypeOK
  <1>2. /\ stage = "write" /\ copies[t] # NoRow
        /\ topo' = [topo EXCEPT ![t] = Applied(copies[t])]
        /\ PublishRow(t, TRUE)
        /\ copies' = [copies EXCEPT ![t] = NoRow]
        /\ \/ /\ \A u \in Topology \ {t} : copies[u] = NoRow
              /\ stage' = "idle" /\ batch' = {} /\ fresh' = {}
           \/ stage' = stage /\ batch' = batch /\ fresh' = fresh
        /\ UNCHANGED <<hosts, at, work>>
    BY DEF WriteTopology, requests
  <1>3. copies[t] \in Row
    BY <1>1, <1>2
  <1>4. Applied(copies[t]) \in Row
    BY <1>1, <1>3, AppliedIs
  <1>5. pending' \in Seq(Event) /\ (Marked(pending) => Marked(pending)')
    BY <1>1, <1>2, PublishRowIs
  <1>6. topo' \in [Topology -> Row \cup {NoRow}] /\ copies' \in [Topology -> Row \cup {NoRow}]
    BY <1>1, <1>2, <1>4
  <1> QED
    BY <1>2, <1>3, <1>4, <1>5, <1>6

LEMMA WriteTyped ==
    ASSUME TypeInv, NEW t \in Topology, WriteTopology(t)
    PROVE  TypeInv'
  <1>1. /\ stage = "write"
        /\ topo' \in [Topology -> Row \cup {NoRow}]
        /\ pending' \in Seq(Event)
        /\ copies' = [copies EXCEPT ![t] = NoRow]
        /\ copies' \in [Topology -> Row \cup {NoRow}]
        /\ \/ /\ \A u \in Topology \ {t} : copies[u] = NoRow
              /\ stage' = "idle" /\ batch' = {} /\ fresh' = {}
           \/ stage' = stage /\ batch' = batch /\ fresh' = fresh
        /\ UNCHANGED <<hosts, at, work>>
    BY TopologyWrites
  <1>2. shown' \subseteq Topology /\ missed' \subseteq Topology /\ raced' \subseteq Route
    BY DEF WriteTopology, TypeInv, TopologyTypeOK, Open
  <1>3. WorkFits'
    BY <1>1 DEF TypeInv, WorkFits
  <1>4. CopiesFit'
    <2>1. copies \in [Topology -> Row \cup {NoRow}]
      BY DEF TypeInv, TopologyTypeOK
    <2> QED
      BY <1>1, <2>1 DEF CopiesFit
  <1>5. fresh' \subseteq Host /\ batch' \subseteq HostEvent \cup CreatedEvent
        /\ stage' \in {"idle", "read", "write"}
    BY <1>1 DEF TypeInv, TopologyTypeOK
  <1> QED
    BY <1>1, <1>2, <1>3, <1>4, <1>5 DEF TypeInv, TopologyTypeOK

LEMMA ResetTyped ==
    ASSUME TypeInv, BatchFails \/ ServerRestart
    PROVE  TypeInv'
  <1>1. /\ stage' = "idle" /\ batch' = {} /\ copies' = [t \in Topology |-> NoRow]
        /\ fresh' = {} /\ UNCHANGED <<hosts, topo>>
    BY DEF BatchFails, ServerRestart, database
  <1>2. CopiesFit'
    BY <1>1 DEF CopiesFit
  <1>3. CASE BatchFails
    <2>1. UNCHANGED <<pending, at, work, shown>> /\ MayMiss(Topology)
      BY <1>3 DEF BatchFails, requests
    <2>2. missed' \subseteq Topology /\ raced' \subseteq Route
      BY <2>1 DEF MayMiss, Open, TypeInv, TopologyTypeOK
    <2>3. WorkFits'
      BY <2>1 DEF TypeInv, WorkFits
    <2> QED
      BY <1>1, <1>2, <2>1, <2>2, <2>3 DEF TypeInv, TopologyTypeOK
  <1>4. CASE ServerRestart
    <2>1. /\ pending' = <<>> /\ at' = [p \in Writer \cup Route |-> "idle"]
          /\ work' = [p \in Writer \cup Route |-> Idle]
          /\ raced' = {} /\ missed' = Topology /\ shown' = Existing
      BY <1>4 DEF ServerRestart
    <2>2. WorkFits'
      BY <2>1 DEF WorkFits
    <2>3. pending' \in Seq(Event)
      BY <2>1
    <2>4. at' \in [Writer \cup Route -> {"idle", "write", "publish"}]
      BY <2>1
    <2> QED
      BY <1>1, <1>2, <2>1, <2>2, <2>3, <2>4 DEF TypeInv, TopologyTypeOK, Existing
  <1> QED
    BY <1>3, <1>4

LEMMA TypeStep ==
    ASSUME TypeInv, [Next]_vars
    PROVE  TypeInv'
  <1>1. CASE UNCHANGED vars
    BY <1>1 DEF vars, database, subscriber, requests, history, TypeInv, TopologyTypeOK,
                WorkFits, CopiesFit
  <1>2. CASE BatchStep
    BY <1>2, FlushTyped, ReadTyped, WriteTyped DEF BatchStep
  <1> QED
    BY <1>1, <1>2, BeginChangeTyped, WriterTyped, BeginRouteTyped, RouteTyped, ResetTyped
       DEF Next

LEMMA TypeInit == Init => TypeInv
  <1> SUFFICES ASSUME Init PROVE TypeInv
    OBVIOUS
  <1>1. pending \in Seq(Event)
    BY DEF Init
  <1>2. hosts \in Hosts /\ at \in [Writer \cup Route -> {"idle", "write", "publish"}]
    BY DEF Init, Hosts
  <1>3. WorkFits /\ CopiesFit
    BY DEF Init, WorkFits, CopiesFit
  <1> QED
    BY <1>1, <1>2, <1>3 DEF Init, TypeInv, TopologyTypeOK

(* The tables, the event bus, the topology service and the requests keep   *)
(* their types, and a request works on what its position says.             *)
THEOREM TypeInvariance == Spec => []TypeInv
  <1>1. TypeInv /\ [Next]_vars => TypeInv'
    BY TypeStep
  <1> QED
    BY <1>1, TypeInit, PTL DEF Spec

(* In particular a batch applies events of hosts to rows of topologies     *)
(* only, and removed_hosts names hosts.                                    *)
THEOREM TopologyTyped == Spec => []TopologyTypeOK
  <1>1. TypeInv => TopologyTypeOK
    BY DEF TypeInv
  <1> QED
    BY <1>1, TypeInvariance, PTL

-----------------------------------------------------------------------------
(* What is out of date is marked *)

(* A request is about to publish an event that marks the topologies. *)
Announces(w) ==
    /\ work[w].op = "change"
    /\ at[w] = "publish"
    /\ TriggersStaleness(work[w].old, work[w].new)

(* An event goes from the request to the bus, to the batch and to the rows. *)
LEMMA WayKept ==
    ASSUME NEW t \in Topology, OnItsWay(t),
           Marked(pending) => Marked(pending)' \/ (MarksStale' /\ stage' = "read"),
           MarksStale /\ (stage = "read" \/ copies[t] # NoRow) =>
               MarksStale' /\ (stage' = "read" \/ copies'[t] # NoRow),
           \A w \in Writer : Announces(w) => Announces(w)' \/ Marked(pending)'
    PROVE  OnItsWay(t)'
  <1>1. \/ Marked(pending)
        \/ MarksStale /\ (stage = "read" \/ copies[t] # NoRow)
        \/ \E w \in Writer : Announces(w)
    BY DEF OnItsWay, Marked, Announces
  <1>2. \/ Marked(pending)'
        \/ MarksStale' /\ (stage' = "read" \/ copies'[t] # NoRow)
        \/ \E w \in Writer : Announces(w)'
    BY <1>1
  <1> QED
    BY <1>2 DEF OnItsWay, Marked, Announces

(* Routes after a step that changes no host. *)
LEMMA RoutesKept ==
    ASSUME RoutesHaveRows, RebuildsFollowed, hosts' = hosts, Existing \subseteq Existing',
           \A t \in Existing : OnItsWay(t) => OnItsWay(t)',
           \A r \in Route : at'[r] = "write" =>
               \/ at[r] = "write" /\ work'[r] = work[r] /\ (r \in raced => r \in raced')
               \/ work'[r] \notin Edits
               \/ work'[r].hosts = hosts /\ work'[r].topology \in Existing'
    PROVE  RoutesHaveRows' /\ RebuildsFollowed'
  <1>1. RoutesHaveRows'
    BY DEF RoutesHaveRows
  <1>2. ASSUME NEW r \in Route, r \notin raced', at'[r] = "write", work'[r] \in Edits
        PROVE  \/ Structure(work'[r].hosts) = Structure(hosts')
               \/ OnItsWay(work[r].topology)'
    <2>1. CASE work'[r].hosts = hosts
      BY <2>1
    <2>2. CASE at[r] = "write" /\ work'[r] = work[r] /\ r \notin raced
      <3>1. PICK t \in Existing : t = work[r].topology
        BY <1>2, <2>2 DEF RoutesHaveRows
      <3>2. Structure(work[r].hosts) = Structure(hosts) \/ OnItsWay(t)
        BY <1>2, <2>2, <3>1 DEF RebuildsFollowed
      <3>3. OnItsWay(t)' => OnItsWay(work[r].topology)'
        BY <2>2, <3>1 DEF OnItsWay
      <3> QED
        BY <2>2, <3>2, <3>3
    <2> QED
      BY <1>2, <2>1, <2>2
  <1>3. RebuildsFollowed'
    BY <1>2 DEF RebuildsFollowed, Structure
  <1> QED
    BY <1>1, <1>3

(* Topologies after a step that changes neither them nor a host. *)
LEMMA MissedKept ==
    ASSUME NothingMissed, hosts' = hosts, topo' = topo, missed \subseteq missed',
           \A t \in Existing : OnItsWay(t) => OnItsWay(t)'
    PROVE  NothingMissed'
  BY DEF NothingMissed, OutOfDate, Existing, Structure

(* Steps that change neither hosts nor topologies. *)
LEMMA QuietStepKept ==
    ASSUME StaleInv, UNCHANGED <<hosts, topo, raced, missed>>,
           \A t \in Existing : OnItsWay(t) => OnItsWay(t)',
           \A r \in Route : at'[r] = "write" =>
               \/ at[r] = "write" /\ work'[r] = work[r]
               \/ work'[r] \notin Edits
               \/ work'[r].hosts = hosts /\ work'[r].topology \in Existing'
    PROVE  RoutesHaveRows' /\ RebuildsFollowed' /\ NothingMissed'
  <1>1. RoutesHaveRows /\ RebuildsFollowed /\ NothingMissed
    BY DEF StaleInv
  <1>2. Existing \subseteq Existing'
    BY DEF Existing
  <1>3. RoutesHaveRows' /\ RebuildsFollowed'
    BY <1>1, <1>2, RoutesKept
  <1>4. NothingMissed'
    BY <1>1, MissedKept
  <1> QED
    BY <1>3, <1>4

LEMMA BeginChangeKept ==
    ASSUME StaleInv, NEW w \in Writer, NEW h \in Host, NEW new \in Shape \cup {Gone},
           NEW many \in BOOLEAN, BeginChange(w, h, new, many)
    PROVE  RoutesHaveRows' /\ RebuildsFollowed' /\ NothingMissed'
  <1>0. /\ at \in [Writer \cup Route -> {"idle", "write", "publish"}]
        /\ work \in [Writer \cup Route -> Works]
    BY DEF StaleInv, TypeInv, TopologyTypeOK, WorkFits, Works
  <1>1. /\ at[w] = "idle" /\ \A q \in (Writer \cup Route) \ {w} :
                                  at'[q] = at[q] /\ work'[q] = work[q]
        /\ UNCHANGED <<hosts, topo, pending, batch, copies, stage, raced, missed>>
    BY <1>0 DEF BeginChange, Go, database, subscriber, history
  <1>2. \A t \in Existing : OnItsWay(t) => OnItsWay(t)'
    <2>1. \A v \in Writer : Announces(v) => Announces(v)'
      BY <1>1 DEF Announces
    <2>2. Existing \subseteq Topology
      BY DEF Existing
    <2>3. Marked(pending) => Marked(pending)'
      BY <1>1
    <2>4. MarksStale => MarksStale'
      BY <1>1 DEF MarksStale, Marks
    <2> QED
      BY <1>1, <2>1, <2>2, <2>3, <2>4, WayKept
  <1>3. \A r \in Route : at'[r] = at[r] /\ work'[r] = work[r]
    BY <1>1, RequestAssumption
  <1> QED
    BY <1>1, <1>2, <1>3, QuietStepKept

LEMMA PublishKept ==
    ASSUME StaleInv, NEW w \in Writer, PublishHost(w)
    PROVE  RoutesHaveRows' /\ RebuildsFollowed' /\ NothingMissed'
  <1>0. /\ at \in [Writer \cup Route -> {"idle", "write", "publish"}]
        /\ work \in [Writer \cup Route -> Works] /\ pending \in Seq(Event)
    BY DEF StaleInv, TypeInv, TopologyTypeOK, WorkFits, Works
  <1>1. PICK c \in Changes : c = work[w]
    BY DEF StaleInv, TypeInv, WorkFits, PublishHost
  <1>2. PICK e : e = [kind |-> "host", id |-> c.host, removed |-> c.new = Gone,
                      stale |-> TriggersStaleness(c.old, c.new)]
    OBVIOUS
  <1>3. e \in Event
    BY <1>2 DEF Event, HostEvent, TriggersStaleness, Changes
  <1>4. /\ Publish(e)
        /\ \A q \in (Writer \cup Route) \ {w} : at'[q] = at[q] /\ work'[q] = work[q]
        /\ UNCHANGED <<hosts, topo, batch, copies, stage, raced, missed>>
    BY <1>0, <1>1, <1>2 DEF PublishHost, Go, database, history
  <1>5. Marked(pending) \/ Marks(e) => Marked(pending)'
    BY <1>0, <1>3, <1>4, PublishIs
  <1>6. \A v \in Writer : Announces(v) => Announces(v)' \/ Marked(pending)'
    <2>1. Announces(w) => Marks(e)
      BY <1>1, <1>2 DEF Announces, Marks
    <2>2. \A v \in Writer \ {w} : Announces(v) => Announces(v)'
      BY <1>4 DEF Announces
    <2> QED
      BY <1>5, <2>1, <2>2
  <1>7. \A t \in Existing : OnItsWay(t) => OnItsWay(t)'
    <2>1. Existing \subseteq Topology
      BY DEF Existing
    <2>2. MarksStale => MarksStale'
      BY <1>4 DEF MarksStale, Marks
    <2> QED
      BY <1>4, <1>5, <1>6, <2>1, <2>2, WayKept
  <1>8. \A r \in Route : at'[r] = at[r] /\ work'[r] = work[r]
    BY <1>4, RequestAssumption
  <1> QED
    BY <1>4, <1>7, <1>8, QuietStepKept

LEMMA BeginRouteKept ==
    ASSUME StaleInv, NEW r \in Route, NEW t \in Topology,
           \/ \E op \in {"rebuild", "refresh", "edit"} : BeginRoute(r, t, op)
           \/ BeginCreate(r, t)
    PROVE  RoutesHaveRows' /\ RebuildsFollowed' /\ NothingMissed'
  <1>0. /\ at \in [Writer \cup Route -> {"idle", "write", "publish"}]
        /\ work \in [Writer \cup Route -> Works]
    BY DEF StaleInv, TypeInv, TopologyTypeOK, WorkFits, Works
  <1>1. /\ \A q \in (Writer \cup Route) \ {r} : at'[q] = at[q] /\ work'[q] = work[q]
        /\ UNCHANGED <<hosts, topo, pending, batch, copies, stage, raced, missed>>
    BY <1>0 DEF BeginRoute, BeginCreate, Go, database, subscriber, history
  <1>2. work'[r] \notin Edits \/ (work'[r].hosts = hosts /\ work'[r].topology \in Existing')
    <2>1. ASSUME NEW op \in {"rebuild", "refresh", "edit"}, BeginRoute(r, t, op)
          PROVE  work'[r].hosts = hosts /\ work'[r].topology \in Existing'
      <3>1. /\ work'[r] = [op |-> op, topology |-> t, row |-> topo[t], hosts |-> hosts]
            /\ t \in Existing
        BY <1>0, <2>1 DEF BeginRoute, Go
      <3>2. t \in Existing'
        BY <1>1, <3>1 DEF Existing
      <3> QED
        BY <3>1, <3>2
    <2>2. ASSUME BeginCreate(r, t)
          PROVE  work'[r] \notin Edits
      <3>1. work'[r] = [op |-> "create", topology |-> t, hosts |-> hosts]
        BY <1>0, <2>2 DEF BeginCreate, Go
      <3>2. work'[r].op = "create"
        BY <3>1
      <3> QED
        BY <3>2 DEF Edits
    <2> QED
      BY <2>1, <2>2
  <1>3. \A u \in Existing : OnItsWay(u) => OnItsWay(u)'
    <2>1. \A v \in Writer : Announces(v) => Announces(v)'
      BY <1>1, RequestAssumption DEF Announces
    <2>2. Existing \subseteq Topology
      BY DEF Existing
    <2>3. MarksStale => MarksStale'
      BY <1>1 DEF MarksStale, Marks
    <2>4. Marked(pending) => Marked(pending)'
      BY <1>1
    <2> QED
      BY <1>1, <2>1, <2>2, <2>3, <2>4, WayKept
  <1> QED
    BY <1>1, <1>2, <1>3, QuietStepKept

LEMMA FlushKept ==
    ASSUME StaleInv, Flush
    PROVE  RoutesHaveRows' /\ RebuildsFollowed' /\ NothingMissed'
  <1>0. pending \in Seq(Event) /\ batch = {}
    BY DEF StaleInv, TypeInv, TopologyTypeOK, CopiesFit, Flush
  <1>1. /\ batch' = Collected /\ stage' = IF Collected = {} THEN "idle" ELSE "read"
        /\ UNCHANGED <<hosts, topo, copies, at, work, raced, missed>>
    BY DEF Flush, database, requests, history
  <1>2. Marked(pending) => MarksStale' /\ stage' = "read"
    <2>1. ASSUME NEW i \in 1 .. Len(pending), Marks(pending[i])
          PROVE  MarksStale' /\ stage' = "read"
      <3>1. PICK e \in Event : e = pending[i]
        BY <1>0
      <3>2. Marks(e) /\ ~IsUpdate(e)
        BY <2>1, <3>1, EventKinds
      <3>3. e \in Collected
        BY <3>1, <3>2 DEF Collected
      <3> QED
        BY <1>1, <3>2, <3>3 DEF MarksStale, Marks
    <2> QED
      BY <2>1 DEF Marked
  <1>3. ~MarksStale
    BY <1>0 DEF MarksStale
  <1>4. \A t \in Existing : OnItsWay(t) => OnItsWay(t)'
    <2>1. \A v \in Writer : Announces(v) => Announces(v)'
      BY <1>1 DEF Announces
    <2>2. Existing \subseteq Topology
      BY DEF Existing
    <2> QED
      BY <1>2, <1>3, <2>1, <2>2, WayKept
  <1> QED
    BY <1>1, <1>4, QuietStepKept

LEMMA ReadKept ==
    ASSUME StaleInv, ReadTopologies
    PROVE  RoutesHaveRows' /\ RebuildsFollowed' /\ NothingMissed'
  <1>1. /\ copies' = topo
        /\ Existing # {} => stage' = "write" /\ batch' = batch
        /\ UNCHANGED <<hosts, topo, pending, at, work, raced, missed>>
    BY DEF ReadTopologies, database, requests, history
  <1>2. ASSUME NEW t \in Existing, OnItsWay(t)
        PROVE  OnItsWay(t)'
    <2>1. \A v \in Writer : Announces(v) => Announces(v)'
      BY <1>1 DEF Announces
    <2>2. t \in Topology /\ copies'[t] # NoRow /\ batch' = batch
      BY <1>1 DEF Existing
    <2>3. MarksStale => MarksStale'
      BY <2>2 DEF MarksStale, Marks
    <2>4. Marked(pending) => Marked(pending)'
      BY <1>1
    <2> QED
      BY <1>2, <2>1, <2>2, <2>3, <2>4, WayKept
  <1> QED
    BY <1>1, <1>2, QuietStepKept

(* A batch marks the topology, or has nothing to mark it for. *)
LEMMA WriteKept ==
    ASSUME StaleInv, NEW t \in Topology, WriteTopology(t)
    PROVE  RoutesHaveRows' /\ RebuildsFollowed' /\ NothingMissed'
  <1>0. /\ TypeInv /\ RoutesHaveRows /\ RebuildsFollowed /\ NothingMissed
        /\ topo \in [Topology -> Row \cup {NoRow}] /\ fresh \subseteq Host
        /\ copies \in [Topology -> Row \cup {NoRow}]
    BY DEF StaleInv, TypeInv, TopologyTypeOK
  <1>1. /\ stage = "write" /\ copies[t] \in Row /\ Applied(copies[t]) \in Row
        /\ topo' = [topo EXCEPT ![t] = Applied(copies[t])]
        /\ (Marked(pending) => Marked(pending)')
        /\ copies' = [copies EXCEPT ![t] = NoRow]
        /\ \/ /\ \A u \in Topology \ {t} : copies[u] = NoRow
              /\ stage' = "idle" /\ batch' = {} /\ fresh' = {}
           \/ stage' = stage /\ batch' = batch /\ fresh' = fresh
        /\ UNCHANGED <<hosts, at, work>>
    BY <1>0, TopologyWrites
  <1>2. /\ raced' = raced \cup Open
        /\ missed' = IF topo[t] # copies[t] \/ (ClearsStale /\ (copies[t].stale \/ MarksStale))
                     THEN missed \cup {t} ELSE missed
    BY DEF WriteTopology
  <1>3. topo'[t] = Applied(copies[t]) /\ \A u \in Topology \ {t} : topo'[u] = topo[u]
    BY <1>0, <1>1
  <1>4. Existing \subseteq Existing'
    BY <1>1, <1>3, RowAssumption DEF Existing
  <1>5. RoutesHaveRows'
    BY <1>0, <1>1, <1>4 DEF RoutesHaveRows
  <1>6. RebuildsFollowed'
    <2>1. \A r \in Route \ raced' : at'[r] # "write"
      BY <1>1, <1>2 DEF Open
    <2> QED
      BY <2>1 DEF RebuildsFollowed
  <1>7. \A v \in Writer : Announces(v) => Announces(v)'
    BY <1>1 DEF Announces
  <1>8. ASSUME NEW u \in Topology \ {t}, OnItsWay(u)
        PROVE  OnItsWay(u)'
    <2>1. ASSUME MarksStale, stage = "read" \/ copies[u] # NoRow
          PROVE  MarksStale' /\ (stage' = "read" \/ copies'[u] # NoRow)
      <3>1. copies[u] # NoRow
        BY <1>1, <2>1
      <3>2. copies'[u] = copies[u] /\ batch' = batch
        BY <1>0, <1>1, <3>1
      <3> QED
        BY <2>1, <3>1, <3>2 DEF MarksStale, Marks
    <2> QED
      BY <1>1, <1>7, <1>8, <2>1, WayKept
  <1>9. ASSUME NEW u \in Topology \ {t}, u \notin missed', OutOfDate(u)'
        PROVE  topo'[u].stale \/ OnItsWay(u)'
    <2>1. OutOfDate(u) /\ u \notin missed
      BY <1>1, <1>2, <1>3, <1>9 DEF OutOfDate, Existing, Structure
    <2>2. topo[u].stale \/ OnItsWay(u)
      BY <1>0, <2>1 DEF NothingMissed
    <2> QED
      BY <1>3, <1>8, <2>2
  <1>10. ASSUME t \notin missed', OutOfDate(t)'
         PROVE  topo'[t].stale \/ OnItsWay(t)'
    <2>1. /\ topo[t] = copies[t] /\ ~(ClearsStale /\ (copies[t].stale \/ MarksStale))
          /\ t \notin missed
      BY <1>2, <1>10
    <2>2. /\ topo'[t].graph = topo[t].graph
          /\ topo'[t].stale = (~ClearsStale /\ (topo[t].stale \/ MarksStale))
      BY <1>0, <1>1, <1>3, <2>1, AppliedIs
    <2>3. OutOfDate(t)
      <3>1. topo[t] # NoRow
        BY <1>1, <2>1, RowAssumption
      <3> QED
        BY <1>1, <1>10, <2>2, <3>1 DEF OutOfDate, Existing, Structure
    <2>4. topo[t].stale \/ OnItsWay(t)
      BY <1>0, <2>1, <2>3 DEF NothingMissed
    <2>5. CASE topo[t].stale \/ MarksStale
      BY <2>1, <2>2, <2>5
    <2>6. CASE ~topo[t].stale /\ ~MarksStale
      <3>1. OnItsWay(t)
        BY <2>4, <2>6
      <3> QED
        BY <1>1, <1>7, <2>6, <3>1, WayKept
    <2> QED
      BY <2>5, <2>6
  <1>11. NothingMissed'
    BY <1>9, <1>10 DEF NothingMissed
  <1> QED
    BY <1>5, <1>6, <1>11

(* A change that is not late is announced. *)
LEMMA WriteHostKept ==
    ASSUME StaleInv, NEW w \in Writer, WriteHost(w)
    PROVE  RoutesHaveRows' /\ RebuildsFollowed' /\ NothingMissed'
  <1>0. /\ RoutesHaveRows /\ RebuildsFollowed /\ NothingMissed
        /\ at \in [Writer \cup Route -> {"idle", "write", "publish"}]
        /\ work \in [Writer \cup Route -> Works] /\ hosts \in Hosts
        /\ missed \subseteq Topology
    BY DEF StaleInv, TypeInv, TopologyTypeOK, WorkFits, Works
  <1>1. PICK c \in Changes : c = work[w]
    BY DEF StaleInv, TypeInv, WorkFits, WriteHost
  <1>2. at[w] = "write" /\ UNCHANGED <<topo, pending, batch, copies, stage>>
    BY DEF WriteHost, subscriber
  <1>3. \A q \in (Writer \cup Route) \ {w} : at'[q] = at[q] /\ work'[q] = work[q]
    BY <1>0 DEF WriteHost, Go
  <1>4. \A r \in Route : at'[r] = at[r] /\ work'[r] = work[r]
    BY <1>3, RequestAssumption
  <1>5. RoutesHaveRows'
    BY <1>0, <1>2, <1>4 DEF RoutesHaveRows, Existing
  <1> DEFINE late == \/ hosts[c.host] # c.old
                     \/ /\ c.op = "delete_many"
                        /\ \A i \in 1 .. Len(pending) :
                               ~(Marks(pending[i]) /\ pending[i].id = c.host)
  <1>6. MayMiss(IF late THEN Topology ELSE {})
    BY <1>1 DEF WriteHost
  <1>7. CASE late
    <2>1. missed' = missed \cup Topology /\ raced' = IF Topology = {} THEN raced
                                                     ELSE raced \cup Open
      BY <1>6, <1>7 DEF MayMiss
    <2>2. NothingMissed'
      BY <2>1 DEF NothingMissed
    <2>3. RebuildsFollowed'
      <3>1. ASSUME NEW r \in Route, r \notin raced', at'[r] = "write", work'[r] \in Edits
            PROVE  FALSE
        <4>1. work'[r].topology \in Topology
          BY <3>1 DEF Edits
        <4> QED
          BY <1>4, <2>1, <3>1, <4>1 DEF Open
      <3> QED
        BY <3>1 DEF RebuildsFollowed
    <2> QED
      BY <1>5, <2>2, <2>3
  <1>8. CASE ~late
    <2>1. missed' = missed /\ raced' = raced /\ hosts[c.host] = c.old
      BY <1>6, <1>8 DEF MayMiss
    <2>2. c.host \in Host /\ c.op \in {"change", "delete_many"}
      BY DEF Changes
    <2>3. hosts' = hosts \/ hosts' = [hosts EXCEPT ![c.host] = c.new]
      BY <1>1 DEF WriteHost
    <2>4. hosts' = hosts \/ c.old # c.new
      BY <1>0, <2>1, <2>2, <2>3 DEF Hosts
    <2>5. ASSUME NEW t \in Topology, c.old # c.new
          PROVE  OnItsWay(t)'
      <3>1. CASE c.op = "change"
        <4>1. at'[w] = "publish" /\ work'[w] = c
          BY <1>0, <1>1, <3>1 DEF WriteHost, Go
        <4> QED
          BY <2>5, <3>1, <4>1 DEF OnItsWay, TriggersStaleness
      <3>2. CASE c.op = "delete_many"
        <4>1. PICK i \in 1 .. Len(pending) : Marks(pending[i])
          BY <1>8, <3>2
        <4>2. i \in 1 .. Len(pending') /\ Marks(pending[i])'
          BY <1>2, <4>1 DEF Marks
        <4> QED
          BY <4>2 DEF OnItsWay, Marks
      <3> QED
        BY <2>2, <3>1, <3>2
    <2>6. CASE c.old # c.new
      <3>1. NothingMissed'
        BY <2>5, <2>6 DEF NothingMissed
      <3>2. RebuildsFollowed'
        <4>1. \A r \in Route : work'[r] \in Edits => OnItsWay(work[r].topology)'
          <5>1. ASSUME NEW r \in Route, work'[r] \in Edits
                PROVE  OnItsWay(work[r].topology)'
            <6>1. PICK t \in Topology : t = work'[r].topology
              BY <5>1 DEF Edits
            <6>2. OnItsWay(t)'
              BY <2>5, <2>6
            <6> QED
              BY <6>1, <6>2 DEF OnItsWay
          <5> QED
            BY <5>1
        <4> QED
          BY <4>1 DEF RebuildsFollowed
      <3> QED
        BY <1>5, <3>1, <3>2
    <2>7. CASE hosts' = hosts
      <3>1. \A v \in Writer : Announces(v) => Announces(v)'
        BY <1>2, <1>3 DEF Announces
      <3>2. \A t \in Existing : OnItsWay(t) => OnItsWay(t)'
        <4>1. Existing \subseteq Topology
          BY DEF Existing
        <4>2. MarksStale => MarksStale'
          BY <1>2 DEF MarksStale, Marks
        <4>3. Marked(pending) => Marked(pending)'
          BY <1>2
        <4> QED
          BY <1>2, <3>1, <4>1, <4>2, <4>3, WayKept
      <3> QED
        BY <1>2, <1>4, <2>1, <2>7, <3>2, QuietStepKept
    <2> QED
      BY <2>4, <2>6, <2>7
  <1> QED
    BY <1>7, <1>8

(* A rebuild that misses a change is followed by its event; the other      *)
(* routes write back the graph and the flag they have read.                *)
LEMMA RouteKept ==
    ASSUME StaleInv, NEW r \in Route, RouteStep(r)
    PROVE  RoutesHaveRows' /\ RebuildsFollowed' /\ NothingMissed'
  <1>0. /\ TypeInv /\ RoutesHaveRows /\ RebuildsFollowed /\ NothingMissed
        /\ topo \in [Topology -> Row \cup {NoRow}]
        /\ at \in [Writer \cup Route -> {"idle", "write", "publish"}]
        /\ work \in [Writer \cup Route -> Works]
    BY DEF StaleInv, TypeInv, TopologyTypeOK, WorkFits, Works
  <1>1. /\ at[r] = "write"
        /\ Marked(pending) => Marked(pending)'
        /\ Go(r, "idle", Idle)
        /\ UNCHANGED <<hosts, batch, copies, stage>>
    BY <1>0, RouteWrites
  <1>2. PICK c : c = work[r]
    OBVIOUS
  <1>3. PICK t \in Topology : t = c.topology
    BY <1>0, <1>2, RouteWrites
  <1>4. PICK row \in Row :
          /\ topo' = [topo EXCEPT ![t] = row]
          /\ \/ EndRoute(r) /\ c \in Edits /\ row = NewRow(c)
             \/ EndCreate(r) /\ c \in Creations /\ row = Built(c.hosts)
    BY <1>0, <1>2, <1>3, RouteWrites
  <1>5. topo'[t] = row /\ \A u \in Topology \ {t} : topo'[u] = topo[u]
    BY <1>0, <1>4
  <1>6. /\ at'[r] = "idle"
        /\ \A q \in (Writer \cup Route) \ {r} : at'[q] = at[q] /\ work'[q] = work[q]
    BY <1>0, <1>1 DEF Go
  <1>7. \A u \in Topology : OnItsWay(u) => OnItsWay(u)'
    <2>1. \A v \in Writer : Announces(v) => Announces(v)'
      BY <1>6, RequestAssumption DEF Announces
    <2>2. MarksStale => MarksStale'
      BY <1>1 DEF MarksStale, Marks
    <2> QED
      BY <1>1, <2>1, <2>2, WayKept
  <1>8. Existing \subseteq Existing' /\ Existing \subseteq Topology
    BY <1>5, RowAssumption DEF Existing
  <1>9. raced' = raced \ {r}
    BY <1>4 DEF EndRoute, EndCreate
  <1>10. RoutesHaveRows' /\ RebuildsFollowed'
    BY <1>0, <1>1, <1>6, <1>7, <1>8, <1>9, RoutesKept
  <1>11. ASSUME NEW u \in Topology \ {t}, u \notin missed', OutOfDate(u)'
         PROVE  topo'[u].stale \/ OnItsWay(u)'
    <2>1. u \notin missed
      BY <1>2, <1>3, <1>4, <1>11 DEF EndRoute, EndCreate
    <2>2. OutOfDate(u)
      BY <1>1, <1>5, <1>11 DEF OutOfDate, Existing, Structure
    <2> QED
      BY <1>0, <1>5, <1>7, <2>1, <2>2 DEF NothingMissed
  <1>12. ASSUME t \notin missed', OutOfDate(t)'
         PROVE  topo'[t].stale \/ OnItsWay(t)'
    <2>0. row.graph # Structure(hosts)
      BY <1>1, <1>5, <1>12 DEF OutOfDate, Structure
    <2>1. CASE EndRoute(r) /\ c \in Edits /\ row = NewRow(c)
      <3>1. /\ topo[t] = c.row /\ r \notin raced
            /\ c.op # "rebuild" => t \notin missed
        BY <1>2, <1>3, <1>12, <2>1 DEF EndRoute
      <3>2. \/ row.graph = Structure(c.hosts)
            \/ /\ row.graph = c.row.graph /\ row.stale = c.row.stale
               /\ c.op # "rebuild"
        BY <2>1, NewRowIs
      <3>3. CASE row.graph = Structure(c.hosts)
        <4>1. OnItsWay(t)
          BY <1>0, <1>1, <1>2, <1>3, <2>0, <2>1, <3>1, <3>3 DEF RebuildsFollowed
        <4> QED
          BY <1>7, <4>1
      <3>4. CASE row.graph = c.row.graph /\ row.stale = c.row.stale /\ c.op # "rebuild"
        <4>1. topo[t] # NoRow
          <5>1. c.row \in Row
            BY <2>1 DEF Edits
          <5> QED
            BY <3>1, <5>1, RowAssumption
        <4>2. OutOfDate(t)
          BY <2>0, <3>1, <3>4, <4>1 DEF OutOfDate, Existing
        <4>3. topo[t].stale \/ OnItsWay(t)
          BY <1>0, <3>1, <3>4, <4>2 DEF NothingMissed
        <4> QED
          BY <1>5, <1>7, <3>1, <3>4, <4>3
      <3> QED
        BY <3>2, <3>3, <3>4
    <2>2. CASE EndCreate(r) /\ c \in Creations /\ row = Built(c.hosts)
      <3>1. hosts = c.hosts
        BY <1>2, <1>3, <1>12, <2>2 DEF EndCreate
      <3>2. c.hosts \in Hosts
        BY <2>2 DEF Creations
      <3> QED
        BY <2>0, <2>2, <3>1, <3>2, BuiltIs
    <2> QED
      BY <1>4, <2>1, <2>2
  <1>13. NothingMissed'
    BY <1>11, <1>12 DEF NothingMissed
  <1> QED
    BY <1>10, <1>13

LEMMA ResetKept ==
    ASSUME StaleInv, BatchFails \/ ServerRestart
    PROVE  RoutesHaveRows' /\ RebuildsFollowed' /\ NothingMissed'
  <1>0. RoutesHaveRows /\ TypeInv
    BY DEF StaleInv
  <1>1. CASE BatchFails
    <2>1. UNCHANGED <<topo, at, work>> /\ MayMiss(Topology)
      BY <1>1 DEF BatchFails, requests, database
    <2>2. /\ missed' = missed \cup Topology
          /\ raced' = IF Topology = {} THEN raced ELSE raced \cup Open
      BY <2>1 DEF MayMiss
    <2>3. NothingMissed'
      BY <2>2 DEF NothingMissed
    <2>4. RoutesHaveRows'
      BY <1>0, <2>1 DEF RoutesHaveRows, Existing
    <2>5. ASSUME NEW r \in Route, r \notin raced', at'[r] = "write", work'[r] \in Edits
          PROVE  FALSE
      <3>1. work'[r].topology \in Topology
        BY <2>5 DEF Edits
      <3> QED
        BY <2>1, <2>2, <2>5, <3>1 DEF Open
    <2>6. RebuildsFollowed'
      BY <2>5 DEF RebuildsFollowed
    <2> QED
      BY <2>3, <2>4, <2>6
  <1>2. CASE ServerRestart
    <2>1. missed' = Topology /\ \A r \in Route : at'[r] = "idle"
      BY <1>2 DEF ServerRestart
    <2> QED
      BY <2>1 DEF NothingMissed, RoutesHaveRows, RebuildsFollowed
  <1> QED
    BY <1>1, <1>2

LEMMA StaleStep ==
    ASSUME StaleInv, [Next]_vars
    PROVE  StaleInv'
  <1>1. TypeInv'
    BY TypeStep DEF StaleInv
  <1>2. CASE UNCHANGED vars
    <2>1. UNCHANGED <<hosts, topo, pending, batch, copies, stage, at, work, raced, missed>>
      BY <1>2 DEF vars, database, subscriber, requests, history
    <2>2. \A t \in Existing : OnItsWay(t) => OnItsWay(t)'
      BY <2>1 DEF OnItsWay, MarksStale, Marks
    <2>3. RoutesHaveRows' /\ RebuildsFollowed' /\ NothingMissed'
      BY <2>1, <2>2, QuietStepKept
    <2> QED
      BY <1>1, <2>3 DEF StaleInv
  <1>3. CASE Next
    <2>1. BatchStep => RoutesHaveRows' /\ RebuildsFollowed' /\ NothingMissed'
      BY FlushKept, ReadKept, WriteKept DEF BatchStep
    <2>2. \A w \in Writer : WriterStep(w) =>
              RoutesHaveRows' /\ RebuildsFollowed' /\ NothingMissed'
      BY WriteHostKept, PublishKept DEF WriterStep
    <2>3. RoutesHaveRows' /\ RebuildsFollowed' /\ NothingMissed'
      BY <1>3, <2>1, <2>2, BeginChangeKept, BeginRouteKept, RouteKept, ResetKept DEF Next
    <2> QED
      BY <1>1, <2>3 DEF StaleInv
  <1> QED
    BY <1>2, <1>3

LEMMA StaleInit == Init => StaleInv
  <1> SUFFICES ASSUME Init PROVE StaleInv
    OBVIOUS
  <1>1. RoutesHaveRows /\ RebuildsFollowed
    BY DEF Init, RoutesHaveRows, RebuildsFollowed
  <1>2. NothingMissed
    BY DEF Init, NothingMissed, OutOfDate, Existing
  <1> QED
    BY <1>1, <1>2, TypeInit DEF StaleInv

(* The changes of hosts, the routes, the batches and a restart keep the    *)
(* invariant behind NothingMissed.                                         *)
THEOREM StaleInvariance == Spec => []StaleInv
  <1>1. StaleInv /\ [Next]_vars => StaleInv'
    BY StaleStep
  <1> QED
    BY <1>1, StaleInit, PTL DEF Spec

(***************************************************************************)
(* A topology whose graph no longer matches the hosts is marked stale or   *)
(* will be by an event that is on its way, however requests that change    *)
(* hosts, routes that rebuild, refresh or edit topologies, and batches     *)
(* interleave; `missed' names the topologies whose flag is lost when one   *)
(* of them writes over what another has written, and no other is.          *)
(***************************************************************************)
THEOREM NothingIsMissed == Spec => []NothingMissed
  <1>1. StaleInv => NothingMissed
    BY DEF StaleInv
  <1> QED
    BY <1>1, StaleInvariance, PTL
=============================================================================
