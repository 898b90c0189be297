----------------------------- MODULE HostsProofs ----------------------------
(* Proofs about Hosts.                                                     *)
EXTENDS Hosts, TLAPS

(***************************************************************************)
(* Requests come one after another: what one has read is still so when it  *)
(* writes.  Two that overlap can delete the host of a daemon that is being *)
(* registered, or add an interface to a host that is being merged away.    *)
(***************************************************************************)
OneRequest == \A q, r \in Request : q = r

(* An interface row of the host at the address. *)
Has(h, a) ==
    \E i \in Iface : ifaces[i] # NoRow /\ ifaces[i].host = h /\ ifaces[i].addr = a

-----------------------------------------------------------------------------
(* The parts of the inductive invariant *)

(* What a request has set by the time it gets somewhere. *)
LocalsSet ==
    \A r \in Request :
        /\ at[r] \in {"create", "iface"} => target[r] \in Host /\ report[r] \in Report
        /\ at[r] = "create" => report[r].addrs # {}
        /\ at[r] = "iface" => report[r].addrs # {} \/ bound[r] \in Iface
        /\ at[r] = "daemon" => target[r] \in Host
        /\ at[r] \in {"lock", "read", "iface moves", "service moves", "delete"} =>
               /\ target[r] \in Host /\ other[r] \in Host
               /\ target[r] # other[r]
        /\ at[r] = "drop" => other[r] \in Host

(* The foreign keys. *)
RowsHaveHosts ==
    /\ \A i \in Iface : ifaces[i] # NoRow => ifaces[i].host \in hosts
    /\ \A s \in Service : services[s] # NoRow => services[s].host \in hosts

(* A host is not deleted once a daemon refers to it or is about to. *)
DaemonsHosted ==
    /\ daemons \subseteq hosts
    /\ \A r \in Request : at[r] = "daemon" => target[r] \in hosts
    /\ \A r \in Request : at[r] \in {"delete", "drop"} => other[r] \notin daemons

(* A host has one interface at an address. *)
AddressesDiffer ==
    \A i, j \in Iface :
        /\ ifaces[i] # NoRow /\ ifaces[j] # NoRow
        /\ ifaces[i].host = ifaces[j].host /\ ifaces[i].addr = ifaces[j].addr
        => i = j

(* The host a report goes to was found by an address, or no other host has  *)
(* one of those it still has to store.                                     *)
ReportsMatch ==
    \A r \in Request : at[r] \in {"create", "iface"} =>
        \/ report[r].discovered /\ \E a \in Addr : Has(target[r], a)
        \/ \A g \in Host \ {target[r]}, a \in report[r].addrs : ~Has(g, a)

(* What a consolidation has read is so, and it knows of every address the  *)
(* destination has in common with what it still has to move.               *)
ReadStays ==
    \A r \in Request : at[r] = "iface moves" =>
        /\ \A x \in known[r] : /\ ifaces[x[1]] # NoRow
                               /\ ifaces[x[1]].host = target[r]
                               /\ ifaces[x[1]].addr = x[2]
        /\ \A m \in moves[r] : /\ ifaces[m[1]] # NoRow
                               /\ ifaces[m[1]].host = other[r]
                               /\ ifaces[m[1]].addr = m[2]
                               /\ Has(target[r], m[2]) => Twins(m[2], known[r]) # {}

(* What the host to be deleted has, the destination has or will be given. *)
OtherIsCovered ==
    \A r \in Request :
        /\ at[r] = "iface moves" =>
               \A i \in Iface : ifaces[i] # NoRow /\ ifaces[i].host = other[r] =>
                   <<i, ifaces[i].addr>> \in moves[r] \/ Has(target[r], ifaces[i].addr)
        /\ at[r] \in {"service moves", "delete"} =>
               \A a \in Addr : Has(other[r], a) => Has(target[r], a)

HostsInv ==
    /\ HostsTypeOK
    /\ LocalsSet
    /\ RowsHaveHosts
    /\ DaemonsHosted
    /\ AddressesDiffer
    /\ ReportsMatch
    /\ ReadStays
    /\ OtherIsCovered

-----------------------------------------------------------------------------
(* Types *)

LEMMA Ids ==
    /\ NoRow \notin Host /\ NoRow \notin Iface /\ NoRow \notin Service
    /\ NoRow \notin IfaceRow /\ NoRow \notin ServiceRow
    /\ \A x \in IfaceRow : x.host \in Host /\ x.addr \in Addr
    /\ \A h \in Host, a \in Addr : [host |-> h, addr |-> a] \in IfaceRow
    /\ \A x \in ServiceRow :
          x.host \in Host /\ x.def \in Definition /\ x.ifaces \subseteq Bindable
    /\ Iface \subseteq Bindable /\ AllIfaces \in Bindable
  BY RowAssumption DEF IfaceRow, ServiceRow, Bindable

LEMMA FirstFreeIsFree ==
    /\ \A i \in FirstFree(ifaces) : i \in DOMAIN ifaces /\ ifaces[i] = NoRow
    /\ \A s \in FirstFree(services) : s \in DOMAIN services /\ services[s] = NoRow
  BY DEF FirstFree

(* The end of a request keeps the types. *)
LEMMA DoneTypes ==
  ASSUME HostsTypeOK, LocalsSet, NEW r \in Request, Done(r)
  PROVE  /\ lock' \in [Host -> SUBSET Request]
         /\ at' \in [Request -> {"idle", "create", "iface", "daemon", "lock",
                "read", "iface moves", "service moves", "delete", "drop"}]
         /\ target' \in [Request -> Host \cup {NoRow}]
         /\ other' \in [Request -> Host \cup {NoRow}]
         /\ report' \in [Request -> Report \cup {NoReport}]
         /\ bound' \in [Request -> Iface \cup {NoRow}]
         /\ known' \in [Request -> SUBSET (Iface \X Addr)]
         /\ moves' \in [Request -> SUBSET (Iface \X Addr)]
         /\ shifts' \in [Request -> SUBSET (Service \X SUBSET Bindable)]
         /\ remap' \in [Request -> [Bindable -> Bindable]]
         /\ LocalsSet'
<1>1. /\ lock' \in [Host -> SUBSET Request]
      /\ target' \in [Request -> Host \cup {NoRow}]
      /\ other' \in [Request -> Host \cup {NoRow}]
      /\ report' \in [Request -> Report \cup {NoReport}]
      /\ bound' \in [Request -> Iface \cup {NoRow}]
  BY DEF HostsTypeOK, Done
<1>2. at' \in [Request -> {"idle", "create", "iface", "daemon", "lock",
                "read", "iface moves", "service moves", "delete", "drop"}]
  BY DEF HostsTypeOK, Done
<1>3. /\ known' \in [Request -> SUBSET (Iface \X Addr)]
      /\ moves' \in [Request -> SUBSET (Iface \X Addr)]
      /\ shifts' \in [Request -> SUBSET (Service \X SUBSET Bindable)]
  BY DEF HostsTypeOK, Done
<1>4. remap' \in [Request -> [Bindable -> Bindable]]
  BY Ids DEF HostsTypeOK, Done
<1>5. LocalsSet'
  BY DEF HostsTypeOK, LocalsSet, Done
<1>6. QED
  BY <1>1, <1>2, <1>3, <1>4, <1>5

LEMMA CascadeTypes ==
  ASSUME HostsTypeOK, NEW h \in Host, Cascade(h)
  PROVE  /\ hosts' \subseteq Host
         /\ ifaces' \in [Iface -> IfaceRow \cup {NoRow}]
         /\ services' \in [Service -> ServiceRow \cup {NoRow}]
         /\ daemons' \subseteq Host
<1>1. ASSUME NEW s \in Service, services[s] # NoRow
      PROVE  [services[s] EXCEPT !.ifaces = @ \ IfacesOf(h)] \in ServiceRow
  <2>1. services[s] \in ServiceRow
    BY <1>1 DEF HostsTypeOK
  <2>2. QED
    BY <2>1 DEF ServiceRow
<1>2. services' \in [Service -> ServiceRow \cup {NoRow}]
  BY <1>1 DEF Cascade
<1>3. QED
  BY <1>2 DEF Cascade, HostsTypeOK

(* Only the request that takes a step may change its position. *)
LEMMA LocalsKept ==
  ASSUME LocalsSet, NEW r \in Request,
         \A q \in Request \ {r} :
             /\ at'[q] = at[q] /\ target'[q] = target[q] /\ other'[q] = other[q]
             /\ report'[q] = report[q] /\ bound'[q] = bound[q],
         at'[r] \in {"create", "iface"} => target'[r] \in Host /\ report'[r] \in Report,
         at'[r] = "create" => report'[r].addrs # {},
         at'[r] = "iface" => report'[r].addrs # {} \/ bound'[r] \in Iface,
         at'[r] = "daemon" => target'[r] \in Host,
         at'[r] \in {"lock", "read", "iface moves", "service moves", "delete"} =>
               /\ target'[r] \in Host /\ other'[r] \in Host
               /\ target'[r] # other'[r],
         at'[r] = "drop" => other'[r] \in Host
  PROVE  LocalsSet'
<1> DEFINE Set(q) ==
      /\ at[q] \in {"create", "iface"} => target[q] \in Host /\ report[q] \in Report
      /\ at[q] = "create" => report[q].addrs # {}
      /\ at[q] = "iface" => report[q].addrs # {} \/ bound[q] \in Iface
      /\ at[q] = "daemon" => target[q] \in Host
      /\ at[q] \in {"lock", "read", "iface moves", "service moves", "delete"} =>
             /\ target[q] \in Host /\ other[q] \in Host
             /\ target[q] # other[q]
      /\ at[q] = "drop" => other[q] \in Host
<1>1. \A q \in Request : Set(q)
  BY DEF LocalsSet
<1>2. Set(r)'
  OBVIOUS
<1>3. ASSUME NEW q \in Request \ {r}
      PROVE  Set(q)'
  <2>1. /\ at'[q] = at[q] /\ target'[q] = target[q] /\ other'[q] = other[q]
        /\ report'[q] = report[q] /\ bound'[q] = bound[q]
    OBVIOUS
  <2>2. Set(q)
    BY <1>1
  <2>3. QED
    BY <2>1, <2>2
<1>4. \A q \in Request : Set(q)'
  <2> HIDE DEF Set
  <2> QED
    BY <1>2, <1>3
<1>5. QED
  BY <1>4 DEF LocalsSet

LEMMA ArriveTypes ==
  ASSUME HostsTypeOK, LocalsSet, NEW r \in Request, Arrive(r)
  PROVE  HostsTypeOK' /\ LocalsSet'
<1>1. ASSUME NEW h \in Host, NEW as \in (SUBSET Addr) \ {{}}, NEW def \in Definition,
             NEW discovered \in BOOLEAN, Submit(r, h, as, def, discovered)
      PROVE  HostsTypeOK' /\ LocalsSet'
  <2>1. [addrs |-> as, def |-> def, discovered |-> discovered] \in Report
    BY DEF Report
  <2>2. PICK t \in Host : target' = [target EXCEPT ![r] = t]
    BY <1>1 DEF Submit, MatchingHosts, HostsTypeOK
  <2>3. HostsTypeOK'
    BY <1>1, <2>1, <2>2 DEF Submit, HostsTypeOK, rows
  <2>4. LocalsSet'
    <3>1. report'[r] \in Report /\ report'[r].addrs # {} /\ at'[r] = "create"
      BY <1>1, <2>1 DEF Submit, HostsTypeOK
    <3>2. target'[r] \in Host
      BY <2>2 DEF HostsTypeOK
    <3>3. \A q \in Request \ {r} :
             /\ at'[q] = at[q] /\ target'[q] = target[q] /\ other'[q] = other[q]
             /\ report'[q] = report[q] /\ bound'[q] = bound[q]
      BY <1>1, <2>2 DEF Submit, HostsTypeOK
    <3>4. QED
      BY <3>1, <3>2, <3>3, LocalsKept
  <2>5. QED
    BY <2>3, <2>4
<1>2. ASSUME NEW h \in Host, Register(r, h)
      PROVE  HostsTypeOK' /\ LocalsSet'
  <2>1. HostsTypeOK'
    BY <1>2 DEF Register, HostsTypeOK
  <2>2. LocalsSet'
    BY <1>2, LocalsKept DEF Register, HostsTypeOK
  <2>3. QED
    BY <2>1, <2>2
<1>3. ASSUME NEW d \in Host, NEW o \in Host, Consolidate(r, d, o)
      PROVE  HostsTypeOK' /\ LocalsSet'
  <2>1. HostsTypeOK'
    BY <1>3 DEF Consolidate, HostsTypeOK, rows
  <2>2. LocalsSet'
    BY <1>3, LocalsKept DEF Consolidate, HostsTypeOK, rows
  <2>3. QED
    BY <2>1, <2>2
<1>4. ASSUME NEW h \in Host, CheckDelete(r, h)
      PROVE  HostsTypeOK' /\ LocalsSet'
  <2>1. HostsTypeOK'
    BY <1>4 DEF CheckDelete, HostsTypeOK, rows
  <2>2. LocalsSet'
    BY <1>4, LocalsKept DEF CheckDelete, HostsTypeOK, rows
  <2>3. QED
    BY <2>1, <2>2
<1>5. QED
  BY <1>1, <1>2, <1>3, <1>4 DEF Arrive

LEMMA ReportTypes ==
  ASSUME HostsTypeOK, LocalsSet, NEW r \in Request,
         CreateHost(r) \/ CreateIface(r) \/ CreateService(r) \/ CreateDaemon(r)
  PROVE  HostsTypeOK' /\ LocalsSet'
<1>1. CASE CreateHost(r)
  <2>1. target[r] \in Host /\ report[r] \in Report /\ report[r].addrs # {}
    BY <1>1 DEF CreateHost, LocalsSet
  <2>2. HostsTypeOK'
    BY <1>1, <2>1 DEF CreateHost, HostsTypeOK
  <2>3. LocalsSet'
    BY <1>1, <2>1, LocalsKept DEF CreateHost, HostsTypeOK
  <2>4. QED
    BY <2>2, <2>3
<1>2. CASE CreateIface(r)
  <2>1. /\ at[r] = "iface" /\ target[r] \in Host /\ report[r] \in Report
        /\ UNCHANGED <<hosts, services, daemons>>
    BY <1>2 DEF CreateIface, LocalsSet
  <2>2. CASE Done(r) /\ UNCHANGED ifaces
    BY <2>1, <2>2, DoneTypes DEF HostsTypeOK
  <2>3. CASE ~(Done(r) /\ UNCHANGED ifaces)
    <3>1. PICK a \in report[r].addrs, i \in Iface :
            /\ ifaces' = [ifaces EXCEPT ![i] = [host |-> target[r], addr |-> a]]
            /\ bound' = [bound EXCEPT ![r] = i]
            /\ report' = [report EXCEPT ![r].addrs = @ \ {a}]
            /\ UNCHANGED <<lock, at, target, other, known, moves, shifts, remap>>
      BY <1>2, <2>3, FirstFreeIsFree DEF CreateIface, At, IfacesOf, HostsTypeOK
    <3>2. a \in Addr /\ report'[r] \in Report
      BY <2>1, <3>1 DEF Report, HostsTypeOK
    <3>3. HostsTypeOK'
      BY <2>1, <3>1, <3>2, Ids DEF HostsTypeOK
    <3>4. LocalsSet'
      BY <2>1, <3>1, <3>2, LocalsKept DEF HostsTypeOK
    <3>5. QED
      BY <3>3, <3>4
  <2>4. QED
    BY <2>2, <2>3
<1>3. CASE CreateService(r)
  <2>1. /\ target[r] \in Host /\ report[r] \in Report /\ bound[r] \in Iface
        /\ Done(r) /\ UNCHANGED <<hosts, ifaces, daemons>>
    BY <1>3 DEF CreateService, LocalsSet
  <2>2. services' \in [Service -> ServiceRow \cup {NoRow}]
    <3>1. CASE UNCHANGED services
      BY <3>1 DEF HostsTypeOK
    <3>2. CASE ~UNCHANGED services
      <4>1. PICK s \in Service, bs \in SUBSET Bindable :
              services' = [services EXCEPT ![s] =
                 [host |-> target[r], def |-> report[r].def, ifaces |-> bs]]
        <5> DEFINE same == {s \in ServicesOf(target[r]) : services[s].def = report[r].def}
        <5>1. PICK s \in (IF same = {} THEN FirstFree(services) ELSE same) :
                services' = [services EXCEPT ![s] =
                     [host |-> target[r], def |-> report[r].def,
                      ifaces |-> {bound[r]} \cup (IF same = {} THEN {} ELSE @.ifaces)]]
          BY <1>3, <3>2 DEF CreateService
        <5>2. s \in Service
          BY FirstFreeIsFree DEF HostsTypeOK, ServicesOf
        <5>3. same # {} => services[s].ifaces \subseteq Bindable
          BY <5>2, Ids DEF HostsTypeOK, ServicesOf
        <5>4. {bound[r]} \cup (IF same = {} THEN {} ELSE services[s].ifaces) \in SUBSET Bindable
          BY <2>1, <5>3, Ids
        <5>5. QED
          BY <5>1, <5>2, <5>4
      <4>2. [host |-> target[r], def |-> report[r].def, ifaces |-> bs] \in ServiceRow
        BY <2>1 DEF ServiceRow, Report
      <4>3. QED
        BY <4>1, <4>2 DEF HostsTypeOK
    <3>3. QED
      BY <3>1, <3>2
  <2>3. QED
    BY <2>1, <2>2, DoneTypes DEF HostsTypeOK
<1>4. CASE CreateDaemon(r)
  <2>1. target[r] \in Host
    BY <1>4 DEF CreateDaemon, LocalsSet
  <2>2. QED
    BY <1>4, <2>1, DoneTypes DEF CreateDaemon, HostsTypeOK
<1>5. QED
  BY <1>1, <1>2, <1>3, <1>4

LEMMA ReadTypes ==
  ASSUME HostsTypeOK, NEW r \in Request
  PROVE  /\ \A m \in known[r] \cup moves[r] : m[1] \in Iface /\ m[2] \in Addr
         /\ \A m \in shifts[r] : m[1] \in Service /\ m[2] \subseteq Bindable
         /\ \A h : Seen(h) \subseteq Iface \X Addr
         /\ \A s \in Service : services[s] # NoRow =>
                <<s, services[s].ifaces>> \in Service \X SUBSET Bindable
<1>1. /\ known \in [Request -> SUBSET (Iface \X Addr)]
      /\ moves \in [Request -> SUBSET (Iface \X Addr)]
      /\ shifts \in [Request -> SUBSET (Service \X SUBSET Bindable)]
  BY DEF HostsTypeOK
<1>2. \A i \in Iface : ifaces[i] # NoRow => ifaces[i].addr \in Addr
  BY Ids DEF HostsTypeOK
<1>3. \A h : Seen(h) \subseteq Iface \X Addr
  BY <1>2 DEF Seen, IfacesOf
<1>4. \A s \in Service : services[s] # NoRow => services[s].ifaces \subseteq Bindable
  BY Ids DEF HostsTypeOK
<1>5. \A m \in known[r] \cup moves[r] : m[1] \in Iface /\ m[2] \in Addr
  BY <1>1
<1>6. \A m \in shifts[r] : m[1] \in Service /\ m[2] \subseteq Bindable
  BY <1>1
<1>7. QED
  BY <1>3, <1>4, <1>5, <1>6

LEMMA ConsolidationTypes ==
  ASSUME HostsTypeOK, LocalsSet, NEW r \in Request,
         \/ LockDestination(r) \/ ReadIfaces(r) \/ MoveIface(r)
         \/ ReadServices(r) \/ MoveService(r)
  PROVE  HostsTypeOK' /\ LocalsSet'
<1>1. CASE LockDestination(r)
  <2>1. target[r] \in Host /\ other[r] \in Host /\ target[r] # other[r]
    BY <1>1 DEF LockDestination, LocalsSet
  <2>2. HostsTypeOK'
    BY <1>1, <2>1 DEF LockDestination, HostsTypeOK, rows
  <2>3. LocalsSet'
    BY <1>1, <2>1, LocalsKept DEF LockDestination, HostsTypeOK
  <2>4. QED
    BY <2>2, <2>3
<1>2. CASE ReadIfaces(r)
  <2>1. target[r] \in Host /\ other[r] \in Host /\ target[r] # other[r]
    BY <1>2 DEF ReadIfaces, LocalsSet
  <2>2. \A h : Seen(h) \subseteq Iface \X Addr
    BY ReadTypes
  <2>3. HostsTypeOK'
    BY <1>2, <2>1, <2>2 DEF ReadIfaces, HostsTypeOK, rows
  <2>4. LocalsSet'
    BY <1>2, <2>1, LocalsKept DEF ReadIfaces, HostsTypeOK
  <2>5. QED
    BY <2>3, <2>4
<1>3. CASE MoveIface(r)
  <2>1. /\ at[r] = "iface moves" /\ target[r] \in Host
        /\ other[r] \in Host /\ target[r] # other[r]
        /\ UNCHANGED <<hosts, services, daemons>>
    BY <1>3 DEF MoveIface, LocalsSet
  <2>2. PICK m \in moves[r] :
          LET i == m[1]
              twins == Twins(m[2], known[r])
          IN  \/ /\ twins # {}
                 /\ \E t \in twins : remap' = [remap EXCEPT ![r][i] = t]
                 /\ moves' = [moves EXCEPT ![r] = @ \ {m}]
                 /\ UNCHANGED <<ifaces, lock, at, target, other, report, bound,
                                known, shifts>>
              \/ /\ twins = {}
                 /\ ifaces[i] # NoRow /\ target[r] \in hosts
                 /\ ifaces' = [ifaces EXCEPT ![i].host = target[r]]
                 /\ remap' = [remap EXCEPT ![r][i] = i]
                 /\ moves' = [moves EXCEPT ![r] = @ \ {m}]
                 /\ UNCHANGED <<lock, at, target, other, report, bound, known, shifts>>
              \/ /\ twins = {}
                 /\ ifaces[i] = NoRow \/ target[r] \notin hosts
                 /\ Done(r)
                 /\ UNCHANGED ifaces
    BY <1>3 DEF MoveIface
  <2>3. CASE Done(r) /\ UNCHANGED ifaces
    BY <2>1, <2>3, DoneTypes DEF HostsTypeOK
  <2>4. CASE ~(Done(r) /\ UNCHANGED ifaces)
    <3>1. m[1] \in Iface /\ m[2] \in Addr
      BY ReadTypes
    <3>2. /\ moves' = [moves EXCEPT ![r] = @ \ {m}]
          /\ UNCHANGED <<lock, at, target, other, report, bound, known, shifts>>
      BY <2>2, <2>4
    <3>3. ifaces' \in [Iface -> IfaceRow \cup {NoRow}]
      <4>1. ifaces[m[1]] # NoRow => [ifaces[m[1]] EXCEPT !.host = target[r]] \in IfaceRow
        <5>1. ifaces[m[1]] # NoRow => ifaces[m[1]] \in IfaceRow
          BY <3>1 DEF HostsTypeOK
        <5>2. QED
          BY <2>1, <5>1 DEF IfaceRow
      <4>2. \/ UNCHANGED ifaces
            \/ /\ ifaces[m[1]] # NoRow
               /\ ifaces' = [ifaces EXCEPT ![m[1]].host = target[r]]
        BY <2>2, <2>4
      <4>3. QED
        BY <3>1, <4>1, <4>2 DEF HostsTypeOK
    <3>4. remap' \in [Request -> [Bindable -> Bindable]]
      <4>1. PICK t \in Iface : remap' = [remap EXCEPT ![r][m[1]] = t]
        <5>1. Twins(m[2], known[r]) \subseteq Iface
          BY ReadTypes DEF Twins
        <5>2. QED
          BY <2>2, <2>4, <3>1, <5>1
      <4>2. remap \in [Request -> [Bindable -> Bindable]]
        BY DEF HostsTypeOK
      <4>3. QED
        BY <3>1, <4>1, <4>2, Ids
    <3>5. moves' \in [Request -> SUBSET (Iface \X Addr)]
      BY <3>2 DEF HostsTypeOK
    <3>6. LocalsSet'
      BY <2>1, <3>2 DEF LocalsSet
    <3>7. QED
      BY <2>1, <3>2, <3>3, <3>4, <3>5, <3>6 DEF HostsTypeOK
  <2>5. QED
    BY <2>3, <2>4
<1>4. CASE ReadServices(r)
  <2> DEFINE there == {services[s].def : s \in ServicesOf(target[r])}
             read == {<<s, services[s].ifaces>> :
                 s \in {u \in ServicesOf(other[r]) : services[u].def \notin there}}
  <2>1. target[r] \in Host /\ other[r] \in Host /\ target[r] # other[r]
    BY <1>4 DEF ReadServices, LocalsSet
  <2>2. read \subseteq Service \X SUBSET Bindable
    BY ReadTypes DEF ServicesOf
  <2>3. shifts' = [shifts EXCEPT ![r] = read]
    BY <1>4 DEF ReadServices
  <2> HIDE DEF read
  <2>4. HostsTypeOK'
    BY <1>4, <2>2, <2>3 DEF ReadServices, HostsTypeOK, rows
  <2>5. LocalsSet'
    BY <1>4, <2>1, LocalsKept DEF ReadServices, HostsTypeOK
  <2>6. QED
    BY <2>4, <2>5
<1>5. CASE MoveService(r)
  <2>1. /\ at[r] = "service moves" /\ target[r] \in Host
        /\ UNCHANGED <<hosts, ifaces, daemons>>
    BY <1>5 DEF MoveService, LocalsSet
  <2>2. CASE Done(r) /\ UNCHANGED services
    BY <2>1, <2>2, DoneTypes DEF HostsTypeOK
  <2>3. CASE ~(Done(r) /\ UNCHANGED services)
    <3>1. PICK m \in shifts[r] :
            /\ services[m[1]] # NoRow
            /\ services' = [services EXCEPT ![m[1]].host = target[r],
                                            ![m[1]].ifaces = {remap[r][b] : b \in m[2]}]
            /\ shifts' = [shifts EXCEPT ![r] = @ \ {m}]
            /\ UNCHANGED <<lock, at, target, other, report, bound, known, moves, remap>>
      BY <1>5, <2>3 DEF MoveService
    <3>2. m[1] \in Service /\ m[2] \subseteq Bindable
      BY ReadTypes
    <3>3. {remap[r][b] : b \in m[2]} \subseteq Bindable
      <4>1. remap \in [Request -> [Bindable -> Bindable]]
        BY DEF HostsTypeOK
      <4>2. QED
        BY <3>2, <4>1
    <3>4. services' \in [Service -> ServiceRow \cup {NoRow}]
      <4>1. services[m[1]] \in ServiceRow
        BY <3>1, <3>2 DEF HostsTypeOK
      <4>2. [[services[m[1]] EXCEPT !.host = target[r]]
                EXCEPT !.ifaces = {remap[r][b] : b \in m[2]}] \in ServiceRow
        BY <2>1, <3>3, <4>1 DEF ServiceRow
      <4>3. QED
        BY <3>1, <3>2, <4>2 DEF HostsTypeOK
    <3>5. shifts' \in [Request -> SUBSET (Service \X SUBSET Bindable)]
      BY <3>1 DEF HostsTypeOK
    <3>6. LocalsSet'
      BY <3>1 DEF LocalsSet
    <3>7. QED
      BY <2>1, <3>1, <3>4, <3>5, <3>6 DEF HostsTypeOK
  <2>4. QED
    BY <2>2, <2>3
<1>6. QED
  BY <1>1, <1>2, <1>3, <1>4, <1>5

LEMMA DeletionTypes ==
  ASSUME HostsTypeOK, LocalsSet, NEW r \in Request,
         CheckOther(r) \/ DeleteOther(r) \/ Drop(r) \/ Crash(r)
  PROVE  HostsTypeOK' /\ LocalsSet'
<1>1. CASE CheckOther(r)
  <2>1. /\ UNCHANGED rows
        /\ at[r] = "service moves"
        /\ \/ Done(r)
           \/ /\ at' = [at EXCEPT ![r] = "delete"]
              /\ UNCHANGED <<lock, target, other, report, bound, known, moves,
                             shifts, remap>>
    BY <1>1 DEF CheckOther
  <2>2. CASE Done(r)
    BY <2>1, <2>2, DoneTypes DEF HostsTypeOK, rows
  <2>3. CASE at' = [at EXCEPT ![r] = "delete"] /\ ~Done(r)
    <3>1. HostsTypeOK'
      BY <2>1, <2>3 DEF HostsTypeOK, rows
    <3>2. LocalsSet'
      BY <2>1, <2>3 DEF LocalsSet, HostsTypeOK
    <3>3. QED
      BY <3>1, <3>2
  <2>4. QED
    BY <2>1, <2>2, <2>3
<1>2. CASE DeleteOther(r) \/ Drop(r)
  <2>1. other[r] \in Host /\ Cascade(other[r]) /\ Done(r)
    BY <1>2 DEF DeleteOther, Drop, LocalsSet
  <2>2. QED
    BY <2>1, CascadeTypes, DoneTypes DEF HostsTypeOK
<1>3. CASE Crash(r)
  BY <1>3, DoneTypes DEF Crash, HostsTypeOK, rows
<1>4. QED
  BY <1>1, <1>2, <1>3

LEMMA TypeStep ==
  ASSUME HostsTypeOK, LocalsSet, [Next]_vars
  PROVE  HostsTypeOK' /\ LocalsSet'
<1>1. ASSUME NEW h \in Host, DeleteDaemon(h) PROVE HostsTypeOK' /\ LocalsSet'
  BY <1>1 DEF DeleteDaemon, HostsTypeOK, LocalsSet, request
<1>2. CASE UNCHANGED vars
  BY <1>2 DEF HostsTypeOK, LocalsSet, vars, rows, request
<1>3. QED
  BY <1>1, <1>2, ArriveTypes, ReportTypes, ConsolidationTypes, DeletionTypes
     DEF Next, Step

LEMMA TypeInit == Init => HostsTypeOK /\ LocalsSet
  BY Ids DEF Init, HostsTypeOK, LocalsSet, Free

(* The tables and the requests keep their types, however many requests     *)
(* overlap and wherever the server stops.                                  *)
THEOREM HostsTyped == Spec => []HostsTypeOK
<1>1. HostsTypeOK /\ LocalsSet /\ [Next]_vars => HostsTypeOK' /\ LocalsSet'
  BY TypeStep
<1>2. QED
  BY <1>1, TypeInit, PTL DEF Spec

-----------------------------------------------------------------------------
(* What the steps do to the tables *)

LEMMA CascadeRows ==
  ASSUME HostsTypeOK, NEW h \in Host, Cascade(h)
  PROVE  /\ hosts' = hosts \ {h} /\ UNCHANGED daemons
         /\ \A i \in Iface : ifaces'[i] =
                IF ifaces[i] # NoRow /\ ifaces[i].host = h THEN NoRow ELSE ifaces[i]
         /\ \A s \in Service : services'[s] # NoRow =>
                /\ services[s] # NoRow /\ services[s].host # h
                /\ services'[s].host = services[s].host
<1>1. ASSUME NEW s \in Service, services'[s] # NoRow
      PROVE  /\ services[s] # NoRow /\ services[s].host # h
             /\ services'[s].host = services[s].host
  <2>1. /\ services[s] # NoRow /\ s \notin ServicesOf(h)
        /\ services'[s] = [services[s] EXCEPT !.ifaces = @ \ IfacesOf(h)]
    BY <1>1 DEF Cascade
  <2>2. services[s] \in ServiceRow
    BY <2>1 DEF HostsTypeOK
  <2>3. QED
    BY <2>1, <2>2 DEF ServicesOf, ServiceRow
<1>2. QED
  BY <1>1 DEF Cascade, IfacesOf

(* A report ends, finds its interface, or adds one. *)
LEMMA CreateIfaceCases ==
  ASSUME HostsTypeOK, LocalsSet, NEW r \in Request, CreateIface(r)
  PROVE  /\ at[r] = "iface" /\ target[r] \in Host
         /\ UNCHANGED <<hosts, services, daemons>>
         /\ \/ Done(r) /\ UNCHANGED ifaces
            \/ \E a \in report[r].addrs, i \in Iface :
                 /\ a \in Addr /\ target[r] \in hosts
                 /\ ifaces' = [ifaces EXCEPT ![i] = [host |-> target[r], addr |-> a]]
                 /\ \/ ifaces[i] = NoRow /\ ~Has(target[r], a)
                    \/ UNCHANGED ifaces
                 /\ report' = [report EXCEPT ![r].addrs = @ \ {a}]
                 /\ UNCHANGED <<lock, at, target, other, known, moves, shifts, remap>>
<1>1. /\ at[r] = "iface" /\ target[r] \in Host
      /\ UNCHANGED <<hosts, services, daemons>>
  BY DEF CreateIface, LocalsSet
<1>2. \A a \in report[r].addrs : a \in Addr
  BY <1>1 DEF LocalsSet, Report
<1>3. SUFFICES ASSUME ~(Done(r) /\ UNCHANGED ifaces)
               PROVE  \E a \in report[r].addrs, i \in Iface :
                        /\ a \in Addr /\ target[r] \in hosts
                        /\ ifaces' = [ifaces EXCEPT ![i] = [host |-> target[r], addr |-> a]]
                        /\ \/ ifaces[i] = NoRow /\ ~Has(target[r], a)
                           \/ UNCHANGED ifaces
                        /\ report' = [report EXCEPT ![r].addrs = @ \ {a}]
                        /\ UNCHANGED <<lock, at, target, other, known, moves, shifts, remap>>
  BY <1>1
<1>4. PICK a \in report[r].addrs :
        /\ target[r] \in hosts
        /\ \E i \in (IF At(target[r], a) = {} THEN FirstFree(ifaces) ELSE At(target[r], a)) :
             ifaces' = [ifaces EXCEPT ![i] = [host |-> target[r], addr |-> a]]
        /\ report' = [report EXCEPT ![r].addrs = @ \ {a}]
        /\ UNCHANGED <<lock, at, target, other, known, moves, shifts, remap>>
  BY <1>3 DEF CreateIface
<1>5. PICK i \in (IF At(target[r], a) = {} THEN FirstFree(ifaces) ELSE At(target[r], a)) :
             ifaces' = [ifaces EXCEPT ![i] = [host |-> target[r], addr |-> a]]
  BY <1>4
<1>6. i \in Iface
  BY FirstFreeIsFree DEF At, IfacesOf, HostsTypeOK
<1>7. CASE At(target[r], a) = {}
  <2>1. ifaces[i] = NoRow
    BY <1>7, FirstFreeIsFree
  <2>2. ~Has(target[r], a)
    BY <1>7 DEF At, IfacesOf, Has
  <2>3. QED
    BY <1>2, <1>4, <1>5, <1>6, <2>1, <2>2
<1>8. CASE At(target[r], a) # {}
  <2>1. ifaces[i] \in IfaceRow /\ ifaces[i].host = target[r] /\ ifaces[i].addr = a
    BY <1>6, <1>8 DEF At, IfacesOf, HostsTypeOK
  <2>2. ifaces[i] = [host |-> target[r], addr |-> a]
    BY <2>1 DEF IfaceRow
  <2>3. UNCHANGED ifaces
    BY <1>5, <1>6, <2>2 DEF HostsTypeOK
  <2>4. QED
    BY <1>2, <1>4, <1>5, <1>6, <2>3
<1>9. QED
  BY <1>7, <1>8

(* A consolidation fails, maps an interface or moves it. *)
LEMMA MoveIfaceCases ==
  ASSUME HostsTypeOK, LocalsSet, NEW r \in Request, MoveIface(r)
  PROVE  /\ at[r] = "iface moves" /\ target[r] \in Host /\ other[r] \in Host
         /\ target[r] # other[r]
         /\ UNCHANGED <<hosts, services, daemons>>
         /\ \/ Done(r) /\ UNCHANGED ifaces
            \/ \E m \in moves[r] :
                 /\ m[1] \in Iface /\ m[2] \in Addr
                 /\ \/ Twins(m[2], known[r]) # {} /\ UNCHANGED ifaces
                    \/ /\ Twins(m[2], known[r]) = {}
                       /\ ifaces[m[1]] # NoRow /\ target[r] \in hosts
                       /\ ifaces' = [ifaces EXCEPT ![m[1]] =
                                        [host |-> target[r], addr |-> ifaces[m[1]].addr]]
                 /\ moves' = [moves EXCEPT ![r] = @ \ {m}]
                 /\ UNCHANGED <<at, target, other, report, known>>
<1>1. /\ at[r] = "iface moves" /\ target[r] \in Host /\ other[r] \in Host
      /\ target[r] # other[r]
      /\ UNCHANGED <<hosts, services, daemons>>
  BY DEF MoveIface, LocalsSet
<1>2. ASSUME ~(Done(r) /\ UNCHANGED ifaces)
      PROVE  \E m \in moves[r] :
                 /\ \/ Twins(m[2], known[r]) # {} /\ UNCHANGED ifaces
                    \/ /\ Twins(m[2], known[r]) = {}
                       /\ ifaces[m[1]] # NoRow /\ target[r] \in hosts
                       /\ ifaces' = [ifaces EXCEPT ![m[1]].host = target[r]]
                 /\ moves' = [moves EXCEPT ![r] = @ \ {m}]
                 /\ UNCHANGED <<at, target, other, report, known>>
  BY <1>2 DEF MoveIface
<1>3. \A m \in moves[r] : m[1] \in Iface /\ m[2] \in Addr
  BY ReadTypes
<1>4. ASSUME NEW i \in Iface, ifaces[i] # NoRow
      PROVE  [ifaces EXCEPT ![i].host = target[r]]
               = [ifaces EXCEPT ![i] = [host |-> target[r], addr |-> ifaces[i].addr]]
  <2>1. ifaces[i] \in IfaceRow
    BY <1>4 DEF HostsTypeOK
  <2>2. [ifaces[i] EXCEPT !.host = target[r]] = [host |-> target[r], addr |-> ifaces[i].addr]
    BY <2>1 DEF IfaceRow
  <2>3. QED
    BY <2>2
<1>5. QED
  BY <1>1, <1>2, <1>3, <1>4

-----------------------------------------------------------------------------
(* The invariant, for one request at a time *)

(* What refers to requests in progress. *)
InProgress == ReportsMatch /\ ReadStays /\ OtherIsCovered

LEMMA HostsInit == Init => HostsInv
  BY TypeInit DEF Init, HostsInv, RowsHaveHosts, DaemonsHosted, AddressesDiffer,
     ReportsMatch, ReadStays, OtherIsCovered

(* When the request is over, little is left to show. *)
LEMMA DoneKeeps ==
  ASSUME OneRequest, HostsInv, NEW r \in Request, Done(r), daemons' \subseteq hosts'
  PROVE  DaemonsHosted' /\ InProgress'
<1>1. \A q \in Request : at'[q] = "idle"
  BY DEF Done, OneRequest, HostsInv, HostsTypeOK
<1>2. QED
  BY <1>1 DEF DaemonsHosted, InProgress, ReportsMatch, ReadStays, OtherIsCovered

(* And the same while it is doing something else. *)
LEMMA ElsewhereKeeps ==
  ASSUME OneRequest, NEW r \in Request,
         at'[r] \notin {"create", "iface", "iface moves", "service moves", "delete"}
  PROVE  InProgress'
  BY DEF OneRequest, InProgress, ReportsMatch, ReadStays, OtherIsCovered

LEMMA SameRows ==
  ASSUME HostsInv, UNCHANGED <<ifaces, services>>, hosts \subseteq hosts'
  PROVE  RowsHaveHosts' /\ AddressesDiffer'
  BY DEF HostsInv, RowsHaveHosts, AddressesDiffer

LEMMA ArriveKeeps ==
  ASSUME OneRequest, HostsInv, NEW r \in Request, Arrive(r)
  PROVE  HostsInv'
<1>1. HostsTypeOK' /\ LocalsSet'
  BY ArriveTypes DEF HostsInv
<1>2. ASSUME NEW h \in Host, NEW as \in (SUBSET Addr) \ {{}}, NEW def \in Definition,
             NEW discovered \in BOOLEAN, Submit(r, h, as, def, discovered)
      PROVE  RowsHaveHosts' /\ AddressesDiffer' /\ DaemonsHosted' /\ InProgress'
  <2>1. RowsHaveHosts' /\ AddressesDiffer'
    BY <1>2, SameRows DEF Submit, rows
  <2>2. /\ at' = [at EXCEPT ![r] = "create"]
        /\ at'[r] = "create"
        /\ UNCHANGED rows
        /\ report'[r].addrs = as /\ report'[r].discovered = discovered
    BY <1>2 DEF Submit, HostsInv, HostsTypeOK
  <2>3. DaemonsHosted'
    BY <1>2, <2>2 DEF OneRequest, HostsInv, DaemonsHosted, rows
  <2>4. ReadStays' /\ OtherIsCovered'
    BY <2>2 DEF OneRequest, ReadStays, OtherIsCovered
  <2>5. ReportsMatch'
    <3>1. \A g \in Host, a \in Addr : Has(g, a) => g \in hosts /\ At(g, a) # {}
      BY DEF HostsInv, RowsHaveHosts, Has, At, IfacesOf
    <3>2. CASE MatchingHosts(as) = {}
      <4>1. \A g \in Host, a \in as : ~Has(g, a)
        BY <3>1, <3>2 DEF MatchingHosts
      <4>2. \A g \in Host, a \in as : ~Has(g, a)'
        BY <2>2, <4>1 DEF Has, rows
      <4>3. QED
        BY <2>2, <4>2 DEF ReportsMatch, OneRequest
    <3>3. CASE MatchingHosts(as) # {}
      <4>1. discovered /\ target'[r] \in MatchingHosts(as)
        BY <1>2, <3>3 DEF Submit, HostsInv, HostsTypeOK
      <4>2. \E a \in Addr : Has(target'[r], a)
        BY <4>1 DEF MatchingHosts, At, IfacesOf, Has
      <4>3. \E a \in Addr : Has(target[r], a)'
        BY <2>2, <4>2 DEF Has, rows
      <4>4. QED
        BY <2>2, <4>1, <4>3 DEF ReportsMatch, OneRequest
    <3>4. QED
      BY <3>2, <3>3
  <2>6. QED
    BY <2>1, <2>3, <2>4, <2>5 DEF InProgress
<1>3. ASSUME NEW h \in Host, Register(r, h)
      PROVE  RowsHaveHosts' /\ AddressesDiffer' /\ DaemonsHosted' /\ InProgress'
  <2>1. RowsHaveHosts' /\ AddressesDiffer'
    BY <1>3, SameRows DEF Register
  <2>2. at'[r] = "daemon" /\ target'[r] = h
    BY <1>3 DEF Register, HostsInv, HostsTypeOK
  <2>3. DaemonsHosted'
    BY <1>3, <2>2 DEF Register, OneRequest, HostsInv, DaemonsHosted
  <2>4. QED
    BY <2>1, <2>2, <2>3, ElsewhereKeeps
<1>4. ASSUME NEW d \in Host, NEW o \in Host, Consolidate(r, d, o)
      PROVE  RowsHaveHosts' /\ AddressesDiffer' /\ DaemonsHosted' /\ InProgress'
  <2>1. RowsHaveHosts' /\ AddressesDiffer'
    BY <1>4, SameRows DEF Consolidate, rows
  <2>2. at'[r] = "lock"
    BY <1>4 DEF Consolidate, HostsInv, HostsTypeOK
  <2>3. DaemonsHosted'
    BY <1>4, <2>2 DEF Consolidate, OneRequest, HostsInv, DaemonsHosted, rows
  <2>4. QED
    BY <2>1, <2>2, <2>3, ElsewhereKeeps
<1>5. ASSUME NEW h \in Host, CheckDelete(r, h)
      PROVE  RowsHaveHosts' /\ AddressesDiffer' /\ DaemonsHosted' /\ InProgress'
  <2>1. RowsHaveHosts' /\ AddressesDiffer'
    BY <1>5, SameRows DEF CheckDelete, rows
  <2>2. at'[r] = "drop" /\ other'[r] = h
    BY <1>5 DEF CheckDelete, HostsInv, HostsTypeOK
  <2>3. DaemonsHosted'
    BY <1>5, <2>2 DEF CheckDelete, Deletable, OneRequest, HostsInv, DaemonsHosted, rows
  <2>4. QED
    BY <2>1, <2>2, <2>3, ElsewhereKeeps
<1>6. QED
  BY <1>1, <1>2, <1>3, <1>4, <1>5 DEF Arrive, HostsInv, InProgress

(* A row that is written has a host; the host of a new one had none there. *)
LEMMA ReportKeeps ==
  ASSUME OneRequest, HostsInv, NEW r \in Request,
         CreateHost(r) \/ CreateIface(r) \/ CreateService(r) \/ CreateDaemon(r)
  PROVE  HostsInv'
<1>1. HostsTypeOK' /\ LocalsSet'
  BY ReportTypes DEF HostsInv
<1>2. CASE CreateHost(r)
  <2>1. RowsHaveHosts' /\ AddressesDiffer'
    BY <1>2, SameRows DEF CreateHost
  <2>2. /\ at[r] = "create" /\ at'[r] = "iface"
        /\ UNCHANGED <<ifaces, daemons, target, report>> /\ hosts \subseteq hosts'
    BY <1>2 DEF CreateHost, HostsInv, HostsTypeOK
  <2>3. DaemonsHosted' /\ ReadStays' /\ OtherIsCovered'
    <3>1. \A q \in Request : at'[q] = "iface"
      BY <2>2 DEF OneRequest
    <3>2. DaemonsHosted'
      BY <2>2, <3>1 DEF HostsInv, DaemonsHosted
    <3>3. ReadStays'
      BY <3>1 DEF ReadStays
    <3>4. OtherIsCovered'
      BY <3>1 DEF OtherIsCovered
    <3>5. QED
      BY <3>2, <3>3, <3>4
  <2>4. ReportsMatch'
    BY <2>2 DEF OneRequest, HostsInv, ReportsMatch, Has
  <2>5. QED
    BY <1>1, <2>1, <2>3, <2>4 DEF HostsInv
<1>3. CASE CreateIface(r)
  <2>1. /\ at[r] = "iface" /\ target[r] \in Host
        /\ UNCHANGED <<hosts, services, daemons>>
    BY <1>3, CreateIfaceCases DEF HostsInv
  <2>2. CASE Done(r) /\ UNCHANGED ifaces
    BY <1>1, <2>1, <2>2, SameRows, DoneKeeps DEF HostsInv, InProgress, DaemonsHosted
  <2>3. CASE ~(Done(r) /\ UNCHANGED ifaces)
    <3>1. PICK a \in report[r].addrs, i \in Iface :
            /\ a \in Addr /\ target[r] \in hosts
            /\ ifaces' = [ifaces EXCEPT ![i] = [host |-> target[r], addr |-> a]]
            /\ \/ ifaces[i] = NoRow /\ ~Has(target[r], a)
               \/ UNCHANGED ifaces
            /\ report' = [report EXCEPT ![r].addrs = @ \ {a}]
            /\ UNCHANGED <<lock, at, target, other, known, moves, shifts, remap>>
      BY <1>3, <2>3, CreateIfaceCases DEF HostsInv
    <3>2. /\ DOMAIN ifaces = Iface
          /\ ifaces'[i] = [host |-> target[r], addr |-> a] /\ ifaces'[i] # NoRow
          /\ \A j \in Iface \ {i} : ifaces'[j] = ifaces[j]
      <4>1. ifaces \in [Iface -> IfaceRow \cup {NoRow}]
        BY DEF HostsInv, HostsTypeOK
      <4>2. [host |-> target[r], addr |-> a] # NoRow
        BY <2>1, <3>1, Ids
      <4>3. QED
        BY <3>1, <4>1, <4>2
    <3>3. RowsHaveHosts'
      BY <2>1, <3>1, <3>2 DEF HostsInv, RowsHaveHosts
    <3>4. AddressesDiffer'
      BY <3>1, <3>2 DEF HostsInv, AddressesDiffer, Has
    <3>5. DaemonsHosted' /\ ReadStays' /\ OtherIsCovered'
      BY <2>1, <3>1 DEF OneRequest, HostsInv, DaemonsHosted, ReadStays, OtherIsCovered
    <3>6. ReportsMatch'
      <4>1. report'[r].addrs \subseteq report[r].addrs /\ report'[r].discovered = report[r].discovered
        <5>1. report[r] \in Report
          BY <2>1 DEF HostsInv, LocalsSet
        <5>2. report'[r] = [report[r] EXCEPT !.addrs = @ \ {a}]
          BY <3>1 DEF HostsInv, HostsTypeOK
        <5>3. QED
          BY <5>1, <5>2 DEF Report
      <4>2. \A b \in Addr : Has(target[r], b) => Has(target[r], b)'
        BY <3>1, <3>2 DEF Has
      <4>3. \A g \in Host \ {target[r]}, b \in Addr : Has(g, b)' => Has(g, b)
        BY <3>1, <3>2 DEF Has
      <4>4. report[r].addrs \subseteq Addr
        BY <2>1 DEF HostsInv, LocalsSet, Report
      <4>5. CASE report[r].discovered /\ \E b \in Addr : Has(target[r], b)
        <5>1. report'[r].discovered /\ \E b \in Addr : Has(target[r], b)'
          BY <4>1, <4>2, <4>5
        <5>2. QED
          BY <5>1 DEF ReportsMatch, OneRequest
      <4>6. CASE \A g \in Host \ {target[r]}, b \in report[r].addrs : ~Has(g, b)
        <5>1. \A g \in Host \ {target[r]}, b \in report'[r].addrs : ~Has(g, b)'
          BY <4>1, <4>3, <4>4, <4>6
        <5>2. QED
          BY <3>1, <5>1 DEF ReportsMatch, OneRequest
      <4>7. QED
        BY <2>1, <4>5, <4>6 DEF HostsInv, ReportsMatch
    <3>7. QED
      BY <1>1, <3>3, <3>4, <3>5, <3>6 DEF HostsInv
  <2>4. QED
    BY <2>2, <2>3
<1>4. CASE CreateService(r)
  <2>1. /\ target[r] \in Host
        /\ Done(r) /\ UNCHANGED <<hosts, ifaces, daemons>>
    BY <1>4 DEF CreateService, HostsInv, LocalsSet
  <2>2. \/ UNCHANGED services
        \/ /\ target[r] \in hosts
           /\ \E s, bs : services' = [services EXCEPT ![s] =
                 [host |-> target[r], def |-> report[r].def, ifaces |-> bs]]
    BY <1>4 DEF CreateService
  <2>3. RowsHaveHosts' /\ AddressesDiffer'
    <3>1. services \in [Service -> ServiceRow \cup {NoRow}]
      BY DEF HostsInv, HostsTypeOK
    <3>2. \A s \in Service : \/ services'[s] = services[s]
                             \/ target[r] \in hosts /\ services'[s].host = target[r]
      BY <2>2, <3>1
    <3>3. QED
      BY <2>1, <3>2 DEF HostsInv, RowsHaveHosts, AddressesDiffer
  <2>4. QED
    BY <1>1, <2>1, <2>3, DoneKeeps DEF HostsInv, InProgress, DaemonsHosted
<1>5. CASE CreateDaemon(r)
  <2>1. target[r] \in hosts
    BY <1>5 DEF CreateDaemon, HostsInv, DaemonsHosted
  <2>2. /\ Done(r) /\ UNCHANGED <<hosts, ifaces, services>>
        /\ daemons' \subseteq hosts'
    BY <1>5, <2>1 DEF CreateDaemon, HostsInv, DaemonsHosted
  <2>3. QED
    BY <1>1, <2>2, SameRows, DoneKeeps DEF HostsInv, InProgress
<1>6. QED
  BY <1>2, <1>3, <1>4, <1>5

(* A host's row goes with its interfaces and services. *)
LEMMA DeletionKeeps ==
  ASSUME OneRequest, HostsInv, NEW r \in Request,
         CheckOther(r) \/ DeleteOther(r) \/ Drop(r) \/ Crash(r)
  PROVE  HostsInv'
<1>1. HostsTypeOK' /\ LocalsSet'
  BY DeletionTypes DEF HostsInv
<1>2. CASE CheckOther(r)
  <2>1. /\ UNCHANGED rows
        /\ at[r] = "service moves"
        /\ \/ Done(r)
           \/ /\ at' = [at EXCEPT ![r] = "delete"]
              /\ Deletable(other[r])
              /\ UNCHANGED <<target, other, report, known, moves>>
    BY <1>2 DEF CheckOther
  <2>2. RowsHaveHosts' /\ AddressesDiffer'
    BY <2>1, SameRows DEF rows
  <2>3. CASE Done(r)
    BY <1>1, <2>1, <2>2, <2>3, DoneKeeps DEF HostsInv, InProgress, DaemonsHosted, rows
  <2>4. CASE ~Done(r)
    <3>1. at'[r] = "delete" /\ other[r] \notin daemons
      BY <2>1, <2>4 DEF HostsInv, HostsTypeOK, Deletable
    <3>2. DaemonsHosted' /\ ReportsMatch' /\ ReadStays'
      BY <2>1, <2>4, <3>1
         DEF OneRequest, HostsInv, DaemonsHosted, ReportsMatch, ReadStays, rows
    <3>3. OtherIsCovered'
      <4>1. \A h, a : Has(h, a)' <=> Has(h, a)
        BY <2>1 DEF Has, rows
      <4>2. \A a \in Addr : Has(other[r], a) => Has(target[r], a)
        BY <2>1 DEF HostsInv, OtherIsCovered
      <4>3. \A a \in Addr : Has(other[r], a)' => Has(target[r], a)'
        BY <2>1, <2>4, <4>1, <4>2
      <4>4. QED
        BY <3>1, <4>3 DEF OneRequest, OtherIsCovered
    <3>4. QED
      BY <1>1, <2>2, <3>2, <3>3 DEF HostsInv
  <2>5. QED
    BY <2>3, <2>4
<1>3. CASE DeleteOther(r) \/ Drop(r)
  <2>1. /\ other[r] \in Host /\ Cascade(other[r]) /\ Done(r)
        /\ other[r] \notin daemons
    BY <1>3 DEF DeleteOther, Drop, HostsInv, LocalsSet, DaemonsHosted
  <2>2. RowsHaveHosts'
    BY <2>1, CascadeRows DEF HostsInv, RowsHaveHosts
  <2>3. AddressesDiffer'
    BY <2>1, CascadeRows DEF HostsInv, AddressesDiffer
  <2>4. daemons' \subseteq hosts'
    BY <2>1 DEF Cascade, HostsInv, DaemonsHosted
  <2>5. QED
    BY <1>1, <2>1, <2>2, <2>3, <2>4, DoneKeeps DEF HostsInv, InProgress
<1>4. CASE Crash(r)
  BY <1>1, <1>4, SameRows, DoneKeeps DEF Crash, HostsInv, InProgress, DaemonsHosted, rows
<1>5. QED
  BY <1>2, <1>3, <1>4

LEMMA MoveIfaceKeeps ==
  ASSUME OneRequest, HostsInv, NEW r \in Request, MoveIface(r)
  PROVE  HostsInv'
<1>1. HostsTypeOK' /\ LocalsSet'
  BY ConsolidationTypes DEF HostsInv
<1>2. /\ at[r] = "iface moves" /\ target[r] \in Host /\ other[r] \in Host
      /\ target[r] # other[r]
      /\ UNCHANGED <<hosts, services, daemons>>
  BY MoveIfaceCases DEF HostsInv
<1>3. CASE Done(r) /\ UNCHANGED ifaces
  BY <1>1, <1>2, <1>3, SameRows, DoneKeeps DEF HostsInv, InProgress, DaemonsHosted
<1>4. CASE ~(Done(r) /\ UNCHANGED ifaces)
  <2>1. PICK m \in moves[r] :
          /\ m[1] \in Iface /\ m[2] \in Addr
          /\ \/ Twins(m[2], known[r]) # {} /\ UNCHANGED ifaces
             \/ /\ Twins(m[2], known[r]) = {}
                /\ ifaces[m[1]] # NoRow /\ target[r] \in hosts
                /\ ifaces' = [ifaces EXCEPT ![m[1]] =
                                 [host |-> target[r], addr |-> ifaces[m[1]].addr]]
          /\ moves' = [moves EXCEPT ![r] = @ \ {m}]
          /\ UNCHANGED <<at, target, other, report, known>>
    BY <1>4, MoveIfaceCases DEF HostsInv
  <2>2. DaemonsHosted' /\ ReportsMatch'
    BY <1>2, <2>1 DEF OneRequest, HostsInv, DaemonsHosted, ReportsMatch
  <2>3. \A x \in known[r] : /\ x[1] \in Iface /\ ifaces[x[1]] # NoRow
                            /\ ifaces[x[1]].host = target[r]
                            /\ ifaces[x[1]].addr = x[2]
    BY <1>2, ReadTypes DEF HostsInv, ReadStays
  <2>4. \A n \in moves[r] : /\ n[1] \in Iface /\ n[2] \in Addr
                            /\ ifaces[n[1]] # NoRow
                            /\ ifaces[n[1]].host = other[r]
                            /\ ifaces[n[1]].addr = n[2]
    BY <1>2, ReadTypes DEF HostsInv, ReadStays
  <2>5. \A n \in moves[r] : Has(target[r], n[2]) => Twins(n[2], known[r]) # {}
    BY <1>2 DEF HostsInv, ReadStays
  <2>6. /\ moves'[r] = moves[r] \ {m}
        /\ \A n \in moves[r] : n[1] = m[1] /\ n[2] = m[2] => n = m
    <3>1. moves \in [Request -> SUBSET (Iface \X Addr)]
      BY DEF HostsInv, HostsTypeOK
    <3>2. QED
      BY <2>1, <3>1
  <2>7. \A i \in Iface : ifaces[i] # NoRow /\ ifaces[i].host = other[r] =>
                   <<i, ifaces[i].addr>> \in moves[r] \/ Has(target[r], ifaces[i].addr)
    BY <1>2 DEF HostsInv, OtherIsCovered
  <2>8. CASE Twins(m[2], known[r]) # {} /\ UNCHANGED ifaces
    <3>1. RowsHaveHosts' /\ AddressesDiffer'
      BY <1>2, <2>8, SameRows
    <3>2. \A h, a : Has(h, a)' <=> Has(h, a)
      BY <2>8 DEF Has
    <3>3. ReadStays'
      <4>1. \A x \in known'[r] : /\ ifaces'[x[1]] # NoRow
                                 /\ ifaces'[x[1]].host = target'[r]
                                 /\ ifaces'[x[1]].addr = x[2]
        BY <2>1, <2>3, <2>8
      <4>2. \A n \in moves'[r] : /\ ifaces'[n[1]] # NoRow
                                 /\ ifaces'[n[1]].host = other'[r]
                                 /\ ifaces'[n[1]].addr = n[2]
        BY <2>1, <2>4, <2>6, <2>8
      <4>3. \A n \in moves'[r] : Has(target[r], n[2])' => Twins(n[2], known'[r]) # {}
        BY <2>1, <2>5, <2>6, <3>2
      <4>4. QED
        BY <4>1, <4>2, <4>3 DEF OneRequest, ReadStays
    <3>4. Has(target[r], m[2])
      BY <2>3, <2>8 DEF Twins, Has
    <3>5. OtherIsCovered'
      <4>1. ASSUME NEW i \in Iface, ifaces[i] # NoRow, ifaces[i].host = other[r]
            PROVE  <<i, ifaces[i].addr>> \in moves'[r] \/ Has(target[r], ifaces[i].addr)
        <5>1. CASE <<i, ifaces[i].addr>> = m
          BY <3>4, <5>1
        <5>2. CASE <<i, ifaces[i].addr>> # m
          BY <2>6, <2>7, <4>1, <5>2
        <5>3. QED
          BY <5>1, <5>2
      <4>2. QED
        BY <1>2, <2>1, <2>8, <3>2, <4>1 DEF OneRequest, OtherIsCovered
    <3>6. QED
      BY <1>1, <2>2, <3>1, <3>3, <3>5 DEF HostsInv
  <2>9. CASE Twins(m[2], known[r]) = {}
    <3> DEFINE i0 == m[1]
               a0 == m[2]
    <3>1. i0 \in Iface /\ a0 \in Addr /\ ifaces[i0] # NoRow
          /\ ifaces[i0].host = other[r] /\ ifaces[i0].addr = a0
      BY <2>4
    <3>2. target[r] \in hosts
          /\ ifaces' = [ifaces EXCEPT ![i0] = [host |-> target[r], addr |-> a0]]
      BY <2>1, <2>9, <3>1
    <3>3. ~Has(target[r], a0)
      BY <2>5, <2>9
    <3>4. \A n \in moves'[r] : n \in moves[r] /\ n[1] # i0
      BY <2>4, <2>6, <3>1
    <3>5. \A n \in moves'[r] : n[2] # a0
      <4>1. ASSUME NEW n \in moves'[r], n[2] = a0 PROVE FALSE
        <5>1. /\ n[1] \in Iface /\ ifaces[n[1]] # NoRow /\ n[1] # i0
              /\ ifaces[n[1]].host = other[r] /\ ifaces[n[1]].addr = a0
          BY <2>4, <3>4, <4>1
        <5>2. QED
          BY <3>1, <5>1 DEF HostsInv, AddressesDiffer
      <4>2. QED
        BY <4>1
    <3>6. \A x \in known[r] : x[1] # i0
      BY <1>2, <2>3, <3>1
    <3> HIDE DEF i0, a0
    <3>7. /\ ifaces'[i0] # NoRow /\ ifaces'[i0].host = target[r] /\ ifaces'[i0].addr = a0
          /\ \A i \in Iface \ {i0} : ifaces'[i] = ifaces[i]
      <4>1. ifaces \in [Iface -> IfaceRow \cup {NoRow}]
        BY DEF HostsInv, HostsTypeOK
      <4>2. [host |-> target[r], addr |-> a0] # NoRow
        BY <1>2, <3>1, Ids
      <4>3. QED
        BY <3>1, <3>2, <4>1, <4>2
    <3>8. RowsHaveHosts'
      <4>1. \A i \in Iface : ifaces[i] # NoRow => ifaces[i].host \in hosts
        BY DEF HostsInv, RowsHaveHosts
      <4>2. \A i \in Iface : ifaces'[i] # NoRow => ifaces'[i].host \in hosts
        BY <3>2, <3>7, <4>1
      <4>3. QED
        BY <1>2, <4>2 DEF HostsInv, RowsHaveHosts
    <3>9. AddressesDiffer'
      <4>1. ASSUME NEW i \in Iface \ {i0}, ifaces'[i] # NoRow,
                   ifaces'[i].host = target[r], ifaces'[i].addr = a0
            PROVE  FALSE
        BY <3>3, <3>7, <4>1 DEF Has
      <4>2. QED
        BY <3>1, <3>7, <4>1 DEF HostsInv, AddressesDiffer
    <3>10. \A a \in Addr : Has(target[r], a)' <=> Has(target[r], a) \/ a = a0
      <4>1. ASSUME NEW a, Has(target[r], a) PROVE \E i \in Iface :
                ifaces'[i] # NoRow /\ ifaces'[i].host = target[r] /\ ifaces'[i].addr = a
        BY <1>2, <3>1, <3>7, <4>1 DEF Has
      <4>2. ASSUME NEW a, a # a0, NEW i \in Iface,
                   ifaces'[i] # NoRow, ifaces'[i].host = target[r], ifaces'[i].addr = a
            PROVE  Has(target[r], a)
        BY <3>7, <4>2 DEF Has
      <4>3. QED
        BY <2>1, <3>1, <3>7, <4>1, <4>2 DEF Has
    <3>11. ReadStays'
      <4>1. \A x \in known'[r] : /\ ifaces'[x[1]] # NoRow
                                 /\ ifaces'[x[1]].host = target'[r]
                                 /\ ifaces'[x[1]].addr = x[2]
        BY <2>1, <2>3, <3>6, <3>7
      <4>2. \A n \in moves'[r] : /\ ifaces'[n[1]] # NoRow
                                 /\ ifaces'[n[1]].host = other'[r]
                                 /\ ifaces'[n[1]].addr = n[2]
        BY <2>1, <2>4, <3>4, <3>7
      <4>3. \A n \in moves'[r] : Has(target[r], n[2])' => Twins(n[2], known'[r]) # {}
        <5>1. ASSUME NEW n \in moves'[r], Has(target[r], n[2])'
              PROVE  Twins(n[2], known'[r]) # {}
          <6>1. n \in moves[r] /\ n[2] \in Addr /\ n[2] # a0
            BY <2>4, <3>4, <3>5
          <6>2. Has(target[r], n[2])
            BY <3>10, <5>1, <6>1
          <6>3. QED
            BY <2>1, <2>5, <6>1, <6>2
        <5>2. QED
          BY <5>1
      <4>4. QED
        BY <4>1, <4>2, <4>3 DEF OneRequest, ReadStays
    <3>12. OtherIsCovered'
      <4>1. ASSUME NEW i \in Iface, ifaces'[i] # NoRow, ifaces'[i].host = other[r]
            PROVE  <<i, ifaces'[i].addr>> \in moves'[r] \/ Has(target[r], ifaces[i].addr)'
        <5>1. i # i0 /\ ifaces'[i] = ifaces[i]
          BY <1>2, <3>7, <4>1
        <5>2. <<i, ifaces[i].addr>> # m
          BY <5>1 DEF i0
        <5>3. CASE <<i, ifaces[i].addr>> \in moves[r]
          BY <2>6, <5>1, <5>2, <5>3
        <5>4. CASE Has(target[r], ifaces[i].addr)
          <6>1. ifaces[i].addr \in Addr
            BY <4>1, <5>1, Ids DEF HostsInv, HostsTypeOK
          <6>2. Has(target[r], ifaces[i].addr)'
            BY <2>1, <3>10, <5>1, <5>4, <6>1
          <6>3. QED
            BY <6>2
        <5>5. QED
          BY <2>7, <4>1, <5>1, <5>3, <5>4
      <4>2. QED
        BY <1>2, <2>1, <4>1 DEF OneRequest, OtherIsCovered
    <3>13. QED
      BY <1>1, <2>2, <3>8, <3>9, <3>11, <3>12 DEF HostsInv
  <2>10. QED
    BY <2>1, <2>8, <2>9
<1>5. QED
  BY <1>3, <1>4

LEMMA ConsolidationKeeps ==
  ASSUME OneRequest, HostsInv, NEW r \in Request,
         LockDestination(r) \/ ReadIfaces(r) \/ ReadServices(r) \/ MoveService(r)
  PROVE  HostsInv'
<1>1. HostsTypeOK' /\ LocalsSet'
  BY ConsolidationTypes DEF HostsInv
<1>2. CASE LockDestination(r)
  <2>1. RowsHaveHosts' /\ AddressesDiffer'
    BY <1>2, SameRows DEF LockDestination, rows
  <2>2. at'[r] = "read" /\ UNCHANGED rows
    BY <1>2 DEF LockDestination, HostsInv, HostsTypeOK
  <2>3. DaemonsHosted'
    BY <2>2 DEF OneRequest, HostsInv, DaemonsHosted, rows
  <2>4. InProgress'
    BY <2>2, ElsewhereKeeps
  <2>5. QED
    BY <1>1, <2>1, <2>3, <2>4 DEF HostsInv, InProgress
<1>3. CASE ReadIfaces(r)
  <2>1. RowsHaveHosts' /\ AddressesDiffer'
    BY <1>3, SameRows DEF ReadIfaces, rows
  <2>2. /\ at'[r] = "iface moves"
        /\ UNCHANGED <<hosts, ifaces, services, daemons, target, other>>
        /\ known'[r] = Seen(target[r]) /\ moves'[r] = Seen(other[r])
    BY <1>3 DEF ReadIfaces, HostsInv, HostsTypeOK, rows
  <2>3. DaemonsHosted' /\ ReportsMatch'
    BY <2>2 DEF OneRequest, HostsInv, DaemonsHosted, ReportsMatch
  <2>4. \A h : \A x \in Seen(h) : /\ ifaces[x[1]] # NoRow
                                  /\ ifaces[x[1]].host = h
                                  /\ ifaces[x[1]].addr = x[2]
    BY DEF Seen, IfacesOf
  <2>5. \A i \in Iface : ifaces[i] # NoRow => <<i, ifaces[i].addr>> \in Seen(ifaces[i].host)
    BY DEF Seen, IfacesOf
  <2>6. \A h, a : Has(h, a) => Twins(a, Seen(h)) # {}
    <3>1. ASSUME NEW h, NEW a, Has(h, a) PROVE Twins(a, Seen(h)) # {}
      <4>1. PICK i \in Iface : ifaces[i] # NoRow /\ ifaces[i].host = h /\ ifaces[i].addr = a
        BY <3>1 DEF Has
      <4>2. <<i, a>> \in Seen(h)
        BY <2>5, <4>1
      <4>3. i \in Twins(a, Seen(h))
        BY <4>2 DEF Twins
      <4>4. QED
        BY <4>3
    <3>2. QED
      BY <3>1
  <2>7. ReadStays'
    <3>1. ASSUME NEW x \in known'[r]
          PROVE  /\ ifaces'[x[1]] # NoRow
                 /\ ifaces'[x[1]].host = target'[r]
                 /\ ifaces'[x[1]].addr = x[2]
      <4>1. x \in Seen(target[r])
        BY <2>2
      <4>2. ifaces[x[1]] # NoRow /\ ifaces[x[1]].host = target[r] /\ ifaces[x[1]].addr = x[2]
        BY <2>4, <4>1
      <4>3. QED
        BY <2>2, <4>2
    <3>2. ASSUME NEW n \in moves'[r]
          PROVE  /\ ifaces'[n[1]] # NoRow
                 /\ ifaces'[n[1]].host = other'[r]
                 /\ ifaces'[n[1]].addr = n[2]
      <4>1. n \in Seen(other[r])
        BY <2>2
      <4>2. ifaces[n[1]] # NoRow /\ ifaces[n[1]].host = other[r] /\ ifaces[n[1]].addr = n[2]
        BY <2>4, <4>1
      <4>3. QED
        BY <2>2, <4>2
    <3>3. \A h, a : Has(h, a)' <=> Has(h, a)
      BY <2>2 DEF Has
    <3>4. \A n \in moves'[r] : Has(target[r], n[2])' => Twins(n[2], known'[r]) # {}
      BY <2>2, <2>6, <3>3
    <3>5. QED
      BY <3>1, <3>2, <3>4 DEF OneRequest, ReadStays
  <2>8. OtherIsCovered'
    <3>1. \A i \in Iface : ifaces'[i] # NoRow /\ ifaces'[i].host = other'[r] =>
                   <<i, ifaces'[i].addr>> \in moves'[r]
      BY <2>2, <2>5
    <3>2. QED
      BY <2>2, <3>1 DEF OneRequest, OtherIsCovered
  <2>9. QED
    BY <1>1, <2>1, <2>3, <2>7, <2>8 DEF HostsInv
<1>4. CASE ReadServices(r)
  <2>1. RowsHaveHosts' /\ AddressesDiffer'
    BY <1>4, SameRows DEF ReadServices, rows
  <2>2. /\ at[r] = "iface moves" /\ moves[r] = {}
        /\ at'[r] = "service moves" /\ UNCHANGED <<rows, target, other>>
    BY <1>4 DEF ReadServices, HostsInv, HostsTypeOK
  <2>3. DaemonsHosted' /\ ReportsMatch' /\ ReadStays'
    BY <2>2 DEF OneRequest, HostsInv, DaemonsHosted, ReportsMatch, ReadStays, rows
  <2>4. \A a \in Addr : Has(other[r], a) => Has(target[r], a)
    <3>1. ASSUME NEW a \in Addr, Has(other[r], a) PROVE Has(target[r], a)
      <4>1. PICK i \in Iface :
              ifaces[i] # NoRow /\ ifaces[i].host = other[r] /\ ifaces[i].addr = a
        BY <3>1 DEF Has
      <4>2. <<i, ifaces[i].addr>> \in moves[r] \/ Has(target[r], ifaces[i].addr)
        BY <2>2, <4>1 DEF HostsInv, OtherIsCovered
      <4>3. QED
        BY <2>2, <4>1, <4>2
    <3>2. QED
      BY <3>1
  <2>5. \A h, a : Has(h, a)' <=> Has(h, a)
    BY <2>2 DEF Has, rows
  <2>6. OtherIsCovered'
    BY <2>2, <2>4, <2>5 DEF OneRequest, OtherIsCovered
  <2>7. QED
    BY <1>1, <2>1, <2>3, <2>6 DEF HostsInv
<1>5. CASE MoveService(r)
  <2>1. /\ at[r] = "service moves" /\ UNCHANGED <<hosts, ifaces, daemons>>
    BY <1>5 DEF MoveService
  <2>2. AddressesDiffer'
    BY <2>1 DEF HostsInv, AddressesDiffer
  <2>3. CASE Done(r) /\ UNCHANGED services
    BY <1>1, <2>1, <2>3, SameRows, DoneKeeps DEF HostsInv, InProgress, DaemonsHosted
  <2>4. CASE ~(Done(r) /\ UNCHANGED services)
    <3>1. PICK m \in shifts[r] :
            /\ services[m[1]] # NoRow /\ target[r] \in hosts
            /\ services' = [services EXCEPT ![m[1]].host = target[r],
                                            ![m[1]].ifaces = {remap[r][b] : b \in m[2]}]
            /\ UNCHANGED <<lock, at, target, other, report, bound, known, moves, remap>>
      BY <1>5, <2>4 DEF MoveService
    <3>2. RowsHaveHosts'
      <4>1. services \in [Service -> ServiceRow \cup {NoRow}] /\ m[1] \in Service
        BY ReadTypes DEF HostsInv, HostsTypeOK
      <4>2. services[m[1]] \in ServiceRow
        BY <3>1, <4>1
      <4>3. services'[m[1]].host = target[r]
        <5>1. services'[m[1]] = [[services[m[1]] EXCEPT !.host = target[r]]
                                  EXCEPT !.ifaces = {remap[r][b] : b \in m[2]}]
          BY <3>1, <4>1
        <5>2. QED
          BY <4>2, <5>1 DEF ServiceRow
      <4>4. ASSUME NEW s \in Service, s # m[1] PROVE services'[s] = services[s]
        BY <3>1, <4>1, <4>4
      <4>5. \A s \in Service : services[s] # NoRow => services[s].host \in hosts
        BY DEF HostsInv, RowsHaveHosts
      <4>6. ASSUME NEW s \in Service, services'[s] # NoRow PROVE services'[s].host \in hosts
        <5>1. CASE s = m[1]
          BY <3>1, <4>3, <5>1
        <5>2. CASE s # m[1]
          BY <4>4, <4>5, <4>6, <5>2
        <5>3. QED
          BY <5>1, <5>2
      <4>7. QED
        BY <2>1, <4>6 DEF HostsInv, RowsHaveHosts
    <3>3. DaemonsHosted' /\ ReportsMatch' /\ ReadStays'
      BY <2>1, <3>1 DEF OneRequest, HostsInv, DaemonsHosted, ReportsMatch, ReadStays
    <3>4. \A h, a : Has(h, a)' <=> Has(h, a)
      BY <2>1 DEF Has
    <3>5. OtherIsCovered'
      BY <2>1, <3>1, <3>4 DEF OneRequest, HostsInv, OtherIsCovered
    <3>6. QED
      BY <1>1, <2>2, <3>2, <3>3, <3>5 DEF HostsInv
  <2>5. QED
    BY <2>3, <2>4
<1>6. QED
  BY <1>2, <1>3, <1>4, <1>5

LEMMA OtherStepsKeep ==
  ASSUME HostsInv, UNCHANGED vars \/ \E h \in Host : DeleteDaemon(h)
  PROVE  HostsInv'
<1>1. /\ UNCHANGED <<hosts, ifaces, services, lock, request>>
      /\ daemons' \subseteq daemons
  BY DEF vars, rows, DeleteDaemon
<1>2. HostsTypeOK' /\ LocalsSet'
  BY TypeStep DEF HostsInv, Next
<1>3. RowsHaveHosts' /\ AddressesDiffer'
  BY <1>1, SameRows
<1>4. DaemonsHosted'
  BY <1>1 DEF HostsInv, DaemonsHosted, request
<1>5. \A h, a : Has(h, a)' <=> Has(h, a)
  BY <1>1 DEF Has
<1>6. ReportsMatch'
  BY <1>1, <1>5 DEF HostsInv, ReportsMatch, request
<1>7. ReadStays'
  BY <1>1, <1>5 DEF HostsInv, ReadStays, request
<1>8. OtherIsCovered'
  BY <1>1, <1>5 DEF HostsInv, OtherIsCovered, request
<1>9. QED
  BY <1>2, <1>3, <1>4, <1>6, <1>7, <1>8 DEF HostsInv

LEMMA HostsStep ==
  ASSUME OneRequest, HostsInv, [Next]_vars PROVE HostsInv'
  BY ArriveKeeps, ReportKeeps, MoveIfaceKeeps, ConsolidationKeeps, DeletionKeeps,
     OtherStepsKeep DEF Next, Step

(* With one request at a time, HostsInv is an invariant, wherever the      *)
(* server stops.                                                           *)
THEOREM HostsInvariance ==
  ASSUME OneRequest PROVE Spec => []HostsInv
<1>1. HostsInv /\ [Next]_vars => HostsInv'
  BY HostsStep
<1>2. QED
  BY <1>1, HostsInit, PTL DEF Spec

-----------------------------------------------------------------------------
(* Addresses *)

LEMMA AddressesHas ==
    /\ \A h, a : a \in Addresses(h) <=> Has(h, a)
    /\ \A h, a : a \in Addresses(h)' <=> Has(h, a)'
  BY DEF Addresses, IfacesOf, Has

LEMMA IfaceSteps ==
  ASSUME [Next]_vars
  PROVE  \/ UNCHANGED ifaces
         \/ \E r \in Request : CreateIface(r) \/ MoveIface(r) \/ DeleteOther(r) \/ Drop(r)
<1>1. ASSUME NEW r \in Request, Arrive(r) PROVE UNCHANGED ifaces
  BY <1>1 DEF Arrive, Submit, Register, Consolidate, CheckDelete, rows
<1>2. ASSUME NEW r \in Request,
             CreateHost(r) \/ CreateService(r) \/ CreateDaemon(r) \/ Crash(r)
      PROVE  UNCHANGED ifaces
  BY <1>2 DEF CreateHost, CreateService, CreateDaemon, Crash, rows
<1>3. ASSUME NEW r \in Request,
             \/ LockDestination(r) \/ ReadIfaces(r) \/ ReadServices(r)
             \/ MoveService(r) \/ CheckOther(r)
      PROVE  UNCHANGED ifaces
  BY <1>3 DEF LockDestination, ReadIfaces, ReadServices, MoveService, CheckOther, rows
<1>4. ASSUME UNCHANGED vars \/ \E h \in Host : DeleteDaemon(h) PROVE UNCHANGED ifaces
  BY <1>4 DEF DeleteDaemon, vars, rows
<1>5. QED
  BY <1>1, <1>2, <1>3, <1>4 DEF Next, Step

(* What CreateIface and MoveIface add to the addresses of hosts. *)
LEMMA HasCreated ==
  ASSUME HostsInv, NEW r \in Request, CreateIface(r)
  PROVE  /\ target[r] \in Host /\ at[r] = "iface"
         /\ \A h, b : Has(h, b) => Has(h, b)'
         /\ \E a \in report[r].addrs :
               \A h, b : Has(h, b)' => Has(h, b) \/ (h = target[r] /\ b = a)
<1>1. /\ at[r] = "iface" /\ target[r] \in Host
  BY CreateIfaceCases DEF HostsInv
<1>2. PICK a \in report[r].addrs : TRUE
  BY DEF CreateIface
<1>3. CASE UNCHANGED ifaces
  BY <1>1, <1>2, <1>3 DEF Has
<1>4. CASE ~UNCHANGED ifaces
  <2>1. PICK b \in report[r].addrs, i \in Iface :
            /\ ifaces' = [ifaces EXCEPT ![i] = [host |-> target[r], addr |-> b]]
            /\ ifaces[i] = NoRow /\ b \in Addr
    BY <1>4, CreateIfaceCases DEF HostsInv
  <2>2. /\ ifaces'[i].host = target[r] /\ ifaces'[i].addr = b
        /\ \A j \in Iface : j # i => ifaces'[j] = ifaces[j]
    <3>1. ifaces \in [Iface -> IfaceRow \cup {NoRow}]
      BY DEF HostsInv, HostsTypeOK
    <3>2. QED
      BY <2>1, <3>1
  <2>3. QED
    BY <1>1, <2>1, <2>2 DEF Has
<1>5. QED
  BY <1>3, <1>4

LEMMA HasMoved ==
  ASSUME OneRequest, HostsInv, NEW r \in Request, MoveIface(r)
  PROVE  \/ \A h, b : Has(h, b)' <=> Has(h, b)
         \/ \E a \in Addr, t \in Host, o \in Host :
               /\ Has(o, a) /\ ~Has(o, a)' /\ Has(t, a)'
               /\ \A h, b : b # a => (Has(h, b)' <=> Has(h, b))
               /\ \A h : h \notin {t, o} => (Has(h, a)' <=> Has(h, a))
<1>1. CASE UNCHANGED ifaces
  BY <1>1 DEF Has
<1>2. CASE ~UNCHANGED ifaces
  <2>1. PICK m \in moves[r] :
          /\ m[1] \in Iface /\ m[2] \in Addr
          /\ ifaces[m[1]] # NoRow
          /\ ifaces' = [ifaces EXCEPT ![m[1]] =
                           [host |-> target[r], addr |-> ifaces[m[1]].addr]]
    BY <1>2, MoveIfaceCases DEF HostsInv
  <2>2. /\ at[r] = "iface moves" /\ target[r] \in Host /\ other[r] \in Host
        /\ target[r] # other[r]
    BY MoveIfaceCases DEF HostsInv
  <2> DEFINE i == m[1]
             a == m[2]
  <2>3. ifaces[i].host = other[r] /\ ifaces[i].addr = a
    BY <2>2 DEF HostsInv, ReadStays
  <2>4. i \in Iface /\ a \in Addr /\ ifaces[i] # NoRow
        /\ ifaces' = [ifaces EXCEPT ![i] = [host |-> target[r], addr |-> a]]
    BY <2>1, <2>3
  <2> HIDE DEF i, a
  <2>5. /\ ifaces'[i] # NoRow /\ ifaces'[i].host = target[r] /\ ifaces'[i].addr = a
        /\ \A j \in Iface : j # i => ifaces'[j] = ifaces[j]
    <3>1. ifaces \in [Iface -> IfaceRow \cup {NoRow}]
      BY DEF HostsInv, HostsTypeOK
    <3>2. [host |-> target[r], addr |-> a] # NoRow
      BY <2>2, <2>4, Ids
    <3>3. QED
      BY <2>4, <3>1, <3>2
  <2>6. PICK t \in Host, o \in Host : t = target[r] /\ o = other[r]
    BY <2>2
  <2>7. Has(o, a) /\ Has(t, a)'
    BY <2>3, <2>4, <2>5, <2>6 DEF Has
  <2>8. ~Has(o, a)'
    <3>1. ASSUME NEW j \in Iface, ifaces'[j] # NoRow, ifaces'[j].host = other[r],
                 ifaces'[j].addr = a
          PROVE  FALSE
      <4>1. j # i /\ ifaces'[j] = ifaces[j]
        BY <2>2, <2>5, <3>1
      <4>2. QED
        BY <2>3, <2>4, <3>1, <4>1 DEF HostsInv, AddressesDiffer
    <3>2. QED
      BY <2>6, <3>1 DEF Has
  <2>9. \A h, b : b # a => (Has(h, b)' <=> Has(h, b))
    BY <2>3, <2>4, <2>5 DEF Has
  <2>10. \A h : h \notin {t, o} => (Has(h, a)' <=> Has(h, a))
    BY <2>3, <2>4, <2>5, <2>6 DEF Has
  <2>11. QED
    BY <2>4, <2>7, <2>8, <2>9, <2>10
<1>3. QED
  BY <1>1, <1>2

LEMMA HasDeleted ==
  ASSUME HostsInv, NEW r \in Request, DeleteOther(r) \/ Drop(r)
  PROVE  /\ other[r] \in Host
         /\ \A h, b : Has(h, b)' => Has(h, b)
         /\ \A h, b : h # other[r] /\ Has(h, b) => Has(h, b)'
<1>1. other[r] \in Host /\ Cascade(other[r])
  BY DEF DeleteOther, Drop, HostsInv, LocalsSet
<1>2. \A i \in Iface : ifaces'[i] =
        IF ifaces[i] # NoRow /\ ifaces[i].host = other[r] THEN NoRow ELSE ifaces[i]
  BY <1>1, CascadeRows DEF HostsInv
<1>3. QED
  BY <1>1, <1>2 DEF Has

LEMMA KeptStep ==
  ASSUME OneRequest, HostsInv, [Next]_vars, \A r \in Request : ~Drop(r),
         NEW h \in Host, NEW a, Has(h, a)
  PROVE  \E g \in Host : Has(g, a)'
<1>1. CASE UNCHANGED ifaces
  BY <1>1 DEF Has
<1>2. ASSUME NEW r \in Request, CreateIface(r) PROVE \E g \in Host : Has(g, a)'
  BY <1>2, HasCreated
<1>3. ASSUME NEW r \in Request, MoveIface(r) PROVE \E g \in Host : Has(g, a)'
  BY <1>3, HasMoved
<1>4. ASSUME NEW r \in Request, DeleteOther(r) PROVE \E g \in Host : Has(g, a)'
  <2>1. /\ target[r] \in Host /\ target[r] # other[r]
        /\ \A b \in Addr : Has(other[r], b) => Has(target[r], b)
    BY <1>4 DEF DeleteOther, HostsInv, LocalsSet, OtherIsCovered
  <2>2. a \in Addr
    <3>1. \A i \in Iface : ifaces[i] # NoRow => ifaces[i].addr \in Addr
      BY Ids DEF HostsInv, HostsTypeOK
    <3>2. QED
      BY <3>1 DEF Has
  <2>3. PICK g \in Host : g # other[r] /\ Has(g, a)
    BY <2>1, <2>2
  <2>4. QED
    BY <1>4, <2>3, HasDeleted
<1>5. QED
  BY <1>1, <1>2, <1>3, <1>4, IfaceSteps

(* Only a user's deletion makes an address unknown: what the host that a   *)
(* consolidation deletes has, its destination has, and a failure or a stop *)
(* in the middle loses nothing.                                            *)
THEOREM AddressesAreKept ==
  ASSUME OneRequest PROVE Spec => AddressesKept
<1>1. HostsInv /\ [Next]_vars =>
        [(\A r \in Request : ~Drop(r)) =>
           \A h \in Host : \A a \in Addresses(h) :
               \E g \in Host : a \in Addresses(g)']_vars
  <2> SUFFICES ASSUME HostsInv, [Next]_vars, \A r \in Request : ~Drop(r),
                      NEW h \in Host, NEW a \in Addresses(h)
               PROVE  \E g \in Host : a \in Addresses(g)'
    OBVIOUS
  <2>1. Has(h, a)
    BY AddressesHas
  <2>2. PICK g \in Host : Has(g, a)'
    BY <2>1, KeptStep
  <2>3. QED
    BY <2>2, AddressesHas
<1>2. QED
  BY <1>1, HostsInvariance, PTL DEF Spec, AddressesKept

LEMMA TwinsStep ==
  ASSUME OneRequest, HostsInv, [Next]_vars, NEW a \in Addr,
         NEW h \in Host, NEW g \in Host, h # g, Has(h, a)', Has(g, a)'
  PROVE  \/ \E x, y \in Host : x # y /\ Has(x, a) /\ Has(y, a)
         \/ \E r \in Request : /\ CreateIface(r) /\ report[r].discovered
                               /\ \E b \in Addr : Has(target[r], b)
<1>1. CASE UNCHANGED ifaces
  BY <1>1 DEF Has
<1>2. ASSUME NEW r \in Request, CreateIface(r),
             ~(report[r].discovered /\ \E b \in Addr : Has(target[r], b))
      PROVE  Has(h, a) /\ Has(g, a)
  <2>1. PICK b \in report[r].addrs :
          \A x, c : Has(x, c)' => Has(x, c) \/ (x = target[r] /\ c = b)
    BY <1>2, HasCreated
  <2>2. \A x \in Host : x # target[r] => ~Has(x, b)
    BY <1>2, HasCreated DEF HostsInv, ReportsMatch
  <2>3. QED
    BY <2>1, <2>2
<1>3. ASSUME NEW r \in Request, MoveIface(r)
      PROVE  \E x, y \in Host : x # y /\ Has(x, a) /\ Has(y, a)
  <2>1. CASE \A x, b : Has(x, b)' <=> Has(x, b)
    BY <2>1
  <2>2. CASE \E b \in Addr, t \in Host, o \in Host :
               /\ Has(o, b) /\ ~Has(o, b)' /\ Has(t, b)'
               /\ \A x, c : c # b => (Has(x, c)' <=> Has(x, c))
               /\ \A x : x \notin {t, o} => (Has(x, b)' <=> Has(x, b))
    <3>1. PICK b \in Addr, t \in Host, o \in Host :
               /\ Has(o, b) /\ ~Has(o, b)' /\ Has(t, b)'
               /\ \A x, c : c # b => (Has(x, c)' <=> Has(x, c))
               /\ \A x : x \notin {t, o} => (Has(x, b)' <=> Has(x, b))
      BY <2>2
    <3>2. CASE a # b
      BY <3>1, <3>2
    <3>3. CASE a = b
      <4>1. h # o /\ g # o
        BY <3>1, <3>3
      <4>2. Has(h, a) \/ Has(g, a)
        BY <3>1, <3>3, <4>1
      <4>3. QED
        BY <3>1, <3>3, <4>1, <4>2
    <3>4. QED
      BY <3>2, <3>3
  <2>3. QED
    BY <1>3, <2>1, <2>2, HasMoved
<1>4. ASSUME NEW r \in Request, DeleteOther(r) \/ Drop(r)
      PROVE  Has(h, a) /\ Has(g, a)
  BY <1>4, HasDeleted
<1>5. QED
  BY <1>1, <1>2, <1>3, <1>4, IfaceSteps

(* Neither a user's creation, a consolidation nor what a stop left behind  *)
(* gives an address a second host: only a daemon's report does, about a    *)
(* machine that two hosts were recorded for.                               *)
THEOREM TwinsOnlyReported ==
  ASSUME OneRequest PROVE Spec => TwinsAreReported
<1>1. HostsInv /\ [Next]_vars =>
        [Shared' \subseteq Shared \/
           \E r \in Request : /\ CreateIface(r)
                              /\ report[r].discovered
                              /\ Addresses(target[r]) # {}]_vars
  <2> SUFFICES ASSUME HostsInv, [Next]_vars,
                      ~\E r \in Request : /\ CreateIface(r)
                                          /\ report[r].discovered
                                          /\ Addresses(target[r]) # {}
               PROVE  Shared' \subseteq Shared
    OBVIOUS
  <2> SUFFICES ASSUME NEW a \in Shared' PROVE a \in Shared
    OBVIOUS
  <2>1. PICK h \in Host, g \in Host :
          a \in Addr /\ h # g /\ a \in Addresses(h)' /\ a \in Addresses(g)'
    BY DEF Shared
  <2>2. Has(h, a)' /\ Has(g, a)'
    BY <2>1, AddressesHas
  <2>3. ASSUME NEW r \in Request, CreateIface(r), report[r].discovered,
               \E b \in Addr : Has(target[r], b)
        PROVE  FALSE
    <3>1. Addresses(target[r]) # {}
      BY <2>3, AddressesHas
    <3>2. QED
      BY <2>3, <3>1
  <2>4. PICK x \in Host, y \in Host : x # y /\ Has(x, a) /\ Has(y, a)
    BY <2>1, <2>2, <2>3, TwinsStep
  <2>5. QED
    BY <2>1, <2>4, AddressesHas DEF Shared
<1>2. QED
  BY <1>1, HostsInvariance, PTL DEF Spec, TwinsAreReported
=============================================================================
