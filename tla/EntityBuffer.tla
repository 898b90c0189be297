---------------------------- MODULE EntityBuffer ----------------------------
(***************************************************************************)
(* The buffer of discovered entities of a ServerPoll daemon                *)
(* (backend/src/daemon/discovery/buffer.rs), the create_host and           *)
(* create_subnet calls that wait on it (discovery/service/base.rs) and the *)
(* poll cycle in which the server fetches, stores and confirms             *)
(* (backend/src/server/daemons/service.rs, daemon/shared/handlers.rs).     *)
(*                                                                         *)
(* A request stands for the children (interfaces, ports, services) of one  *)
(* create_host call.  The calls of a scan run concurrently, and containers *)
(* found by Docker discovery are requests for one and the same host id.    *)
(***************************************************************************)
EXTENDS Functions

CONSTANTS
    Request,     \* create_host calls
    Host,        \* daemon-generated host ids
    HostOf,      \* the host id of a call
    Subnet,      \* create_subnet calls, each with an id of its own
    EntityFaults \* what may go wrong, a subset of EntityFaultKinds

EntityFaultKinds ==
    {"give_up", "poll_lost", "rejected", "confirm_lost", "confirm_late"}

Call == Request \cup Subnet

ASSUME HostOfAssumption == HostOf \in [Request -> Host]
ASSUME CallAssumption == Request \cap Subnet = {}
ASSUME EntityFaultAssumption == EntityFaults \subseteq EntityFaultKinds

VARIABLES
    hosts,       \* hosts: whether an entry is Pending, Created or "none"
    merged,      \* the requests merged into a Pending host entry
    subnets,     \* subnets: as hosts
    call,        \* where a create call is
    closing,     \* clear_all has cleared the hosts and not yet the subnets
    exchange,    \* position of the server's poll cycle
    batchHosts, batchSubnets,        \* the entities it has been given
    confirmHosts, confirmSubnets,    \* the confirmations being applied
    lateHosts, lateSubnets,          \* those of a POST that has timed out
    stored       \* the calls whose entity is in the server's database

daemon == <<hosts, merged, subnets, call, closing>>
batch == <<batchHosts, batchSubnets>>
confirm == <<confirmHosts, confirmSubnets>>
late == <<lateHosts, lateSubnets>>
server == <<exchange, batch, confirm, late, stored>>
bvars == <<daemon, server>>

EntityState == {"none", "Pending", "Created"}

(* Only Pending entries hold what was merged into them. *)
BufferTypeOK ==
    /\ hosts \in [Host -> EntityState]
    /\ merged \in [Host -> SUBSET Request]
    /\ \A h \in Host : merged[h] # {} <=> hosts[h] = "Pending"
    /\ subnets \in [Subnet -> EntityState]
    /\ call \in [Call -> {"idle", "waiting", "returned", "failed"}]
    /\ closing \in BOOLEAN
    /\ exchange \in {"idle", "poll_subnets", "process", "confirm"}
    /\ batchHosts \in [Host -> SUBSET Request]
    /\ batchSubnets \subseteq Subnet
    /\ confirmHosts \subseteq Host
    /\ confirmSubnets \subseteq Subnet
    /\ lateHosts \subseteq Host
    /\ lateSubnets \subseteq Subnet
    /\ stored \subseteq Call

BufferInit ==
    /\ hosts = [h \in Host |-> "none"]
    /\ merged = [h \in Host |-> {}]
    /\ subnets = [n \in Subnet |-> "none"]
    /\ call = [c \in Call |-> "idle"]
    /\ closing = FALSE
    /\ exchange = "idle"
    /\ batchHosts = [h \in Host |-> {}]
    /\ batchSubnets = {}
    /\ confirmHosts = {}
    /\ confirmSubnets = {}
    /\ lateHosts = {}
    /\ lateSubnets = {}
    /\ stored = {}

-----------------------------------------------------------------------------
(* The discovery task *)

SetCall(c, where) == call' = [call EXCEPT ![c] = where]

(* push_host: children join a Pending entry; any other entry is replaced. *)
PushHost(r) ==
    /\ call[r] = "idle"
    /\ ~closing
    /\ hosts' = [hosts EXCEPT ![HostOf[r]] = "Pending"]
    /\ merged' = [merged EXCEPT ![HostOf[r]] = @ \cup {r}]
    /\ SetCall(r, "waiting")
    /\ UNCHANGED <<subnets, closing, server>>

PushSubnet(n) ==
    /\ call[n] = "idle"
    /\ ~closing
    /\ subnets' = [subnets EXCEPT ![n] = "Pending"]
    /\ SetCall(n, "waiting")
    /\ UNCHANGED <<hosts, merged, closing, server>>

AwaitHost(r) ==
    /\ call[r] = "waiting"
    /\ hosts[HostOf[r]] = "Created"
    /\ SetCall(r, "returned")
    /\ UNCHANGED <<hosts, merged, subnets, closing, server>>

AwaitSubnet(n) ==
    /\ call[n] = "waiting"
    /\ subnets[n] = "Created"
    /\ SetCall(n, "returned")
    /\ UNCHANGED <<hosts, merged, subnets, closing, server>>

(* Two minutes pass, or the discovery is cancelled; the entry stays. *)
GiveUp(c) ==
    /\ "give_up" \in EntityFaults
    /\ call[c] = "waiting"
    /\ SetCall(c, "failed")
    /\ UNCHANGED <<hosts, merged, subnets, closing, server>>

(* finish_discovery, once the calls of the session are over ... *)
ClearHosts ==
    /\ ~closing
    /\ \A c \in Call : call[c] # "waiting"
    /\ \/ \E h \in Host : hosts[h] # "none"
       \/ \E n \in Subnet : subnets[n] # "none"
    /\ hosts' = [h \in Host |-> "none"]
    /\ merged' = [h \in Host |-> {}]
    /\ closing' = TRUE
    /\ UNCHANGED <<subnets, call, server>>

(* ... clears the maps one after the other. *)
ClearSubnets ==
    /\ closing
    /\ subnets' = [n \in Subnet |-> "none"]
    /\ closing' = FALSE
    /\ UNCHANGED <<hosts, merged, call, server>>

-----------------------------------------------------------------------------
(* The server's poll cycle *)

(* Mutant: entities are handed out once, and dropped. *)
PollHostsDrain ==
    /\ exchange = "idle"
    /\ batchHosts' = merged
    /\ hosts' = [h \in Host |->
                    IF hosts[h] = "Pending" THEN "none" ELSE hosts[h]]
    /\ merged' = [h \in Host |-> {}]
    /\ exchange' = "poll_subnets"
    /\ UNCHANGED <<subnets, call, closing, batchSubnets, confirm, late, stored>>

(* get_pending copies the Pending hosts under one lock ... *)
PollHosts ==
    /\ exchange = "idle"
    /\ batchHosts' = merged
    /\ exchange' = "poll_subnets"
    /\ UNCHANGED <<daemon, batchSubnets, confirm, late, stored>>

(* ... and the Pending subnets under another. *)
PollSubnets ==
    /\ exchange = "poll_subnets"
    /\ batchSubnets' = {n \in Subnet : subnets[n] = "Pending"}
    /\ exchange' = "process"
    /\ UNCHANGED <<daemon, batchHosts, confirm, late, stored>>

EmptyBatch ==
    /\ batchHosts' = [h \in Host |-> {}]
    /\ batchSubnets' = {}

(* The response does not arrive; the entities are still in the buffer. *)
EntitiesLost ==
    /\ "poll_lost" \in EntityFaults
    /\ exchange = "process"
    /\ EmptyBatch
    /\ exchange' = "idle"
    /\ UNCHANGED <<daemon, confirm, late, stored>>

InBatch == {h \in Host : batchHosts[h] # {}}

(* Mutant: a failed entity is confirmed like the others. *)
ProcessConfirmsAll ==
    /\ exchange = "process"
    /\ \E okHosts \in SUBSET InBatch, okSubnets \in SUBSET batchSubnets :
         stored' = stored \cup okSubnets
                        \cup UNION {batchHosts[h] : h \in okHosts}
    /\ confirmHosts' = InBatch
    /\ confirmSubnets' = batchSubnets
    /\ EmptyBatch
    /\ exchange' = "confirm"
    /\ UNCHANGED <<daemon, late>>

(***************************************************************************)
(* process_discovery_entities stores what it can and confirms just that.   *)
(***************************************************************************)
Process ==
    /\ exchange = "process"
    /\ \E okHosts \in SUBSET InBatch, okSubnets \in SUBSET batchSubnets :
         /\ "rejected" \notin EntityFaults =>
                okHosts = InBatch /\ okSubnets = batchSubnets
         /\ stored' = stored \cup okSubnets
                        \cup UNION {batchHosts[h] : h \in okHosts}
         /\ confirmHosts' = okHosts
         /\ confirmSubnets' = okSubnets
    /\ EmptyBatch
    /\ exchange' = "confirm"
    /\ UNCHANGED <<daemon, late>>

(* mark_subnet_created takes any entry, *)
MarkSubnetCreated(n) ==
    subnets' = [subnets EXCEPT ![n] = IF @ = "none" THEN @ ELSE "Created"]

(* Mutant: the confirmed entry is dropped at once. *)
MarkHostDrops(h) ==
    /\ hosts' = [hosts EXCEPT ![h] = IF @ = "Pending" THEN "none" ELSE @]
    /\ merged' = [merged EXCEPT ![h] = {}]

(* Mutant: the Created entry keeps what was merged. *)
MarkHostKeeps(h) ==
    /\ hosts' = [hosts EXCEPT ![h] = IF @ = "Pending" THEN "Created" ELSE @]
    /\ UNCHANGED merged

(* mark_host_created only a Pending one, with all that was merged into it. *)
MarkHostCreated(h) ==
    /\ hosts' = [hosts EXCEPT ![h] = IF @ = "Pending" THEN "Created" ELSE @]
    /\ merged' = [merged EXCEPT ![h] = {}]

(* receive_created_entities, one entity at a time: subnets, then hosts. *)
ConfirmSubnet(n) ==
    /\ n \in confirmSubnets
    /\ MarkSubnetCreated(n)
    /\ confirmSubnets' = confirmSubnets \ {n}
    /\ UNCHANGED <<hosts, merged, call, closing, exchange, batch, confirmHosts,
                   late, stored>>

ConfirmHost(h) ==
    /\ confirmSubnets = {}
    /\ h \in confirmHosts
    /\ MarkHostCreated(h)
    /\ confirmHosts' = confirmHosts \ {h}
    /\ UNCHANGED <<subnets, call, closing, exchange, batch, confirmSubnets,
                   late, stored>>

EndCycle ==
    /\ exchange = "confirm"
    /\ confirmHosts = {} /\ confirmSubnets = {}
    /\ exchange' = "idle"
    /\ UNCHANGED <<daemon, batch, confirm, late, stored>>

ConfirmLost ==
    /\ "confirm_lost" \in EntityFaults
    /\ confirmHosts # {} \/ confirmSubnets # {}
    /\ confirmHosts' = {} /\ confirmSubnets' = {}
    /\ UNCHANGED <<daemon, exchange, batch, late, stored>>

(* The server stops waiting for its POST, which is still applied. *)
ConfirmLate ==
    /\ "confirm_late" \in EntityFaults
    /\ confirmHosts # {} \/ confirmSubnets # {}
    /\ lateHosts' = lateHosts \cup confirmHosts
    /\ lateSubnets' = lateSubnets \cup confirmSubnets
    /\ confirmHosts' = {} /\ confirmSubnets' = {}
    /\ UNCHANGED <<daemon, exchange, batch, stored>>

LateSubnet(n) ==
    /\ n \in lateSubnets
    /\ MarkSubnetCreated(n)
    /\ lateSubnets' = lateSubnets \ {n}
    /\ UNCHANGED <<hosts, merged, call, closing, exchange, batch, confirm,
                   lateHosts, stored>>

LateHost(h) ==
    /\ h \in lateHosts
    /\ MarkHostCreated(h)
    /\ lateHosts' = lateHosts \ {h}
    /\ UNCHANGED <<subnets, call, closing, exchange, batch, confirm,
                   lateSubnets, stored>>

-----------------------------------------------------------------------------
Discover ==
    \/ \E r \in Request : PushHost(r) \/ AwaitHost(r)
    \/ \E n \in Subnet : PushSubnet(n) \/ AwaitSubnet(n)
    \/ \E c \in Call : GiveUp(c)
    \/ ClearHosts \/ ClearSubnets

Cycle ==
    \/ PollHosts \/ PollSubnets \/ EntitiesLost \/ Process
    \/ \E n \in Subnet : ConfirmSubnet(n)
    \/ \E h \in Host : ConfirmHost(h)
    \/ EndCycle \/ ConfirmLost \/ ConfirmLate

Late ==
    \/ \E n \in Subnet : LateSubnet(n)
    \/ \E h \in Host : LateHost(h)

BufferNext == Discover \/ Cycle \/ Late

BufferSpec == BufferInit /\ [][BufferNext]_bvars

(***************************************************************************)
(* The polling loop goes round and a waiting call looks at its entry every *)
(* 100 ms.  No fault is fair.                                              *)
(***************************************************************************)
BufferFairSpec ==
    /\ BufferSpec
    /\ WF_bvars(Cycle)
    /\ \A r \in Request : WF_bvars(AwaitHost(r))
    /\ \A n \in Subnet : WF_bvars(AwaitSubnet(n))

-----------------------------------------------------------------------------
(* Correctness *)

(***************************************************************************)
(* A create_host or create_subnet call that returns the confirmed entity   *)
(* has had its own entity stored: no confirmation, however late, stands    *)
(* for an entity the server was never given.                               *)
(***************************************************************************)
ReturnedIsStored ==
    \A c \in Call : call[c] = "returned" => c \in stored

(***************************************************************************)
(* While a call waits and its entity is not stored, the entity is in the   *)
(* buffer for the next poll: neither a lost response or confirmation nor   *)
(* the end of an earlier session takes it away.                            *)
(***************************************************************************)
WaitingIsBuffered ==
    /\ \A r \in Request : call[r] = "waiting" /\ r \notin stored =>
           r \in merged[HostOf[r]]
    /\ \A n \in Subnet : call[n] = "waiting" /\ n \notin stored =>
           subnets[n] = "Pending"

(* A step that loses a message, refuses an entity or ends a wait. *)
Fault ==
    \/ \E c \in Call : GiveUp(c)
    \/ EntitiesLost \/ ConfirmLost \/ ConfirmLate
    \/ Process /\ (confirmHosts' # InBatch \/ confirmSubnets' # batchSubnets)

(***************************************************************************)
(* The cycle recovers by itself: once faults cease, every waiting call     *)
(* returns, whatever was lost, refused or applied late before.  What a     *)
(* fault undid is still Pending and is polled again, and a confirmed entry *)
(* stays long enough for await_host and await_subnet to see it.            *)
(***************************************************************************)
CallsRecover ==
    <>[][~Fault]_bvars =>
        \A c \in Call : call[c] = "waiting" ~> call[c] # "waiting"

-----------------------------------------------------------------------------
(* The inductive invariant for hosts with an id of their own *)

(* Every request for h is in the server's database. *)
Settled(h) == \A r \in Request : HostOf[r] = h => r \in stored

(* Entries and batches hold requests for their own host. *)
OwnRequests ==
    \A h \in Host : \A r \in merged[h] \cup batchHosts[h] : HostOf[r] = h

(* A confirmation, applied or under way, is of what is stored. *)
ConfirmedIsStored ==
    /\ \A h \in Host :
           hosts[h] = "Created" \/ h \in confirmHosts \cup lateHosts =>
               Settled(h)
    /\ \A n \in Subnet :
           subnets[n] = "Created" \/ n \in confirmSubnets \cup lateSubnets =>
               n \in stored

(* clear_all runs when no call waits, and none starts before it is done. *)
ClosingIsQuiet == closing => \A c \in Call : call[c] # "waiting"

BufferInv ==
    /\ BufferTypeOK
    /\ OwnRequests
    /\ ConfirmedIsStored
    /\ ClosingIsQuiet
    /\ ReturnedIsStored
    /\ WaitingIsBuffered
=============================================================================
