# NetVisor: TLA+ models, model checking and proofs

NetVisor (its crate is called `scanopy-server`) discovers what runs on a network. A
server (Rust, axum, PostgreSQL) keeps networks, hosts, services and topologies;
daemons on those networks scan them. This directory holds TLA+ specifications
of the parts of the system that keep state across requests and tasks:

* discovery sessions, their dispatch to daemons in both modes (a daemon that
  asks for work, a daemon the server polls), the daemons' life with them, and
  the buffer through which a polled daemon hands over what it found;
* the schedule of discoveries;
* what becomes of the findings: hosts with their interfaces, services with
  their bindings, topologies and the events that mark them stale;
* the plan of an organization and the webhooks that change it.

Paths below are relative to `src/backend/src/`.

## 1. Inventory

### 1.1 Discovery session registry: `server/discovery/service.rs`

*State.* Four maps in memory, each behind its own `tokio::sync::RwLock`:
`sessions` (session id to payload with phase), `daemon_sessions` (daemon id to a
queue of session ids), `daemon_pull_cancellations` (daemon id to a Boolean and
a session id) and `session_last_updated` (session id to time). Finished sessions
are stored as historical rows in the database.

*Operations.* `start_session`, `update_session`, `cancel_session`,
`cleanup_stalled_sessions` (every minute), `cleanup_old_sessions`,
`get_sessions_for_daemon`, `has_active_session_for_daemon`,
`transition_session_to_starting`, `pull_cancellation_for_daemon`.

*Interactions.* Users (REST handlers) and the cron scheduler start and cancel;
daemons report progress; the dispatcher below selects and transitions.

*Hard.* Most operations take the locks one after the other and act on what an
earlier section read. An update of an unknown session recreates it. Entries of
`session_last_updated` outlive their session and double as tombstones. Nothing
survives a restart. `get_sessions_for_daemon` and
`has_active_session_for_daemon` take `daemon_sessions` before `sessions`, all
other operations the reverse.

*Correct when* every tracked session can be reached by dispatch, none is
dispatched twice, sessions leave in the end, and the stall clean-up touches only
sessions that stalled, and no two operations wait for each other for ever.

### 1.2 Work dispatch: `server/daemons/service.rs`, `server/daemons/handlers.rs`

Stateless. `get_pending_work` asks whether the daemon has an active session,
selects the first pending one and puts it to `Starting`, in three lock sections.
`receive_work_request` adds the cancellation flag and answers a DaemonPoll daemon;
the polling loop of section 1.5 does the same for the others.

*Correct when* a daemon is given one session at a time, and only one it takes.

### 1.3 DaemonPoll daemon: `daemon/runtime/service.rs`, `daemon/discovery/manager.rs`, `daemon/discovery/service/*.rs`

*State.* The manager's current task with its cancellation token; the task's
position in `discover`; one HTTP request of the polling loop and one of the task.

*Operations.* The polling loop asks for work, cancels what runs when told to,
starts what it was given unless something runs. The task prepares, reports
`Started`, scans and reports, and reports a terminal phase.

*Hard.* Two connections that overtake each other; requests that are lost, time
out and are repeated; errors before the first report and after the last;
restarts of either side; a cancellation that does not name its session.

### 1.4 Entity buffer and confirmation: `daemon/discovery/buffer.rs`, `daemon/shared/handlers.rs`, `daemon/discovery/service/base.rs`, `process_discovery_entities` of `server/daemons/service.rs`

*State.* Two maps (hosts, subnets) from daemon-generated ids to `Pending` or
`Created` entries. A `create_host` call pushes and waits until its entry is
`Created`. The server fetches the pending entities, stores them and posts the
stored ones back.

*Hard.* Pushes merge into an entry while the server works on an older copy of
it. Confirmations are lost or come late. `clear_all` at the end of a session
takes the maps one after the other.

*Correct when* a call that returns has had its entity stored, and no entity that
is waited for drops out of the buffer unstored.

### 1.5 ServerPoll loop and reachability: `poll_daemon` and callers in `server/daemons/service.rs`, `server/daemons/subscriber.rs`, `daemon/runtime/state.rs`, `daemon/shared/handlers.rs`

*State.* On the server the row's `is_unreachable`; on the daemon the current
session, the terminal payload, the task and its token.

*Operations.* `poll_all_daemons` polls all ServerPoll daemons in parallel:
status, progress and entities, then the work it may push. A subscriber of the
event bus pushes cancellations. After the last failed attempt at the status the
daemon is marked unreachable and left alone until a user retries.

*Hard.* Every request is retried, a refusal like a lost answer. A cancellation
is pushed also for a session that has ended or stalled, and stops whatever runs. The terminal
payload is cleared when it is served, before the server has it. A request that
cannot be delivered leaves its session `Starting`. An aborted Docker scan leaves
the current session set.

*Correct when* a daemon runs only what it was given, and a session the daemon
has reported leaves in the end.

### 1.6 Discovery rows and schedule: `server/discovery/service.rs`, `server/discovery/handlers.rs`

*State.* Rows in the database, cron jobs in a scheduler, the map `job_ids` from
row to job. A job captures its row when it is made.

*Operations.* `create_discovery` (a daemon registers), `update_discovery` (a session is started by
hand), `start_scheduler` (the server starts), jobs that fire, the generic routes
that write the table, and the conversion of schedules by billing.

*Hard.* Rows, jobs and map change in separate steps. Jobs store their captured
row. The routes of the API do not touch the scheduler. Requests are served
before the scheduler has started. A read guard of `job_ids` is held while the
same task asks for the write lock.

*Correct when* a row has at most one job, the scheduler agrees with rows nobody
edited, a deleted row stays deleted, and requests return.

### 1.7 Event bus: `server/shared/events/bus.rs`, the `subscriber.rs` files

*State.* A pending batch per subscriber. *Operations.* `publish` adds an event
unless an equal one is pending, where equality ignores the entity; a batch is
flushed after its debounce window; errors of the handler are logged.

*Hard.* Subscribers see events later than the state they describe and read the
database anew; batches are lost with the process and with an error.

### 1.8 Daemon life cycle: `server/daemons/service.rs`

Registration (a host, then a row that refers to it), standby set by the plan,
reachability, versions and capabilities. `process_status`, `process_startup` and
`process_capabilities` each read a row, change a field and write the row back.

### 1.9 Hosts: `server/hosts/service.rs`, `server/hosts/handlers.rs`

*State.* Rows of hosts, interfaces, ports, services; a mutex per host id.

*Operations.* `create_with_children` for reports and for users,
`find_matching_host_by_interfaces`, `consolidate_hosts`, `delete_host` and the
generic deletion.

*Hard.* Each is a sequence of database calls without a transaction; the
lock is that of one host id, and matching happens before it is taken. A
consolidation holds its destination's lock and asks for the other's. A check for
daemons and the deletion it allows are apart, and `daemons.host_id` has no
foreign key.

*Correct when* no daemon loses its host, consolidation loses no address, and a
second host for an address does not come about by accident.

### 1.10 Services and bindings: `server/services/service.rs`

*State.* Rows of services with bindings to ports and interfaces; a mutex per
service id. *Operations.* `create` (insert or merge with the same service),
`upsert_service`, `update`, `delete`, and the partition of a report's services
into those that claim only what is free and those that are dropped, whose other
ports go to "Open Ports".

*Hard.* Four rules about bindings (overlap between services, exclusion and
covering within one, redundancy in a report) are enforced in four places;
the merge is written without a check. `create` holds the lock of the id in the
report and writes another row.

*Correct when* no service contradicts itself and no two named services of a host
hold one port of one interface.

### 1.11 Topologies: `server/topology/`

*State.* Rows with copies of entities, a graph, the flag `is_stale` and lists of
removed entities. *Operations.* Rebuild, refresh, edit, create; the subscriber,
which reads all topologies of a network, applies a batch and writes them back.

*Hard.* Routes and subscriber write whole rows they read earlier, without a lock.

*Correct when* a graph that no longer matches its network is marked stale.

### 1.12 Billing: `server/billing/service.rs`, `server/billing/handlers.rs`

*State.* The organization's plan, trial date and card flag; at Stripe,
subscriptions and webhooks under way. *Operations.* Checkout, change of plan,
downgrade; webhooks about subscriptions and payment methods; enforcement of the
plan's restrictions; cancellation of duplicate subscriptions.

*Hard.* Webhooks come twice, late, at once and again after a failure half-way;
each writes back the whole row it read at its start, and so do others (the
onboarding subscriber). A subscription that is out of payment exists, may become
active again, and is no duplicate to the code.

*Correct when* the customer ends with one active subscription and not without
any, the organization with its plan, and the daemons in standby exactly on a
plan without them.

### 1.13 The rest

Service definitions and pattern matching, scanners (ARP, ports, SNMP, Docker),
authentication and permissions, organizations, users and invites, SQL
generation, mail and other integrations, the web UI: section 6.

## 2. Modules

| Module | Models |
|---|---|
| `DiscoveryTypes` | session and daemon ids, the phases both sides know |
| `SessionLifecycle` | abstract: what the registry promises of a session |
| `DiscoveryService` | registry (1.1) and dispatch (1.2) with an adversarial transport; implements `SessionLifecycle` |
| `DiscoveryServiceProofs` | its theorems |
| `DiscoveryLocks` | the registry's four locks, one step per lock operation |
| `DaemonRunner` | a DaemonPoll daemon (1.3) |
| `DiscoverySystem`, `DiscoverySystemProofs` | registry and DaemonPoll daemons joined by HTTP, with faults, built from the actions of `DiscoveryService`; theorems |
| `ServerPollSystem` | registry and ServerPoll daemons (1.5), with faults, built from the same actions |
| `EntityBuffer` | buffer, waiting calls and confirmation cycle (1.4) |
| `ServerPollProofs` | theorems about both |
| `DiscoverySchedule`, `DiscoveryScheduleProofs` | rows, jobs and their map (1.6), and theorems |
| `TopologyStaleness`, `TopologyStalenessProofs` | topologies, the event bus and the hosts they show (1.7, 1.11), and theorems |
| `Hosts`, `HostsProofs` | reports, consolidation and deletion of hosts (1.8, 1.9), and theorems |
| `ServiceBindings`, `ServiceBindingsProofs` | services of a host and their bindings (1.10), and theorems |
| `Billing`, `BillingProofs` | plans, subscriptions and webhooks (1.12), and theorems |
| `MC...` | instances for TLC |

Operators whose comment begins with "Mutant" are deliberately wrong variants of
the definition that follows them. No specification uses them; they serve to show
that each property notices a plausible mistake in the code it is about.

### 2.1 `DiscoveryService`

| Variable | Code |
|---|---|
| `sessions` | `sessions`, reduced to the phase; `"none"` for an absent key |
| `queue` | `daemon_sessions` |
| `cancelFlag` | `daemon_pull_cancellations`, reduced to the session id, which the code sets only together with `true` |
| `fresh` | `session_last_updated`: no entry, within the stall threshold of five minutes, beyond it |
| `recorded` | ids with a historical row |
| `issued`, `handed` | history: ids drawn by `start_session`, ids returned as work |
| `pc`, `sid`, `did` | position and locals of the request handlers in flight |
| `cleanup`, `stalled`, `toRequest` | position and locals of `cleanup_stalled_sessions` |

The grain is the lock section: one action per stretch of code between two points
at which another task can change a map.

| Code | Actions |
|---|---|
| `start_session` | `StartInsert`, `StartPush` |
| `get_pending_work`, `receive_work_request` | `PollCheckActive`, `PollSelect`, `PollTransition`, `PollReply` |
| `update_session` | `UpdateProgress`, `UpdateTerminal`, `UpdateRedundant` |
| `cancel_session` | `CancelRead`, `CancelPending`, `CancelFlag` |
| `cleanup_stalled_sessions` | `CleanupScan`, `CleanupRequest`, `CleanupLock`, `CleanupSweep`, `CleanupEvict` |
| five minutes without an update | `Age` |
| a new process | `Restart` |

`update_session` holds the write lock of `sessions` from start to end, so it is one action;
the sweep of the clean-up holds all four write locks, so while it runs nothing
else does. Updates may come for any session that was handed out, in any order
and any number: this module assumes nothing of the transport or the daemon.

Left out here: `cleanup_old_sessions` (in `DiscoveryLocks`), which removes
sessions with `finished_at` set, and `update_session` removes those itself; events published to the bus, which
no subscriber turns into a change of the registry; progress values, texts and
notifications to browsers.

`SessionLifecycle` has one variable, the place of each session in its life
(unborn, waiting, withdrawn, running, over), and the set of historical rows. Its
actions are `Request`, `Withdraw`, `Dispatch`, `End`, `Return` (the daemon reports
a session the registry has dropped), `StoreLate` and `Lose` (a restart).
`DiscoveryService!Life` maps the four maps to it.

`DiscoveryLocks` writes each operation as the sequence of locks it takes and
drops, and has tokio's `RwLock`: requests queue, and a reader does not pass a
waiting writer. Polls and clean-up loops are the server's own tasks; request
handlers are dropped, with their guards, when their client goes away.

### 2.2 `DaemonRunner` and `DiscoverySystem`

`DaemonRunner` has the manager's task (`job`), where it is in `discover`
(`stage`), its token, the update it is posting (`post`), and updates whose POST
timed out at the daemon and which the server may still receive (`late`).
`scans` counts how often a session got past `start_discovery`; two stands for
two or more. Complete, Failed and Cancelled are one phase, `Ended`: the server
treats them alike.

`DiscoverySystem` adds the work request (`asked`, the handler that serves it)
and its `answer`. The answer's Boolean is modelled with the session whose flag
made it true (`flagged`), which the code does not send; only the property
`CancelHitsTarget` looks at it. An update is applied (`Deliver`) and answered
(`Respond`) in two steps.

| Fault | Behaviour |
|---|---|
| `answer_lost` | the answer to a work request does not arrive |
| `poll_timeout` | the client gives up, its handler goes on; the retry meets another handler |
| `post_lost` | an update does not arrive, and the daemon only logs it |
| `post_late` | an update times out and is applied later |
| `overtaking` | an answer reaches the polling loop before the response to an update reaches the task |
| `prepare_fails` | `discover` returns an error before it has reported |
| `scan_aborts` | Docker discovery returns an error after `Started` and before any terminal report |
| `slow_scan` | a running task does not report for five minutes |
| `server_restart`, `daemon_restart` | a process starts anew |

### 2.3 `EntityBuffer`

`hosts`, `merged` and `subnets` are the buffer's maps, `call` the position of
every `create_host` and `create_subnet` call; `exchange`, `batch...`, `confirm...`
the server's poll cycle; `late...` confirmations of a POST that timed out at the
server; `stored` what reached the database. A request stands for the children
one `create_host` call brings. `HostOf` gives its host id: with one request per id it is a
network scan, with all requests on one id a Docker scan of that host's containers.
Fetching takes the two maps one after the other (`PollHosts`, `PollSubnets`), a
confirmation is applied entity by entity, and `clear_all` clears one map after the other.

### 2.4 `ServerPollSystem`

`cycle` is the polling loop's position with a daemon, `got` the progress it was
served, `work` the session to push, `reached` the pushed cancellations that were
answered; `job`, `stage`, `token`, `current` and `terminal` are the daemon's.

| Code | Actions |
|---|---|
| `poll_daemon` | `PollStatus`, `PollDiscovery`, `ApplyProgress`, `AskForWork`, `SelectWork`, `TakeWork`, `Initiate` |
| its failures | `MarkUnreachable`, `PollLost`, `PollGivenUp`, `InitiateUnanswered`, `InitiateGivenUp` |
| `retry_connection` | `RetryConnection` |
| subscriber and `cancel_session` | `PushCancel`, `EndCancel` |
| subscriber, stall clean-up and `update_session` | `PushStalled`, `EchoesCancel` in `ApplyProgress` |
| `cancel_current_session` | `SignalTask`: whatever runs is told to stop |
| the daemon's task | `StartDiscovery`, `FinishDiscovery`, `CloseSession`, `PrepareFails`, `AbortDiscovery` |
| `get_progress`, `get_discovery_poll` | `Progress`, `ServePoll` |

Faults: `unreachable`, `poll_lost`, `initiate_lost`, `cancel_lost`,
`prepare_fails`, `scan_aborts`, `slow_poll`, `server_restart`, `daemon_restart`.
Entities of a poll are in `EntityBuffer`.

### 2.5 `DiscoverySchedule`

`rows`, `jobs` and `job_ids` are table, scheduler and map; `at`, `hold` and
`mine` the requests under way; `firing` jobs between the start of a session and
the write of their captured row; `phase` and `loaded` the start of the server. A row is told
apart by its run type. `Compare`, `RemoveJob`, `WriteRow`, `Schedule` and
`Insert` are the steps of `update_discovery` and `schedule_discovery`. A task
that waits for the write lock behind its own read guard is `stuck`, and nobody
else gets the lock (`JobIdsLocked`). With `RemoveFails` the scheduler may refuse
to remove a job, and the request goes on. A downgrade of an organization without
scheduled rows takes effect at once, another when the last row is converted.

### 2.6 `TopologyStaleness`

`hosts` and `topo` are the tables, `pending` the event bus's queue, `batch` what
the topology service has collected of a batch it handles (`Collected`, a set: only
what a batch contains matters), `copies` and `fresh` what it has read. `Marks`
tells the events that mark a topology stale from those that only refresh it.
Changes of a host write and then publish (`WriteHost`, `PublishHost`), except
`delete_many`, which publishes first. Routes read in one step and write in
another. `missed` is a history variable: topologies whose flag may have been
lost to one of the races the module names: a row overwritten by what was read
before it changed, a host deleted by `delete_many` after its event was handled,
a batch lost with the process. Entities other than
hosts behave alike and are left out, and so is layout: a graph is what it was built from.

### 2.7 `Hosts` and `ServiceBindings`

`Hosts` takes one step per database call: `Submit` matches, `CreateHost`,
`CreateIface` and `CreateService` store; `Consolidate`, `LockDestination`,
`ReadIfaces`, `MoveIface`, `ReadServices`, `MoveService`, `CheckOther` and
`DeleteOther` are `consolidate_hosts`; `Register` and `CreateDaemon` a
registration; `CheckDelete` and `Drop` a deletion. `Crash` ends a request
anywhere. A deletion cascades as the foreign keys do. Every service is on one
port number, so a binding is an interface; subnet, IP and MAC are one address.

`ServiceBindings` has the bindings in full: a port on one interface or on all,
or an interface as a whole. `Overlaps`, `Excludes`, `Covers`, `Deduplicated`,
`NoConflicts`, `Conflicting` and `MergedBindings` are the code's rules.
`Partition`, `EndReport`, `Create`, `Upsert` and `Insert` handle a report;
`Submit` and `Save` a user's request. Services of one report may have ports in
common (`Taken` is what the next one conflicts with: stored rows and the
report's earlier services). The routes of single bindings are left out.

### 2.8 `Billing`

`subs`, `cards`, `checkouts` and `inbox` are Stripe, modelled from how the code
uses it; `org` is the organization's row, `standby` that of its daemons; `at`,
`ev`, `row` and `old` a webhook handler with the row it read. Handling a webhook
takes the steps of `handle_subscription_update` or
`handle_subscription_deleted`: `SetStandby` (`enforce_plan_restrictions`),
`WriteUpdated` or `WriteDeleted`, then `ListDuplicates` and `CancelDuplicate`, or
`CreateFree`. `Fail` ends it anywhere without an acknowledgement. Plans are the
Free plan and a paid one; rows that enforcement trims are left out, except
schedules, which are in `DiscoverySchedule`.

A subscription is `live` (Active or Trialing, the two statuses the code filters
on), `unpaid` (past due, unpaid or paused) or `canceled`. `FallBehind` takes it
out of payment, with an update or a pause, which the code handles like a deletion;
`Renew` brings it back; `Expire` ends it. `Checkout` opens a session of a kind
(plan, with or without a trial); any set of earlier ones may stay open, up to
`MaxCheckouts`. `ChangePlan` is the service behind the route of that name and
behind checkout. `Stored` is a write of a whole row; under the fault
`overwritten` another writer puts back what it read before.

## 3. Runs

Passing:

| Run | Instance | Shows |
|---|---|---|
| `registry` | 2 sessions, 1 daemon, 2 handlers, clean-up, any transport, restarts | `TypeOK`, `TrackedIsQueued`, `NoDuplicates`, `ReportedIsTimed`, `RecordedWasHanded`, `GhostsStayDead`, `WaitingIsSafe`; `KeepsPromise`: the registry implements `SessionLifecycle` |
| `calm` | 3 sessions, no fault, no cancel | one session at a time (`OneActive`), scanned once (`ScannedOnce`), work always taken (`WorkIsTaken`), every session leaves (`EverySessionLeaves`) |
| `faults` | 1 session, 1 poll handler, all ten faults, cancels | `SystemTypeOK`; `ReportedLeaves`: a session its daemon has reported leaves in the end |
| `server_poll` | 1 session, all nine faults, cancels | `PollTypeOK`; `LeavesUnlessAbandoned`: the same, except after an aborted Docker scan |
| `buffer` | 2 hosts with ids of their own, 1 subnet, every fault | `BufferTypeOK`, `ReturnedIsStored`, `WaitingIsBuffered`; `CallsRecover`: once faults stop, waiting calls return |
| `schedule` | 2 rows, 3 cron expressions, one of which does not parse, 3 jobs, 1 request | `ScheduleTypeOK`; `OneJob`; `JobsFollowRows`: scheduler and table agree on rows nobody edited; `DeletedStays` |
| `topology` | 1 host, 1 topology, 1 writer, 1 route, at most 2 pending events | `TopologyTypeOK`; `NothingMissed`: outside the named races a graph out of date is marked or about to be; `StaleIsMarked` |
| `hosts` | 2 hosts, 2 addresses, 3 interface rows, 2 service rows, 1 request, stops anywhere | `HostsTypeOK`, `DaemonKeepsHost`, `AddressesKept`, `TwinsAreReported` |
| `services` | 3 services, 2 definitions and Open Ports, 2 ports, 2 interfaces, 1 request with deletions at any time | `ServicesTypeOK`, `SelfConsistent`; `NamedApart`: two named services of a host never share a port |
| `billing` | 3 subscriptions in any status, webhooks one at a time, which fail and are repeated, backlog 2, 1 open checkout | `BillingTypeOK`; `OneSubscription`: at most one active or trialing, and one is left; `PlanIsSubscribed`, `StandbyFollowsPlan` |

Violated, each a disagreement between the code and what its texts say (the
quotations are under `findings` in `PROJECT.json`):

| Run | What TLC finds |
|---|---|
| `registry_deadlocks` | The poll of one ServerPoll daemon looks for work and holds `daemon_sessions`; that of another applies a terminal update and holds `sessions`. Each waits for the other, and `poll_all_daemons` never returns. |
| `reschedule_hangs` | A row's schedule is edited while a session is started from it. `update_discovery` finds a changed schedule, removes the job and waits for `job_ids.write()` while its own `if let` still holds a read guard. |

### 3.1 Further counterexamples

These configurations are kept for the reader; each violates its property
(`tlc -config X.cfg M`).

| Configuration, module | Property | What happens |
|---|---|---|
| `LostAnswerBlocksQueue`, `MCDiscoverySystem` | `EverySessionLeaves` | The session is `Starting` before the answer is sent. If it is lost, the session has neither a `session_last_updated` entry nor `started_at`, is never stalled, cannot be cancelled ("Please try again in a moment", `server/discovery/service.rs:864`) and blocks its daemon's queue until a restart. |
| `CancelBlocksQueue`, same | `EverySessionLeaves` | No fault. A cancel reads `Pending`; the session is dispatched and reports; the cancel removes it. Its successor is dispatched to the busy daemon, dropped there, and stays `Starting`. |
| `ScannedAgain`, same | `ScannedOnce` | No fault. After such a race two sessions are under way, and the end of one puts the other back to `Pending`; `server/daemons/service.rs:838`: "to prevent it from being dispatched again". |
| `CancelMisfires`, same | `CancelHitsTarget` | No fault. The flag is set after its session has ended and cancels the next one; the pull at `server/discovery/service.rs:723` is there "so it doesn't cancel upcoming sessions". |
| `SweepRacesUpdate`, same | `SweptWasStalled` | The clean-up removes a session as stalled whose update arrived between its first and its third pass. |
| `DockerMergeRace`, `MCEntityBuffer` | `ReturnedIsStored` | No fault. A container merged into a host entry after the server's fetch is confirmed with the entry, its call returns, and it is never sent. |
| `AbortedScanStays`, `MCServerPollSystem` | `ReportedLeaves` | A Docker scan that ends by its error leaves `current_session`; `get_progress` reports it as scanning at every poll, and it is never stalled. |
| `WebhooksOverlap`, `MCBilling` | `PlanIsSubscribed` | Two webhooks at once: the later write restores the row the other has replaced. |
| `RowOverwritten`, `MCBilling` | `PlanIsSubscribed` | One webhook at a time: the onboarding subscriber (`server/organizations/subscriber.rs:27`) writes back the row it read before the webhook's write. |
| `UnpaidStays`, `MCBilling` | `UnpaidIsReplaced` | A trial ends unpaid and its owner checks out again. The duplicates are the Active and Trialing ones (`server/billing/service.rs:1013`), so the old subscription stays; "the old subscription still exists. Clean it up" (`:1006`). |
| `TrialForgotten`, `MCBilling` | `TrialIsRemembered` | A subscription without a trial overwrites `trial_end_date` (`server/billing/service.rs:991`), and a second trial is offered. |
| `UpdateNotShown`, `MCTopologyStaleness` | `StoredIsShown` | Of equal pending events the first is kept, with the row as it was then. |
| `OrphansShared`, `MCServiceBindings` | `NoSharedPort` | A service of a report is dropped for one port; another of its ports goes to "Open Ports" and, as it was not counted as taken, to a later service as well (`server/hosts/service.rs:757`). |
| `UpsertUnlocked`, `MCServiceBindings` | `UpsertIsExclusive` | `upsert_service` "assumes the caller already holds the service lock" (`server/services/service.rs:879`); the caller holds that of another id. |
| `HalfConsolidated`, `MCHosts` | `BindingsAtHome` | A consolidation fails at a service after it has moved interfaces: services left behind are bound to interfaces of the other host. |

### 3.2 Bounds

*Sessions and daemons.* The queue's operations tell apart a session, its successor
at the head and the rest; two sessions give every race between neighbours, three
give the calm run a rest. Daemons share nothing but the clean-up task and the
locks, so one is enough; the proofs cover any number. *Handlers.* Two at a time is what it
takes for one to act between two sections of another; the proofs cover any number.
Sessions and handlers are symmetric in `registry`, where no property is a
liveness property. *Time* is the three values of `fresh`: the code only compares an age with the
threshold. *Ids.* A session id is drawn once, as a `Uuid::new_v4` is. *Scans* are counted up to two.
The fault runs of the joined systems use one session: a fault hits one session's
exchange, and the state grows steeply with the second. With two sessions
`LeavesUnlessAbandoned` was checked besides under halves of the faults: lost
pushes, failing and aborted scans, server restarts (308,532 states), and lost
and slow polls, unreachability, daemon restarts (283,068). `faults` has one poll
handler; overlapping polls are in `registry` and in the proofs. `ServerPoll` is
empty in `registry`; the branch of `PollReply` it decides is taken in `server_poll`.

*Schedule.* Two rows show that one row's steps leave the other alone; a third
job is free while both have one. *Topology.* One host and one topology are what
the flag relates; a second pending event lets events meet. *Hosts.* Two hosts
and two addresses give every overlap; three interface rows let both hosts have
one address and one of them the other. *Services.* The reports of `MCServiceBindings` are
chosen so that services conflict with stored ones, with earlier and with later
ones of their report, and leave orphans. *Billing.* Three subscriptions are a
first, its replacement and a third that meets both; the proof of
`OneSubscription` covers any number of subscriptions, handlers and checkouts.

`hosts`, `services` and `billing` handle requests one at a time, with stops,
deletions and failures between their steps: requests that overlap break some of
what these runs check, as sections 3.1 and 4 and the hazards in `PROJECT.json`
say. What holds nevertheless for any number at once is proved so: section 4 gives
the hypothesis of each theorem.

### 3.3 Deadlock and fairness

Deadlock checking is on in every passing run but `services`, where the ids run
out: daemons go on asking for work, the poll cycle goes round, Stripe renews.

`DiscoverySystem!Fairness`: handlers, polls, discovery tasks, responses and the
clean-up are weakly fair, as tasks of a multithreaded tokio runtime and the
periodic loops in `bin/server.rs` and `daemon/runtime/service.rs` are. An update that is under way
arrives, unless a fault takes it. Time passes for a session that no task
reports on. `FinishTask` is strongly fair: a scan gets to its end however often
it is interrupted for a report, each of which blocks the task for a while. No
fault, user action or ageing of a session that is being reported is fair.

`ServerPollSystem!Fairness`: tasks, cancellations and clean-ups are weakly fair,
and time passes for a session nothing reports. The polling loop is strongly
fair, and so is the poll that gets an answer: a daemon that is polled again and
again answers some time. A daemon that stays unreachable is covered by the
clean-up. A push of work is answered or given up (weak fairness of the two
together): `send_discovery_request_to_daemon` makes six attempts.

`EntityBuffer!BufferFairSpec`: the poll cycle and the 100 ms polling of the waiting
calls are weakly fair. `CallsRecover` speaks of behaviours whose faults stop.
`DiscoverySchedule!FairSpec` and `TopologyStaleness!FairSpec`: requests, workers,
the start of the server and the handling of batches are weakly fair.

## 4. Proofs

### 4.1 `DiscoveryServiceProofs`

For any sets of sessions, daemons and handlers, any `Owner` from sessions to daemons and any set
of `ServerPoll` daemons (`OwnerAssumption`, `ModeAssumption`, `NullAssumption`):

* `Invariance`: `SSpec => []IInv`;
* `TypeCorrect`, `NothingStranded`, `QueuedOnce`, `GhostsNeverServed`,
  `StallCoverage`, `HistoryIsEarned`: the properties `TypeOK`,
  `TrackedIsQueued`, `NoDuplicates`, `GhostsStayDead`, `ReportedIsTimed`,
  `RecordedWasHanded`;
* `WaitingSafe`: the action property `WaitingIsSafe`;
* `Implements`: `SSpec => KeepsPromise`. The registry implements
  `SessionLifecycle` under the mapping `Life`: initial states map to initial
  states, and every step to a step or a stutter (`HandleImplements`,
  `ReceiveImplements`, `SweepImplements`, `RestartImplements`).

None of the properties is inductive alone, and `IInv` adds what they lack:

* `LocalsSet`: a handler at a position has the locals that position uses;
* `QueueOwned`: ids are queued for their owner. Without it, `Retain` on the
  owner's queue would not take an id out of every queue;
* `StartIsPrivate`: between its two sections, the id of a `start_session` call
  is in no queue, not handed out, and in the hands of no other handler but a cancel. That
  is why the second section's unconditional push makes no duplicate;
* `InUseIsIssued`: an id in use has been drawn. So a fresh one is in no map;
* `TimedWasHanded`: only ids that were handed out have a `session_last_updated`
  entry, hence only those can be found stalled. `RecordedWasHanded` rests on it;
* `GhostsStayDead` is needed for `NoDuplicates`: an id left in the queue by a cancel inside
  `start_session` must never be auto-created, for that would push it again. Such an id was never handed
  out, so no update can name it.

`PushLemma` and `RetainLemma` say what appending to and removing from a queue
without duplicates do to its elements and its injectivity. There is one lemma
per action, and `NextIInv` puts them together. `QueueLemma` and
`MemberLemma` carry what is common to the actions that change a queue.

Both joined systems change the registry through `DiscoveryService`'s own actions,
so all of this holds of a registry with DaemonPoll and with ServerPoll daemons.

### 4.2 `ServerPollProofs`

*The polled system*, for any sets of sessions, daemons and handlers, under all
nine faults and cancels (`PollerAssumption`: each daemon's poll has a handler
of its own):

* `PollInvariance`: `Spec => []PollInv`, where `PollInv` is the registry's
  `IInv`, `PollTypeOK`, that a task and work under way have a session
  (`TasksHaveSessions`), and `OnlyHanded`: what is to be initiated, runs, is shown
  by `get_progress` or has been served was taken from the queue;
* `PollTyped` (`PollTypeOK`), and `PolledWasHanded` for `OnlyHanded` itself. The
  registry accepts updates of handed-out sessions only.

Under `Calm` (no cancels, and none of `unreachable`, `initiate_lost`, `slow_poll`,
`server_restart`; polls may be lost, preparations and scans fail and daemons
restart): `CalmInvariance`, and from it

* `PolledOneActive`: a daemon has at most one active session, although
  `get_pending_work` checks, selects and starts in three lock sections;
* `InitiateFindsFree`: when `poll_daemon` posts a session its daemon runs none, so
  that `try_initiate_session` refuses nothing. A refused session would
  stay `Starting`;
* `HandedOnce`: no session is taken from the queue twice. `UpdateTerminal` puts
  the head of the queue back to `Pending`; that it never does so to a session that
  has been handed out is what the theorem rests on.

`CalmInv` has five parts for each daemon: the loop and its place in
`get_pending_work` (`LoopAt`), the stage of the task and what `get_progress` goes by
(`TaskAt`), that whatever the daemon holds or has served is active and has been
heard of lately or not at all (`HeldAt`), that nothing is left on the daemon when
a session is reported as ended or one is sent (`FreeAt`), and that no session of the daemon is
active between the sections (`PollAt`). A step of one daemon or of a user spares the
others (`SparedAt`, `CalmKept`). TLC checked the invariant on 27,226 states
(three sessions, one daemon) and 317,272 (two daemons), and refutes `OneActive`,
`InitiateIsAccepted` and the claim of `HandedOnce` under each of the four faults alone and under
cancellation alone: no fault can be added to `Calm`.

*The entity buffer*: `BufferTyped` holds without assumptions. Under
`IsInjective(HostOf)`, one `create_host` call per host id, and for any set of faults:
`BufferInvariance` (`BufferSpec => []BufferInv`), `ReturnedStored` and
`WaitingBuffered`. The assumption cannot be dropped: `DockerMergeRace` is a
counterexample without it. `BufferInv` adds that entries and batches hold their
own host's requests (`OwnRequests`), that a confirmation, applied or under way,
is of something stored (`ConfirmedIsStored`), and that no call waits while the
maps are being cleared (`ClosingIsQuiet`).

### 4.3 `DiscoverySystemProofs`

For any sets of sessions, daemons and handlers, under all ten faults and cancels:

* `SystemInvariance`: `Spec => []SystemInv`, where `SystemInv` is the registry's
  `IInv`, the types of daemons and messages, and `OnlyHanded`: what an answer
  carries, a daemon runs, posts or has posted late was handed out;
* `SystemTyped`, and `ReportsAreOfHanded` for `OnlyHanded` itself. The registry
  accepts updates of handed-out sessions only, and this is what `OnlyHanded` is
  needed for.

Under `Mild` (no cancels, and none of `post_late`, `slow_scan` and
`server_restart`; the other seven faults may happen): `OnceInvariance`, and from it
`NoSecondScan` (`ScannedOnce`) and, without `overtaking`, `NoWorkDropped`
(`WorkIsTaken`). Polls time out and daemons restart here, so a daemon may have
several active sessions, and handlers it has given up still take sessions out
of `Pending`. `OnceInv` says of each daemon:

* the handler it waits for, or the answer on its way, brings a session that was
  never scanned and is `Starting` once it is chosen (`AskAt`, `AnswerAt`);
* while work may be coming, the daemon has nothing that the server has not seen
  the end of; and while work may be coming or it has such a task, no session of
  its own that was scanned is tracked, but the one it works on (`QuietAt`);
* the stage of its task, the phase of the session and the number of its scans
  agree, and the session is not found stalled (`JobAt`).

The second is the heart of it. `update_session` puts another session of the daemon
back to `Pending`, active or not, and only a session that was never scanned is
left to be put back.

Under `Tame` (`Mild`, and neither `poll_timeout` nor `daemon_restart`):
`TameInvariance` and `OneActiveSession` (`OneActive`). This is wider than the
fault-free run `calm`. `TameInv` describes one exchange from end to end: a
work request has one handler; between its sections no session of the daemon is
active (`Choosing`, `Chosen`); the session it hands out is `Starting`, untimed
and new, and the daemon has nothing that the server has not seen the end of
(`Replying`, `Answered`, `Free`); the stage of a task and the phase of its
session agree (`Working`); only sessions that reported can be found stalled.

TLC was asked about each fault alone, with two or three sessions. `OneActive` is
violated by `poll_timeout`, `post_late`, `slow_scan`, either restart, or a
cancel; `ScannedOnce` by `post_late`, `slow_scan`, `server_restart` or a
cancel; `WorkIsTaken` by `overtaking`, `slow_scan`, `server_restart` or a
cancel. So no fault can be added to the hypotheses of `OneActiveSession` and
`NoSecondScan`. `WorkIsTaken` holds on the instance also with `post_late`,
which `NoWorkDropped` does not cover.

### 4.4 `DiscoveryScheduleProofs`

For any number of requests, also before the scheduler has started, and whether
removals fail or not: `ScheduleTyped`, `DeletedRowsStay` (`DeletedStays`: no job,
request, conversion or restart brings a deleted row back), and `OwnJobsOnly`: a
job leaves a running scheduler only through a request for its own discovery.
For the last, `JobsAreNamed` says that a job about to be inserted is its worker's
alone and in nobody's entry of `job_ids`, so that an insertion which another
overtakes never leads from one discovery to the job of another.

`OneJob` and `JobsFollowRows` are only model-checked: they hold of one request
at a time after the start of the scheduler, which the code does not enforce. With
two requests, or an early one, TLC finds a row with two jobs.

### 4.5 `HostsProofs`

`HostsTyped` for any number of requests. Under `OneRequest` and with a stop
anywhere: `HostsInvariance`, `AddressesAreKept` (`AddressesKept`),
`TwinsOnlyReported` (`TwinsAreReported`). With two requests TLC violates both, and
`DaemonKeepsHost`, which is only model-checked: the match and the insertion are
apart, and so are the check and the deletion it allows.

`HostsInv` adds the foreign keys (`RowsHaveHosts`), that a host has one interface
at an address (`AddressesDiffer`), that the host a report goes to was
found by an address or is the only one with those to be stored (`ReportsMatch`), that what a
consolidation has read is still so (`ReadStays`), and that what the host it
will delete has, the destination has or will be given (`OtherIsCovered`):
that is what makes the final deletion lose nothing.

### 4.6 `ServiceBindingsProofs`

For any number of reports, edits and deletions at once: `ServicesTyped`,
`BindingsInvariance` and `ServicesAreConsistent` (`SelfConsistent`). Nothing
checks the result of a merge or what "Open Ports" is given; `BindingsInv` says why
they are right nevertheless. A service of a report binds ports or interfaces, never
both (`ReportAssumption`, as the daemon makes them; `RestOfReport`), so what is
dropped is ports (`OrphansArePorts`); what is about to be written is consistent
(`WorkConsistent`).

`NamedApart` is only model-checked: two reports that overlap each check against
rows the other has yet to write.

### 4.7 `BillingProofs`

For any number of subscriptions, handlers and open checkouts and every fault
(failure half-way, repetition, reordering, overwritten rows): `WebhookInvariance`,
`BillingTyped`, `SubscriptionInvariance` and `NoDoubleSubscription`
(`OneSubscription`). The argument: of two live subscriptions one has a webhook that
is not acknowledged before the other is cancelled (`DuplicatesGo`), and when none
is left the deletion of the last is not acknowledged before a Free one has
replaced it (`OneComes`). A subscription that falls behind and recovers brings
a webhook of its own, which cancels what was bought meanwhile or is cancelled by
it. Acknowledgement after the work is all it needs, so overlap and repetition do no harm.

`PlanIsSubscribed` and `StandbyFollowsPlan` are only model-checked, with webhooks
handled one at a time and in order, which neither axum nor Stripe guarantees:
`WebhooksOverlap` and `RowOverwritten` are counterexamples without.

### 4.8 `TopologyStalenessProofs`

For any number of hosts, shapes, topologies, writers and routes: `TypeInvariance`,
`TopologyTyped`, `StaleInvariance` and `NothingIsMissed` (`NothingMissed`).
`StaleInv` adds that the requests' locals fit (`WorkFits`), that the copies of
the topology service are there only between its read and its writes
(`CopiesFit`), and `RebuildsFollowed`: the hosts a route has read for a
rebuild are the ones there are, or an event that will mark its topology comes after it.

The exceptions are those of `missed`, and the proof showed one of them to be too
narrow. `delete_many` publishes before it deletes, and the event has to be
pending still when the row goes. Another pending event of the host, as that of a
renaming, does not mark anything, and does not do instead: `WriteHost` counts such a
deletion as late, where it took any event of the host before. TLC had a
counterexample with two writers, which no instance with one shows.

### 4.9 Only model-checked

* Liveness, which is out of the prover's reach: `EverySessionLeaves`,
  `ReportedLeaves`, `LeavesUnlessAbandoned`, `CallsRecover`, `StaleIsMarked`.
* `OneJob`, `JobsFollowRows`, `DaemonKeepsHost`, `NamedApart`, `PlanIsSubscribed` and
  `StandbyFollowsPlan`, which hold of requests or webhooks one after another.
* The two violated properties and the counterexamples of 3.1.

The inductive invariants were checked by TLC before they were proved, the
largest on 41,177 states (`TameInv`), 317,272 (`CalmInv`), 687,592 (`OnceInv`),
2,094,044 (`PollInv`) and up to 7,097,435 (`StaleInv`, with two writers, two
routes or two shapes).

## 5. Observations

Met while modelling; where a configuration shows one, it is named.

* A cancellation pushed to a ServerPoll daemon does not name a session and stops
  whatever runs. The end of a cancelled session publishes one more
  (`server/discovery/service.rs:694`), which may meet the next task; so does the
  stall clean-up.
* A subscription that is out of payment when its owner buys another one stays
  (`UnpaidStays`); only its recovery removes one of the two.
* `daemon/runtime/state.rs:139` says the terminal payload "persists until a new
  session starts" and `:183` that it is cleared "after the server has
  acknowledged it"; it is cleared when it is served. The clean-up ends
  such a session after five minutes (`server_poll`).
* `start_session` publishes its event with phase `Pending`, and the subscriber
  selects `Started` and `Cancelled` (`server/discovery/service.rs:618`).
* Edits of a schedule through the API do not reach the scheduler until the
  server restarts. `Discovery::disable` assigns to a copy. `delete_discovery` has
  no caller. A job that fires stores the row it captured and so undoes edits and
  the conversion by billing.
* Requests served before `start_scheduler` can give a row two jobs
  (`DiscoverySchedule.cfg` with `EarlyRequests = TRUE`), and so can a removal that
  the scheduler refuses (with `RemoveFails = TRUE`; `server/discovery/service.rs:296`).
* `delete_many` publishes before it deletes. A new topology clears the
  stale flags of all topologies of its network. "Only refresh entity arrays if
  there are no pending removals" looks at the current batch only.
* The partition of a report leaves out the stored bindings of the incoming id
  only, and a daemon draws a new id for every scan: a service found again on a
  port it has conflicts with its own row, is dropped, and its other bindings go
  to "Open Ports". It is merged only if it is found on other ports.
* Two consolidations in opposite directions wait for each other's lock. A report
  that was matched before a consolidation can recreate the host it deleted.
* axum drops a handler whose client disconnects, also between two sections of
  `start_session`.

## 6. Not modelled

* *Web UI*, about a third of the repository: a client of the API.
* *Scanners*, `daemon/utils`, the bodies of the discovery services: I/O against real
  networks. The life of the task that runs them is modelled.
* *Service definitions and patterns*: declarative data without state.
* *Layout and planner of topologies*: pure computation over large data, whose
  results have no specification but their look.
* *Authentication, permissions, API keys*: checks local to a request.
* *Organizations, users, invites, tags, groups, subnets, shares, networks*: CRUD
  over the database. `demo_data.rs` is data.
* *SQL generation, mail, Brevo, PostHog, GitHub, metrics*: calls whose results
  change no modelled state.
* Of modelled parts: fields of a daemon's row that only pages show, host limits,
  SNMP and LLDP data, invoices, add-on prices, trial mails.

The map therefore covers the stateful core, not the bulk of the code.

## 7. Plan

1. `DiscoveryLocks`: operations that keep one global order of the locks exclude a
   circular wait.
2. A module of the daemon row under concurrent read-modify-write; the single
   use of an invite.
