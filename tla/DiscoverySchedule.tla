------------------------- MODULE DiscoverySchedule --------------------------
(***************************************************************************)
(* Discovery rows and the jobs of the scheduler                            *)
(* (backend/src/server/discovery/service.rs, handlers.rs; the generic CRUD *)
(* handlers and services of backend/src/server/shared; the conversion of   *)
(* billing/service.rs enforce_plan_restrictions; start-up in bin/server.rs)*)
(*                                                                         *)
(* A job keeps a copy of the row it was made from.  Only create_discovery, *)
(* called when a daemon registers, and start_scheduler, called when the    *)
(* server starts, make jobs for new rows; the routes of the API write the  *)
(* table through the generic service and leave the scheduler alone.        *)
(* update_discovery, the one operation that replaces a job, is called only *)
(* by the route that starts a session, with the row that route has read.   *)
(*                                                                         *)
(* A row is told apart by its run type: last_run, the targets, names and   *)
(* tags are left out.  delete_discovery has no caller.                     *)
(***************************************************************************)
EXTENDS Naturals, FiniteSets

CONSTANTS
    Discovery,     \* ids of rows; an id is never used twice
    Cron,          \* cron expressions
    BadCron,       \* those the scheduler cannot parse
    DailyCron,     \* DAILY_MIDNIGHT_CRON, of the jobs a daemon starts with
    Job,           \* bound: ids of jobs in use at once
    Handler,       \* requests that may be in progress at once
    Boot,          \* the task that starts the server
    EarlyRequests, \* requests may arrive before start_scheduler has run
    RemoveFails,   \* the scheduler may refuse to remove a job
    NoJob, NotYet, Deleted

ASSUME CronAssumption == BadCron \subseteq Cron /\ DailyCron \in Cron \ BadCron
ASSUME BootAssumption == Boot \notin Handler
ASSUME EarlyAssumption == EarlyRequests \in BOOLEAN
ASSUME RemoveAssumption == RemoveFails \in BOOLEAN

Worker == Handler \cup {Boot}

(* RunType; a Historical row is never scheduled and never edited. *)
AdHoc == [run |-> "adhoc"]
Scheduled == [run : {"scheduled"}, cron : Cron, enabled : BOOLEAN]
Row == {AdHoc} \cup Scheduled
Entry == [disc : Discovery, row : Row]
Absent == {NotYet, Deleted}

ASSUME AbsentAssumption ==
    /\ NotYet # Deleted
    /\ Absent \cap Row = {}
    /\ NotYet \notin Discovery
    /\ NoJob \notin Job \cup Entry

VARIABLES
    rows,       \* the discovery table
    allowed,    \* the plan has the feature scheduled_discovery
    converting, \* the rows enforce_plan_restrictions still has to convert
    jobs,       \* the scheduler's jobs: the row each one captured
    job_ids,    \* the job of a discovery, as the service remembers it
    firing,     \* captured rows of jobs that started a session
    phase,      \* of the server's start
    loaded,     \* rows start_scheduler read and has not scheduled
    at,         \* a worker's position
    hold,       \* the row a worker works on
    mine,       \* the job it has just added
    edited      \* history: written by the API or billing since last scheduled

table == <<rows, allowed, converting>>
scheduler == <<jobs, job_ids, firing>>
server == <<phase, loaded>>
workers == <<at, hold, mine>>
vars == <<table, scheduler, server, workers, edited>>

NoEntry == [disc |-> NotYet, row |-> AdHoc]

ScheduleTypeOK ==
    /\ rows \in [Discovery -> Row \cup Absent]
    /\ allowed \in BOOLEAN
    /\ converting \subseteq Discovery
    /\ jobs \in [Job -> Entry \cup {NoJob}]
    /\ job_ids \in [Discovery -> Job \cup {NoJob}]
    /\ firing \subseteq Entry
    /\ phase \in {"serving", "loading", "running"}
    /\ loaded \subseteq Entry
    /\ at \in [Worker -> {"idle", "compare", "remove", "write",
                          "schedule", "insert", "stuck"}]
    /\ hold \in [Worker -> Entry \cup {NoEntry}]
    /\ mine \in [Worker -> Job \cup {NoJob}]
    /\ edited \subseteq Discovery

Init ==
    /\ rows = [d \in Discovery |-> NotYet]
    /\ allowed = TRUE
    /\ converting = {}
    /\ jobs = [j \in Job |-> NoJob]
    /\ job_ids = [d \in Discovery |-> NoJob]
    /\ firing = {}
    /\ phase = "serving"
    /\ loaded = {}
    /\ at = [w \in Worker |-> "idle"]
    /\ hold = [w \in Worker |-> NoEntry]
    /\ mine = [w \in Worker |-> NoJob]
    /\ edited = {}

-----------------------------------------------------------------------------
(* Mutant: an update that brings the row back. *)
StoredAlways(d, row) == [rows EXCEPT ![d] = row]

(* Storage: an UPDATE of a row that is gone changes nothing. *)
Stored(d, row) ==
    IF rows[d] \in Absent THEN rows ELSE [rows EXCEPT ![d] = row]

(* Mutant: the flag is lost. *)
DisableDrops(row) == [run |-> "scheduled", cron |-> row.cron]

(* Discovery::disable assigns to a copy of the flag. *)
Disable(row) == row

IsScheduled(row) == row \in Scheduled

(* What schedule_discovery and the scheduler accept. *)
CanSchedule(row) ==
    /\ IsScheduled(row)
    /\ row.enabled
    /\ row.cron \notin BadCron

(* update_discovery holds a read guard on job_ids while it waits to write. *)
JobIdsLocked == \E w \in Worker : at[w] = "stuck"

Free(j) == jobs[j] = NoJob /\ \A d \in Discovery : job_ids[d] # j

MayServe == phase = "running" \/ EarlyRequests

Go(w, label, entry) ==
    /\ at' = [at EXCEPT ![w] = label]
    /\ hold' = [hold EXCEPT ![w] = entry]

-----------------------------------------------------------------------------
(* The API: generic handlers on the table; Scheduled needs the plan. *)
CreateRow(d, row) ==
    /\ MayServe
    /\ rows[d] = NotYet
    /\ IsScheduled(row) => allowed
    /\ rows' = [rows EXCEPT ![d] = row]
    /\ edited' = edited \cup {d}
    /\ UNCHANGED <<allowed, converting, scheduler, server, workers>>

UpdateRow(d, row) ==
    /\ MayServe
    /\ rows[d] \notin Absent
    /\ IsScheduled(row) => allowed
    /\ rows' = [rows EXCEPT ![d] = row]
    /\ edited' = edited \cup {d}
    /\ UNCHANGED <<allowed, converting, scheduler, server, workers>>

DeleteRow(d) ==
    /\ MayServe
    /\ rows[d] \notin Absent
    /\ rows' = [rows EXCEPT ![d] = Deleted]
    /\ edited' = edited \cup {d}
    /\ UNCHANGED <<allowed, converting, scheduler, server, workers>>

(* create_default_discovery_jobs: create_discovery of one row. *)
CreateDefaultJob(h, d) ==
    LET row == IF allowed
               THEN [run |-> "scheduled", cron |-> DailyCron, enabled |-> TRUE]
               ELSE AdHoc
    IN  /\ MayServe
        /\ at[h] = "idle"
        /\ rows[d] = NotYet
        /\ rows' = [rows EXCEPT ![d] = row]
        /\ IF IsScheduled(row)
           THEN Go(h, "schedule", [disc |-> d, row |-> row])
           ELSE UNCHANGED <<at, hold>>
        /\ UNCHANGED <<allowed, converting, scheduler, server, mine, edited>>

(* Start a session by hand: read the row, start, then update_discovery. *)
StartSession(h, d) ==
    /\ MayServe
    /\ at[h] = "idle"
    /\ rows[d] \notin Absent
    /\ Go(h, "compare", [disc |-> d, row |-> rows[d]])
    /\ UNCHANGED <<table, scheduler, server, mine, edited>>

(* update_discovery compares the schedule it is given with the table's. *)
NeedsReschedule(current, row) ==
    /\ IsScheduled(current)
    /\ IsScheduled(row)
    /\ current.cron # row.cron

Compare(h) ==
    LET e == hold[h]
        current == rows[e.disc]
    IN  /\ at[h] = "compare"
        /\ IF current \notin Absent /\ NeedsReschedule(current, e.row)
           THEN /\ Go(h, "remove", e)
                /\ UNCHANGED rows
           ELSE /\ Go(h, "idle", NoEntry)
                /\ rows' = Stored(e.disc, e.row)
        /\ UNCHANGED <<allowed, converting, scheduler, server, mine, edited>>

(* Mutant: the job is forgotten and stays with the scheduler. *)
RemoveJobKeeps(h) ==
    /\ at[h] = "remove"
    /\ ~JobIdsLocked
    /\ Go(h, "write", hold[h])
    /\ job_ids' = [job_ids EXCEPT ![hold[h].disc] = NoJob]
    /\ UNCHANGED <<table, jobs, firing, server, mine, edited>>

(* A job removed, it waits for a write lock behind its own guard; a removal *)
(* that fails is logged and the request goes on.                           *)
RemoveJob(h) ==
    LET job == job_ids[hold[h].disc]
    IN  /\ at[h] = "remove"
        /\ ~JobIdsLocked
        /\ \/ /\ job = NoJob \/ RemoveFails
              /\ Go(h, "write", hold[h])
              /\ UNCHANGED jobs
           \/ /\ job # NoJob
              /\ Go(h, "stuck", hold[h])
              /\ jobs' = [jobs EXCEPT ![job] = NoJob]
        /\ UNCHANGED <<table, job_ids, firing, server, mine, edited>>

WriteRow(h) ==
    /\ at[h] = "write"
    /\ rows' = Stored(hold[h].disc, hold[h].row)
    /\ Go(h, "schedule", hold[h])
    /\ UNCHANGED <<allowed, converting, scheduler, server, mine, edited>>

(* schedule_discovery: add the job, then remember its id; a row that it    *)
(* cannot schedule is written back "disabled".                             *)
Schedule(w) ==
    LET e == hold[w]
    IN  /\ at[w] = "schedule"
        /\ IF CanSchedule(e.row)
           THEN /\ \E j \in Job :
                     /\ Free(j)
                     /\ jobs' = [jobs EXCEPT ![j] = e]
                     /\ mine' = [mine EXCEPT ![w] = j]
                /\ Go(w, "insert", e)
                /\ UNCHANGED rows
           ELSE /\ rows' = Stored(e.disc, Disable(e.row))
                /\ Go(w, "idle", NoEntry)
                /\ UNCHANGED <<jobs, mine>>
        /\ UNCHANGED <<allowed, converting, job_ids, firing, server, edited>>

Insert(w) ==
    /\ at[w] = "insert"
    /\ ~JobIdsLocked
    /\ job_ids' = [job_ids EXCEPT ![hold[w].disc] = mine[w]]
    /\ mine' = [mine EXCEPT ![w] = NoJob]
    /\ Go(w, "idle", NoEntry)
    /\ UNCHANGED <<table, jobs, firing, server, edited>>

-----------------------------------------------------------------------------
(* A job runs: it starts a session from its copy, then stores the copy. *)
Fire(j) ==
    /\ phase = "running"
    /\ jobs[j] # NoJob
    /\ firing' = firing \cup {jobs[j]}
    /\ UNCHANGED <<table, jobs, job_ids, server, workers, edited>>

EndFire(e) ==
    /\ e \in firing
    /\ firing' = firing \ {e}
    /\ rows' = Stored(e.disc, e.row)
    /\ UNCHANGED <<allowed, converting, jobs, job_ids, server, workers, edited>>

(* start_session fails: nothing is stored. *)
FailFire(e) ==
    /\ e \in firing
    /\ firing' = firing \ {e}
    /\ UNCHANGED <<table, jobs, job_ids, server, workers, edited>>

-----------------------------------------------------------------------------
(* Billing: enforce_plan_restrictions reads the rows, converts them one by *)
(* one, and the plan is stored when it is done: at once without rows.      *)
BeginDowngrade ==
    /\ MayServe
    /\ allowed
    /\ converting = {}
    /\ converting' = {d \in Discovery : IsScheduled(rows[d])}
    /\ allowed' = (converting' # {})
    /\ UNCHANGED <<rows, scheduler, server, workers, edited>>

Convert(d) ==
    /\ d \in converting
    /\ rows' = Stored(d, AdHoc)
    /\ edited' = edited \cup {d}
    /\ converting' = converting \ {d}
    /\ allowed' = (converting' # {})
    /\ UNCHANGED <<scheduler, server, workers>>

Upgrade ==
    /\ MayServe
    /\ ~allowed
    /\ allowed' = TRUE
    /\ UNCHANGED <<rows, converting, scheduler, server, workers, edited>>

-----------------------------------------------------------------------------
(* Mutant: no row is loaded. *)
LoadNothing ==
    /\ phase = "serving"
    /\ phase' = "loading"
    /\ job_ids' = [d \in Discovery |-> NoJob]
    /\ UNCHANGED <<table, jobs, firing, loaded, workers, edited>>

(* The server starts: bin/server.rs serves requests, then start_scheduler. *)
LoadSchedule ==
    /\ phase = "serving"
    /\ ~JobIdsLocked
    /\ phase' = "loading"
    /\ job_ids' = [d \in Discovery |-> NoJob]
    /\ loaded' = {[disc |-> d, row |-> rows[d]] :
                     d \in {c \in Discovery :
                              IsScheduled(rows[c]) /\ rows[c].enabled}}
    /\ UNCHANGED <<table, jobs, firing, workers, edited>>

ScheduleNext(e) ==
    /\ phase = "loading"
    /\ at[Boot] = "idle"
    /\ e \in loaded
    /\ loaded' = loaded \ {e}
    /\ Go(Boot, "schedule", e)
    /\ UNCHANGED <<table, scheduler, phase, mine, edited>>

StartTicking ==
    /\ phase = "loading"
    /\ at[Boot] = "idle"
    /\ loaded = {}
    /\ phase' = "running"
    /\ UNCHANGED <<table, scheduler, loaded, workers, edited>>

Restart ==
    /\ phase = "running"
    /\ phase' = "serving"
    /\ jobs' = [j \in Job |-> NoJob]
    /\ job_ids' = [d \in Discovery |-> NoJob]
    /\ firing' = {}
    /\ converting' = {}
    /\ at' = [w \in Worker |-> "idle"]
    /\ hold' = [w \in Worker |-> NoEntry]
    /\ mine' = [w \in Worker |-> NoJob]
    /\ edited' = {}
    /\ UNCHANGED <<rows, allowed, loaded>>

-----------------------------------------------------------------------------
UserStep ==
    \E d \in Discovery :
        \/ \E row \in Row : CreateRow(d, row) \/ UpdateRow(d, row)
        \/ DeleteRow(d)

RequestStep(h) ==
    \/ Compare(h)
    \/ RemoveJob(h)
    \/ WriteRow(h)

WorkerStep(w) == Schedule(w) \/ Insert(w)

JobStep ==
    \/ \E j \in Job : Fire(j)
    \/ \E e \in firing : EndFire(e) \/ FailFire(e)

PlanStep ==
    \/ BeginDowngrade
    \/ \E d \in converting : Convert(d)
    \/ Upgrade

BootStep ==
    \/ LoadSchedule
    \/ \E e \in loaded : ScheduleNext(e)
    \/ StartTicking

Next ==
    \/ UserStep
    \/ \E h \in Handler, d \in Discovery :
          \/ CreateDefaultJob(h, d)
          \/ StartSession(h, d)
    \/ \E h \in Handler : RequestStep(h)
    \/ \E w \in Worker : WorkerStep(w)
    \/ JobStep
    \/ PlanStep
    \/ BootStep
    \/ Restart

Spec == Init /\ [][Next]_vars

(* tokio polls every task that can go on. *)
FairSpec ==
    /\ Spec
    /\ \A h \in Handler : WF_vars(RequestStep(h))
    /\ \A w \in Worker : WF_vars(WorkerStep(w))
    /\ WF_vars(BootStep)

-----------------------------------------------------------------------------
(* A discovery never has two jobs: a row is not scanned twice on every     *)
(* tick, and the job that job_ids names is the only one to remove.         *)
OneJob ==
    \A d \in Discovery :
        Cardinality({j \in Job : jobs[j] # NoJob /\ jobs[j].disc = d}) <= 1

(* Once the scheduler runs, a row that neither a route of the API nor the  *)
(* billing service has written since the server started has a job, with    *)
(* this very row, exactly when it can be scheduled: registrations and      *)
(* restarts schedule everything, and jobs and manual starts, which store   *)
(* copies of rows, do not bring the table and the scheduler apart.         *)
JobsFollowRows ==
    phase = "running" =>
        \A d \in Discovery \ edited :
            (\A w \in Worker : hold[w].disc = d => at[w] = "compare") =>
                {jobs[j].row : j \in {k \in Job : jobs[k] # NoJob
                                                 /\ jobs[k].disc = d}}
                  = IF rows[d] \in Absent THEN {}
                    ELSE {r \in {rows[d]} : CanSchedule(r)}

(* A deleted row stays deleted, whatever copies of it jobs, requests in    *)
(* progress and the start of the server still hold.                        *)
DeletedStays ==
    [][\A d \in Discovery : rows[d] = Deleted => rows'[d] = Deleted]_vars

(* A request that updates a discovery returns: update_discovery replaces   *)
(* the job of a row whose schedule has changed.                            *)
RequestsReturn ==
    \A h \in Handler : at[h] # "idle" ~> at[h] = "idle"
=============================================================================
