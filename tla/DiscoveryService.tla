-------------------------- MODULE DiscoveryService --------------------------
(***************************************************************************)
(* The server's discovery session registry                                 *)
(* (backend/src/server/discovery/service.rs) and the dispatcher that hands *)
(* queued sessions to daemons (backend/src/server/daemons/service.rs).     *)
(*                                                                         *)
(* The registry is four in-memory maps, each behind its own async RwLock.  *)
(* Request handlers run concurrently, and most operations take the locks   *)
(* one after the other, so the grain of this module is the lock section:   *)
(* one action per stretch of code between two awaits at which the maps can *)
(* change.  update_session keeps the sessions lock to its end and is one   *)
(* action; what can slip in while it runs (a push onto the queue, a pull   *)
(* of the flag) commutes with it.                                          *)
(*                                                                         *)
(* The environment is as bad as the transport allows: updates of a session *)
(* that was handed to a daemon arrive late, twice, out of order or never.  *)
(* Module DiscoverySystem closes this one with the daemon.                 *)
(***************************************************************************)
EXTENDS DiscoveryTypes, Naturals, Sequences, Functions

CONSTANTS
    Task,        \* request handlers that may be in flight at the same time
    Owner,       \* the daemon a session id is created for
    ServerPoll   \* the daemons the server polls; the others ask for work

ASSUME OwnerAssumption == Owner \in [Session -> Daemon]
ASSUME ModeAssumption == ServerPoll \subseteq Daemon

VARIABLES
    sessions,    \* sessions: the phase of a tracked session, else "none"; the
                 \*   terminal phases Complete, Failed and Cancelled never
                 \*   outlast the update_session call that stores them
    queue,       \* daemon_sessions: the ids queued for a daemon, in order
    cancelFlag,  \* daemon_pull_cancellations: the session to cancel, if any
    fresh,       \* session_last_updated: "unseen" (no entry), "recent", or
                 \*   "old" (beyond the stall threshold of 5 minutes)
    recorded,    \* the sessions with a historical row (in the database)
    issued,      \* ids start_session has drawn
    handed,      \* ids that have been returned to a daemon as work
    pc, sid, did,\* a handler's position, session and daemon
    cleanup,     \* position of the periodic cleanup_stalled_sessions task
    stalled,     \* its stalled_sessions
    toRequest    \* those whose cancellation it has yet to request

maps == <<sessions, queue, cancelFlag, fresh>>
task == <<pc, sid, did>>
sweep == <<cleanup, stalled, toRequest>>
svars == <<maps, recorded, issued, handed, task, sweep>>

Labels == {"idle", "start_push", "poll_select", "poll_transition",
           "poll_reply", "cancel_pending", "cancel_flag"}
Selecting == {"poll_transition", "poll_reply"}

TypeOK ==
    /\ sessions \in [Session -> {"none", "Pending"} \cup Active]
    /\ queue \in [Daemon -> Seq(Session)]
    /\ cancelFlag \in [Daemon -> Session \cup {NoSession}]
    /\ fresh \in [Session -> {"unseen", "recent", "old"}]
    /\ recorded \subseteq Session
    /\ issued \subseteq Session
    /\ handed \subseteq Session
    /\ pc \in [Task -> Labels]
    /\ sid \in [Task -> Session \cup {NoSession}]
    /\ did \in [Task -> Daemon \cup {NoDaemon}]
    /\ cleanup \in {"idle", "request", "sweep"}
    /\ stalled \subseteq Session
    /\ toRequest \subseteq Session

SInit ==
    /\ sessions = [s \in Session |-> "none"]
    /\ queue = [d \in Daemon |-> <<>>]
    /\ cancelFlag = [d \in Daemon |-> NoSession]
    /\ fresh = [s \in Session |-> "unseen"]
    /\ recorded = {}
    /\ issued = {}
    /\ handed = {}
    /\ pc = [t \in Task |-> "idle"]
    /\ sid = [t \in Task |-> NoSession]
    /\ did = [t \in Task |-> NoDaemon]
    /\ cleanup = "idle"
    /\ stalled = {}
    /\ toRequest = {}

-----------------------------------------------------------------------------
(* Helpers on the maps *)

Tracked(s) == sessions[s] # "none"

Queued(d) == Range(queue[d])

(***************************************************************************)
(* Vec::retain(|id| id != s).  Written for a queue that holds s at most    *)
(* once; NoDuplicates shows that every queue does.                         *)
(***************************************************************************)
Retain(q, s) ==
    IF s \notin Range(q) THEN q
    ELSE LET k == CHOOSE i \in 1 .. Len(q) : q[i] = s
         IN  [i \in 1 .. Len(q) - 1 |-> IF i < k THEN q[i] ELSE q[i + 1]]

(* Mutant: the head of the queue, without the filters. *)
IsHead(d, i) == i = 1 /\ queue[d] # <<>>

(* get_sessions_for_daemon(d).first(): position of the first Pending id *)
IsFirstPending(d, i) ==
    /\ i \in 1 .. Len(queue[d])
    /\ sessions[queue[d][i]] = "Pending"
    /\ \A j \in 1 .. i - 1 : sessions[queue[d][j]] # "Pending"

(* Mutant: a session that is only Starting does not count. *)
HasReportedSession(d) ==
    \E i \in 1 .. Len(queue[d]) : sessions[queue[d][i]] \in Reported

(* Mutant: a Pending session counts. *)
HasTrackedSession(d) ==
    \E i \in 1 .. Len(queue[d]) : Tracked(queue[d][i])

HasActiveSession(d) ==
    \E i \in 1 .. Len(queue[d]) : sessions[queue[d][i]] \in Active

(* A handler returns to the pool with its locals dropped. *)
Return(t) ==
    /\ pc' = [pc EXCEPT ![t] = "idle"]
    /\ sid' = [sid EXCEPT ![t] = NoSession]
    /\ did' = [did EXCEPT ![t] = NoDaemon]

Goto(t, label) == pc' = [pc EXCEPT ![t] = label]

(* Storing the historical row; a database error is logged and dropped. *)
Record(s) == recorded' \in {recorded, recorded \cup {s}}

-----------------------------------------------------------------------------
(* start_session *)

(* The payload enters the sessions map under its own lock ... *)
StartInsert(t, s) ==
    /\ pc[t] = "idle"
    /\ s \notin issued
    /\ issued' = issued \cup {s}
    /\ sessions' = [sessions EXCEPT ![s] = "Pending"]
    /\ sid' = [sid EXCEPT ![t] = s]
    /\ Goto(t, "start_push")
    /\ UNCHANGED <<queue, cancelFlag, fresh, recorded, handed, did, sweep>>

(***************************************************************************)
(* ... and its id the daemon's queue under another.  What follows is the   *)
(* publication of a discovery event in phase Pending, which no subscriber  *)
(* of the bus selects.                                                     *)
(***************************************************************************)
StartPush(t) ==
    /\ pc[t] = "start_push"
    /\ queue' = [queue EXCEPT ![Owner[sid[t]]] = Append(@, sid[t])]
    /\ Return(t)
    /\ UNCHANGED <<sessions, cancelFlag, fresh, recorded, issued, handed,
                   sweep>>

-----------------------------------------------------------------------------
(* get_pending_work, and the handlers that call it *)

PollCheckActive(t, d) ==
    /\ pc[t] = "idle"
    /\ did' = [did EXCEPT ![t] = d]
    /\ Goto(t, IF HasActiveSession(d) THEN "poll_reply" ELSE "poll_select")
    /\ UNCHANGED <<maps, recorded, issued, handed, sid, sweep>>

PollSelect(t) ==
    /\ pc[t] = "poll_select"
    /\ \/ \E i \in 1 .. Len(queue[did[t]]) :
             /\ IsFirstPending(did[t], i)
             /\ sid' = [sid EXCEPT ![t] = queue[did[t]][i]]
             /\ Goto(t, "poll_transition")
       \/ /\ \A i \in 1 .. Len(queue[did[t]]) :
                 sessions[queue[did[t]][i]] # "Pending"
          /\ Goto(t, "poll_reply")
          /\ UNCHANGED sid
    /\ UNCHANGED <<maps, recorded, issued, handed, did, sweep>>

(* Mutant: the session is returned and stays Pending. *)
PollNoTransition(t) ==
    /\ pc[t] = "poll_transition"
    /\ Goto(t, "poll_reply")
    /\ UNCHANGED <<maps, recorded, issued, handed, sid, did, sweep>>

(***************************************************************************)
(* transition_session_to_starting changes nothing when the session is gone *)
(* or no longer Pending; get_pending_work returns it all the same.         *)
(***************************************************************************)
PollTransition(t) ==
    /\ pc[t] = "poll_transition"
    /\ sessions' = IF sessions[sid[t]] = "Pending"
                   THEN [sessions EXCEPT ![sid[t]] = "Starting"] ELSE sessions
    /\ Goto(t, "poll_reply")
    /\ UNCHANGED <<queue, cancelFlag, fresh, recorded, issued, handed,
                   sid, did, sweep>>

(***************************************************************************)
(* receive_work_request also pulls the daemon's cancellation flag and      *)
(* answers with the work and a bare Boolean.  The polling loop of a        *)
(* ServerPoll daemon posts the work and never looks at the flag.           *)
(***************************************************************************)
PollReply(t) ==
    /\ pc[t] = "poll_reply"
    /\ handed' = handed \cup ({sid[t]} \ {NoSession})
    /\ cancelFlag' = IF did[t] \in ServerPoll THEN cancelFlag
                     ELSE [cancelFlag EXCEPT ![did[t]] = NoSession]
    /\ Return(t)
    /\ UNCHANGED <<sessions, queue, fresh, recorded, issued, sweep>>

-----------------------------------------------------------------------------
(* update_session applies an update of a daemon; the three terminal phases *)
(* are treated alike.                                                      *)

(* Mutants: the id is appended never, or always. *)
AutoQueueNever(s) == queue[Owner[s]]
AutoQueueAlways(s) == Append(queue[Owner[s]], s)

(* The queue update_session works on: an unknown session is appended. *)
AutoQueue(s) == IF Tracked(s) THEN queue[Owner[s]]
                ELSE Append(queue[Owner[s]], s)

UpdateProgress(s, phase) ==
    /\ s \in handed
    /\ phase \in Reported
    /\ fresh' = [fresh EXCEPT ![s] = "recent"]
    /\ queue' = [queue EXCEPT ![Owner[s]] = AutoQueue(s)]
    /\ sessions' = [sessions EXCEPT ![s] = phase]
    /\ UNCHANGED <<cancelFlag, recorded, issued, handed, task, sweep>>

(* A terminal update of a session that has been processed and removed. *)
Redundant(s) == ~Tracked(s) /\ fresh[s] # "unseen"

UpdateRedundant(s) ==
    /\ s \in handed
    /\ Redundant(s)
    /\ fresh' = [fresh EXCEPT ![s] = "recent"]
    /\ UNCHANGED <<sessions, queue, cancelFlag, recorded, issued, handed,
                   task, sweep>>

(***************************************************************************)
(* The daemon's flag is pulled, the row stored, the id retained out of the *)
(* queue; the new head, if tracked, is put (back) to Pending; the session  *)
(* leaves the map and its last_updated entry stays behind as a tombstone.  *)
(***************************************************************************)
UpdateTerminal(s) ==
    LET d == Owner[s]
        rest == Retain(AutoQueue(s), s)
        next == IF rest = <<>> THEN NoSession ELSE rest[1]
    IN  /\ s \in handed
        /\ ~Redundant(s)
        /\ fresh' = [fresh EXCEPT ![s] = "recent"]
        /\ cancelFlag' = [cancelFlag EXCEPT ![d] = NoSession]
        /\ Record(s)
        /\ queue' = [queue EXCEPT ![d] = rest]
        /\ sessions' = [x \in Session |->
                          IF x = s THEN "none"
                          ELSE IF x = next /\ Tracked(x) THEN "Pending"
                          ELSE sessions[x]]
        /\ UNCHANGED <<issued, handed, task, sweep>>

-----------------------------------------------------------------------------
(* cancel_session *)

(***************************************************************************)
(* The phase is read under one lock and acted upon under later ones.  For  *)
(* an unknown session and for one in phase Starting the call returns an    *)
(* error and changes nothing.                                              *)
(***************************************************************************)
CancelRead(t, s) ==
    /\ pc[t] = "idle"
    /\ sessions[s] \in {"Pending"} \cup Reported
    /\ sid' = [sid EXCEPT ![t] = s]
    /\ Goto(t, IF sessions[s] = "Pending" THEN "cancel_pending"
                                          ELSE "cancel_flag")
    /\ UNCHANGED <<maps, recorded, issued, handed, did, sweep>>

(* Mutant: the session keeps its entry, in a terminal phase. *)
CancelPendingKept(t) ==
    /\ pc[t] = "cancel_pending"
    /\ sessions' = [sessions EXCEPT ![sid[t]] = "Cancelled"]
    /\ queue' = [queue EXCEPT ![Owner[sid[t]]] = Retain(@, sid[t])]
    /\ Return(t)
    /\ UNCHANGED <<cancelFlag, fresh, recorded, issued, handed, sweep>>

(* Mutant: the daemon's whole queue is cancelled. *)
CancelPendingAll(t) ==
    /\ pc[t] = "cancel_pending"
    /\ sessions' = [s \in Session |-> IF Owner[s] = Owner[sid[t]]
                                      THEN "none" ELSE sessions[s]]
    /\ queue' = [queue EXCEPT ![Owner[sid[t]]] = <<>>]
    /\ Return(t)
    /\ UNCHANGED <<cancelFlag, fresh, recorded, issued, handed, sweep>>

CancelPending(t) ==
    /\ pc[t] = "cancel_pending"
    /\ sessions' = [sessions EXCEPT ![sid[t]] = "none"]
    /\ queue' = [queue EXCEPT ![Owner[sid[t]]] = Retain(@, sid[t])]
    /\ Return(t)
    /\ UNCHANGED <<cancelFlag, fresh, recorded, issued, handed, sweep>>

(* After the Cancelled event has been published (see DiscoverySystem). *)
CancelFlag(t) ==
    /\ pc[t] = "cancel_flag"
    /\ cancelFlag' = [cancelFlag EXCEPT ![Owner[sid[t]]] = sid[t]]
    /\ Return(t)
    /\ UNCHANGED <<sessions, queue, fresh, recorded, issued, handed, sweep>>

-----------------------------------------------------------------------------
(* cleanup_stalled_sessions, a single periodic task *)

(* Mutant: no last_updated entry counts as stalled. *)
IsStalledUnseen(s) == Tracked(s) /\ fresh[s] # "recent"

(* Mutant: only a session that reached Scanning is looked at. *)
IsStalledScanning(s) == sessions[s] = "Scanning" /\ fresh[s] = "old"

(* Mutant: only a session still in phase Started is looked at. *)
IsStalledStarted(s) == sessions[s] = "Started" /\ fresh[s] = "old"

(***************************************************************************)
(* Without a last_updated entry the code falls back on the payload's       *)
(* started_at, which only an update of the daemon sets and every update    *)
(* makes an entry: a tracked session without one has no started_at either. *)
(***************************************************************************)
IsStalled(s) == Tracked(s) /\ fresh[s] = "old"

CleanupScan ==
    /\ cleanup = "idle"
    /\ \E s \in Session : IsStalled(s)
    /\ stalled' = {s \in Session : IsStalled(s)}
    /\ toRequest' = stalled'
    /\ cleanup' = "request"
    /\ UNCHANGED <<maps, recorded, issued, handed, task>>

CleanupRequest(s) ==
    /\ cleanup = "request"
    /\ s \in toRequest
    /\ toRequest' = toRequest \ {s}
    /\ cancelFlag' = [cancelFlag EXCEPT ![Owner[s]] = s]
    /\ UNCHANGED <<sessions, queue, fresh, recorded, issued, handed, task,
                   cleanup, stalled>>

(* All four write locks are taken and kept to the end of the pass. *)
CleanupLock ==
    /\ cleanup = "request"
    /\ toRequest = {}
    /\ cleanup' = "sweep"
    /\ UNCHANGED <<maps, recorded, issued, handed, task, stalled, toRequest>>

CleanupSweep(s) ==
    /\ cleanup = "sweep"
    /\ s \in stalled
    /\ stalled' = stalled \ {s}
    /\ IF Tracked(s)
       THEN /\ sessions' = [sessions EXCEPT ![s] = "none"]
            /\ queue' = [queue EXCEPT ![Owner[s]] = Retain(@, s)]
            /\ fresh' = [fresh EXCEPT ![s] = "unseen"]
            /\ cancelFlag' = IF cancelFlag[Owner[s]] = s
                             THEN [cancelFlag EXCEPT ![Owner[s]] = NoSession]
                             ELSE cancelFlag
            /\ Record(s)
       ELSE UNCHANGED <<maps, recorded>>
    /\ UNCHANGED <<issued, handed, task, cleanup, toRequest>>

(* Mutant: whatever is beyond the threshold is evicted, tracked or not. *)
CleanupEvictAll ==
    /\ cleanup = "sweep"
    /\ stalled = {}
    /\ fresh' = [s \in Session |-> IF fresh[s] = "old" THEN "unseen"
                                   ELSE fresh[s]]
    /\ cleanup' = "idle"
    /\ UNCHANGED <<sessions, queue, cancelFlag, recorded, issued, handed, task,
                   stalled, toRequest>>

(* The pass ends by evicting the tombstones beyond the threshold. *)
CleanupEvict ==
    /\ cleanup = "sweep"
    /\ stalled = {}
    /\ fresh' = [s \in Session |-> IF ~Tracked(s) /\ fresh[s] = "old"
                                   THEN "unseen" ELSE fresh[s]]
    /\ cleanup' = "idle"
    /\ UNCHANGED <<sessions, queue, cancelFlag, recorded, issued, handed, task,
                   stalled, toRequest>>

-----------------------------------------------------------------------------
(* Time and restarts *)

(* Five minutes go by without an update of s. *)
Age(s) ==
    /\ fresh[s] = "recent"
    /\ fresh' = [fresh EXCEPT ![s] = "old"]
    /\ UNCHANGED <<sessions, queue, cancelFlag, recorded, issued, handed, task,
                   sweep>>

(* The server process restarts: only the database survives. *)
Restart ==
    /\ sessions' = [s \in Session |-> "none"]
    /\ queue' = [d \in Daemon |-> <<>>]
    /\ cancelFlag' = [d \in Daemon |-> NoSession]
    /\ fresh' = [s \in Session |-> "unseen"]
    /\ pc' = [t \in Task |-> "idle"]
    /\ sid' = [t \in Task |-> NoSession]
    /\ did' = [t \in Task |-> NoDaemon]
    /\ cleanup' = "idle"
    /\ stalled' = {}
    /\ toRequest' = {}
    /\ UNCHANGED <<recorded, issued, handed>>

-----------------------------------------------------------------------------
Handle(t) ==
    \/ \E s \in Session : StartInsert(t, s) \/ CancelRead(t, s)
    \/ \E d \in Daemon : PollCheckActive(t, d)
    \/ StartPush(t) \/ PollSelect(t) \/ PollTransition(t) \/ PollReply(t)
    \/ CancelPending(t) \/ CancelFlag(t)

Receive(s) ==
    \/ \E phase \in Reported : UpdateProgress(s, phase)
    \/ UpdateRedundant(s)
    \/ UpdateTerminal(s)

Cleanup ==
    \/ CleanupScan \/ CleanupLock
    \/ \E s \in Session : CleanupRequest(s)

Sweep ==
    \/ \E s \in Session : CleanupSweep(s)
    \/ CleanupEvict

(* While the sweep holds the four write locks nothing else can run. *)
SNext ==
    \/ /\ cleanup # "sweep"
       /\ \/ \E t \in Task : Handle(t)
          \/ \E s \in Session : Receive(s) \/ Age(s)
          \/ Cleanup
    \/ Sweep
    \/ Restart

SSpec == SInit /\ [][SNext]_svars

-----------------------------------------------------------------------------
(* Correctness *)

(***************************************************************************)
(* A tracked session is in its daemon's queue, or the start_session call   *)
(* that will push it is still running.  get_pending_work only ever looks   *)
(* at queued ids, so a session outside the queue would be shown to the     *)
(* user for ever and never be dispatched.                                  *)
(***************************************************************************)
TrackedIsQueued ==
    \A s \in Session : Tracked(s) =>
        \/ s \in Queued(Owner[s])
        \/ \E t \in Task : pc[t] = "start_push" /\ sid[t] = s

(***************************************************************************)
(* start_session and the auto-creation in update_session push without      *)
(* looking; no interleaving makes them queue one id twice, which would     *)
(* leave a copy behind wherever the code stops at the first match.         *)
(***************************************************************************)
NoDuplicates ==
    \A d \in Daemon : IsInjective(queue[d])

(***************************************************************************)
(* A session whose daemon has reported it running is covered by the stall  *)
(* detector: it has a last_updated entry, whatever was evicted, swept or   *)
(* recreated before.  Without one, IsStalled could never hold and the      *)
(* session would block its daemon's queue until the next restart.          *)
(***************************************************************************)
ReportedIsTimed ==
    \A s \in Session : sessions[s] \in Reported => fresh[s] # "unseen"

(***************************************************************************)
(* Only sessions some daemon was given get a historical row: the stall     *)
(* clean-up never takes a session that waits in the queue behind a long    *)
(* scan for a session that stopped reporting.                              *)
(***************************************************************************)
RecordedWasHanded ==
    \A s \in Session : s \in recorded => s \in handed

(***************************************************************************)
(* A queued id whose session is gone (a cancel that ran inside             *)
(* start_session) was never selected for a daemon: such an id cannot come  *)
(* back to life through a poll.                                            *)
(***************************************************************************)
GhostsStayDead ==
    \A s \in Session :
        s \in Queued(Owner[s]) /\ ~Tracked(s) =>
            /\ s \notin handed
            /\ \A t \in Task : pc[t] \in Selecting => sid[t] # s

(* How a Pending session that no daemon was given may change. *)
WaitingStep ==
    \A s \in Session :
        sessions[s] = "Pending" /\ s \notin handed /\ sessions'[s] # "Pending" =>
          \/ /\ sessions'[s] = "none"
             /\ \E t \in Task : pc[t] = "cancel_pending" /\ sid[t] = s
          \/ /\ sessions'[s] = "Starting"
             /\ \E t \in Task : pc[t] = "poll_transition" /\ sid[t] = s
          \/ Restart

(***************************************************************************)
(* A Pending session that no daemon has been given leaves the map only by  *)
(* a user's cancel or a restart, and never changes phase except to         *)
(* Starting, by the handler that is about to return it.                    *)
(***************************************************************************)
WaitingIsSafe == [][WaitingStep]_svars

(* A session's place in its life, as the maps show it. *)
Life ==
    [s \in Session |->
        IF s \notin issued THEN "unborn"
        ELSE IF s \in handed THEN IF Tracked(s) THEN "running" ELSE "over"
        ELSE IF Tracked(s) THEN "waiting" ELSE "withdrawn"]

Promise == INSTANCE SessionLifecycle WITH life <- Life, rows <- recorded

(***************************************************************************)
(* The registry implements SessionLifecycle: through all interleavings of  *)
(* lock sections, late updates, sweeps and restarts a withdrawn session    *)
(* never waits again, no operation on one session moves another, and rows  *)
(* are of dispatched sessions.                                             *)
(***************************************************************************)
KeepsPromise == Promise!Spec

-----------------------------------------------------------------------------
(* The inductive invariant behind the properties above *)

(* A handler's locals are set where its position needs them. *)
LocalsSet ==
    \A t \in Task :
        /\ pc[t] \in {"idle", "poll_select"} => sid[t] = NoSession
        /\ pc[t] \in {"start_push", "poll_transition", "cancel_pending",
                      "cancel_flag"} => sid[t] \in Session
        /\ pc[t] \in {"poll_select", "poll_transition", "poll_reply"} =>
               did[t] \in Daemon

(* Ids are queued for their owner only. *)
QueueOwned ==
    \A d \in Daemon : \A s \in Queued(d) : Owner[s] = d

(* The id of a start_session call in progress is known to nobody else. *)
StartIsPrivate ==
    \A t \in Task : pc[t] = "start_push" =>
        /\ sid[t] \notin handed
        /\ sid[t] \notin Queued(Owner[sid[t]])
        /\ \A u \in Task : u # t /\ sid[u] = sid[t] =>
               pc[u] \in {"cancel_pending", "cancel_flag"}

(* Every id in use has been drawn by start_session. *)
InUseIsIssued ==
    /\ handed \subseteq issued
    /\ \A s \in Session :
           Tracked(s) \/ s \in Queued(Owner[s]) => s \in issued
    /\ \A t \in Task : sid[t] # NoSession => sid[t] \in issued

(* The cleanup task times, and sweeps, sessions daemons were given. *)
TimedWasHanded ==
    /\ \A s \in Session : fresh[s] # "unseen" => s \in handed
    /\ stalled \subseteq handed

IInv ==
    /\ TypeOK
    /\ LocalsSet
    /\ QueueOwned
    /\ NoDuplicates
    /\ TrackedIsQueued
    /\ StartIsPrivate
    /\ InUseIsIssued
    /\ GhostsStayDead
    /\ TimedWasHanded
    /\ ReportedIsTimed
    /\ RecordedWasHanded
=============================================================================
