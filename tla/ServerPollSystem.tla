-------------------------- MODULE ServerPollSystem --------------------------
(***************************************************************************)
(* The session registry and daemons in ServerPoll mode: the server's       *)
(* polling loop (poll_daemon in backend/src/server/daemons/service.rs),    *)
(* the pushed cancellation (server/daemons/subscriber.rs), and on the      *)
(* daemon the handlers (daemon/shared/handlers.rs, discovery/handlers.rs), *)
(* the polled state (runtime/state.rs) and the discovery task.             *)
(*                                                                         *)
(* A ServerPoll daemon cannot reach the server: the updates its task       *)
(* POSTs fail, and the server learns of the session by polling only.       *)
(* get_from_daemon and post_to_daemon try a request up to six times and    *)
(* take an error answer for a failed attempt like a lost one.              *)
(***************************************************************************)
EXTENDS DiscoveryService

CONSTANTS
    Poller,      \* the handler in which poll_daemon runs get_pending_work
    Faults,      \* the faults that may happen, a subset of FaultKinds
    MayCancel,   \* users cancel sessions
    NoReport

FaultKinds == {"unreachable", "poll_lost", "initiate_lost", "cancel_lost",
               "prepare_fails", "scan_aborts", "slow_poll",
               "server_restart", "daemon_restart"}

ASSUME FaultAssumption == Faults \subseteq FaultKinds
ASSUME PollerAssumption ==
    /\ ServerPoll = Daemon
    /\ Poller \in [Daemon -> Task]
    /\ IsInjective(Poller)

UserTask == Task \ Range(Poller)

VARIABLES
    unreachable, \* is_unreachable of the daemon's row
    cycle,       \* where the polling loop is with the daemon
    got,         \* the progress it has been given, or NoReport
    work,        \* the session it is to initiate
    reached,     \* cancel calls whose POST has been answered well
    job,         \* the session of current_task while its handle is unfinished
    stage,       \* position of that task in discover()
    token,       \* its CancellationToken has been cancelled
    current,     \* current_session
    terminal     \* the session of terminal_payload

pvars == <<unreachable, cycle, got, work, reached>>
dvars == <<job, stage, token, current, terminal>>
vars == <<svars, pvars, dvars>>

Reports == [session : Session, phase : {"Scanning", "Ended"}]

ASSUME ReportAssumption == NoReport \notin Reports

PollTypeOK ==
    /\ TypeOK
    /\ unreachable \in [Daemon -> BOOLEAN]
    /\ cycle \in [Daemon -> {"idle", "progress", "apply", "work", "send"}]
    /\ got \in [Daemon -> Reports \cup {NoReport}]
    /\ work \in [Daemon -> Session \cup {NoSession}]
    /\ reached \subseteq Task
    /\ job \in [Daemon -> Session \cup {NoSession}]
    /\ stage \in [Daemon -> {"idle", "preparing", "scanning", "ending"}]
    /\ token \in [Daemon -> BOOLEAN]
    /\ current \in [Daemon -> Session \cup {NoSession}]
    /\ terminal \in [Daemon -> Session \cup {NoSession}]

DaemonInit ==
    /\ job = [d \in Daemon |-> NoSession]
    /\ stage = [d \in Daemon |-> "idle"]
    /\ token = [d \in Daemon |-> FALSE]
    /\ current = [d \in Daemon |-> NoSession]
    /\ terminal = [d \in Daemon |-> NoSession]

Init ==
    /\ SInit
    /\ unreachable = [d \in Daemon |-> FALSE]
    /\ cycle = [d \in Daemon |-> "idle"]
    /\ got = [d \in Daemon |-> NoReport]
    /\ work = [d \in Daemon |-> NoSession]
    /\ reached = {}
    /\ DaemonInit

-----------------------------------------------------------------------------
(* The daemon *)

IsRunning(d) == job[d] # NoSession

(* cancel_current_session: whatever runs is told to stop, no other daemon. *)
SignalTask(d) ==
    /\ IsRunning(d)
    /\ token' = [token EXCEPT ![d] = TRUE]
    /\ UNCHANGED <<job, stage, current, terminal>>

EndTask(d) ==
    /\ job' = [job EXCEPT ![d] = NoSession]
    /\ stage' = [stage EXCEPT ![d] = "idle"]
    /\ token' = [token EXCEPT ![d] = FALSE]

(* initialize_discovery_session drops the last terminal payload. *)
StartDiscovery(d) ==
    /\ stage[d] = "preparing"
    /\ stage' = [stage EXCEPT ![d] = "scanning"]
    /\ terminal' = [terminal EXCEPT ![d] = NoSession]
    /\ current' = [current EXCEPT ![d] = job[d]]
    /\ UNCHANGED <<svars, pvars, job, token>>

PrepareFails(d) ==
    /\ "prepare_fails" \in Faults
    /\ stage[d] = "preparing"
    /\ EndTask(d)
    /\ UNCHANGED <<svars, pvars, current, terminal>>

(* finish_discovery stores the terminal payload, clears the buffer ... *)
FinishDiscovery(d) ==
    /\ stage[d] = "scanning"
    /\ stage' = [stage EXCEPT ![d] = "ending"]
    /\ terminal' = [terminal EXCEPT ![d] = job[d]]
    /\ UNCHANGED <<svars, pvars, job, token, current>>

(* ... and then the current session, if it is still its own. *)
CloseSession(d) ==
    /\ stage[d] = "ending"
    /\ current' = [current EXCEPT ![d] = IF @ = job[d] THEN NoSession ELSE @]
    /\ EndTask(d)
    /\ UNCHANGED <<svars, pvars, terminal>>

(***************************************************************************)
(* Docker discovery leaves discover by its error before finish_discovery:  *)
(* the task ends and current_session stays.                                *)
(***************************************************************************)
AbortDiscovery(d) ==
    /\ "scan_aborts" \in Faults
    /\ stage[d] = "scanning"
    /\ EndTask(d)
    /\ UNCHANGED <<svars, pvars, current, terminal>>

DaemonRestart(d) ==
    /\ "daemon_restart" \in Faults
    /\ EndTask(d)
    /\ current' = [current EXCEPT ![d] = NoSession]
    /\ terminal' = [terminal EXCEPT ![d] = NoSession]
    /\ UNCHANGED <<svars, pvars>>

(* get_progress: the active session before the terminal payload. *)
Progress(d) ==
    IF current[d] # NoSession
    THEN [session |-> current[d], phase |-> "Scanning"]
    ELSE IF terminal[d] # NoSession
    THEN [session |-> terminal[d], phase |-> "Ended"]
    ELSE NoReport

-----------------------------------------------------------------------------
(* The polling loop *)

Step(d, label) == cycle' = [cycle EXCEPT ![d] = label]

(* poll_daemon begins with the status. *)
PollStatus(d) ==
    /\ cycle[d] = "idle"
    /\ ~unreachable[d]
    /\ Step(d, "progress")
    /\ UNCHANGED <<svars, dvars, unreachable, got, work, reached>>

(* No attempt got an answer; the loop leaves the daemon alone from now on. *)
MarkUnreachable(d) ==
    /\ "unreachable" \in Faults
    /\ cycle[d] = "idle"
    /\ unreachable' = [unreachable EXCEPT ![d] = TRUE]
    /\ UNCHANGED <<svars, dvars, cycle, got, work, reached>>

RetryConnection(d) ==
    /\ unreachable[d]
    /\ unreachable' = [unreachable EXCEPT ![d] = FALSE]
    /\ UNCHANGED <<svars, dvars, cycle, got, work, reached>>

(* get_discovery_poll clears the terminal payload it answers with. *)
ServePoll(d) ==
    terminal' = [terminal EXCEPT ![d] = IF current[d] = NoSession
                                        THEN NoSession ELSE @]

PollDiscovery(d) ==
    /\ cycle[d] = "progress"
    /\ ServePoll(d)
    /\ got' = [got EXCEPT ![d] = Progress(d)]
    /\ Step(d, "apply")
    /\ UNCHANGED <<svars, unreachable, work, reached, job, stage, token,
                   current>>

(* The answer is lost and the poll repeated, *)
PollLost(d) ==
    /\ "poll_lost" \in Faults
    /\ cycle[d] = "progress"
    /\ ServePoll(d)
    /\ UNCHANGED <<svars, pvars, job, stage, token, current>>

(* or given up. *)
PollGivenUp(d) ==
    /\ "poll_lost" \in Faults
    /\ cycle[d] = "progress"
    /\ Step(d, "work")
    /\ UNCHANGED <<svars, dvars, unreachable, got, work, reached>>

Apply(u) ==
    IF u.phase = "Ended"
    THEN UpdateTerminal(u.session) \/ UpdateRedundant(u.session)
    ELSE UpdateProgress(u.session, u.phase)

(* An end that is a cancellation is published, and the subscriber POSTs it *)
(* to the daemon, which may have begun the next task.                      *)
EchoesCancel(d) ==
    /\ got[d] # NoReport /\ got[d].phase = "Ended" /\ ~Redundant(got[d].session)
    /\ ~unreachable[d]

ApplyProgress(d) ==
    /\ cycle[d] = "apply"
    /\ IF got[d] = NoReport THEN UNCHANGED svars ELSE Apply(got[d])
    /\ UNCHANGED dvars \/ (EchoesCancel(d) /\ SignalTask(d))
    /\ got' = [got EXCEPT ![d] = NoReport]
    /\ Step(d, "work")
    /\ UNCHANGED <<unreachable, work, reached>>

AskForWork(d) ==
    /\ cycle[d] = "work"
    /\ PollCheckActive(Poller[d], d)
    /\ UNCHANGED <<pvars, dvars>>

SelectWork(d) ==
    /\ PollSelect(Poller[d]) \/ PollTransition(Poller[d])
    /\ UNCHANGED <<pvars, dvars>>

TakeWork(d) ==
    /\ PollReply(Poller[d])
    /\ work' = [work EXCEPT ![d] = sid[Poller[d]]]
    /\ Step(d, IF sid[Poller[d]] = NoSession THEN "idle" ELSE "send")
    /\ UNCHANGED <<dvars, unreachable, got, reached>>

(* try_initiate_session: refused while a task runs *)
Accept(d) ==
    /\ ~IsRunning(d)
    /\ job' = [job EXCEPT ![d] = work[d]]
    /\ stage' = [stage EXCEPT ![d] = "preparing"]
    /\ token' = [token EXCEPT ![d] = FALSE]

SendDone(d) ==
    /\ work' = [work EXCEPT ![d] = NoSession]
    /\ Step(d, "idle")
    /\ UNCHANGED <<svars, unreachable, got, reached>>

Initiate(d) ==
    /\ cycle[d] = "send"
    /\ Accept(d)
    /\ SendDone(d)
    /\ UNCHANGED <<current, terminal>>

(* The daemon has accepted, the server does not hear of it and repeats. *)
InitiateUnanswered(d) ==
    /\ "initiate_lost" \in Faults
    /\ cycle[d] = "send"
    /\ Accept(d)
    /\ UNCHANGED <<svars, pvars, current, terminal>>

(* All attempts were refused or lost; that is logged. *)
InitiateGivenUp(d) ==
    /\ cycle[d] = "send"
    /\ IsRunning(d) \/ "initiate_lost" \in Faults
    /\ SendDone(d)
    /\ UNCHANGED dvars

-----------------------------------------------------------------------------
(* Users *)

UserStart(t, s) == StartInsert(t, s) /\ UNCHANGED <<pvars, dvars>>

UserCancel(t, s) == MayCancel /\ CancelRead(t, s) /\ UNCHANGED <<pvars, dvars>>

UserStep(t) ==
    /\ StartPush(t) \/ CancelPending(t)
    /\ UNCHANGED <<pvars, dvars>>

(***************************************************************************)
(* The subscriber POSTs the cancellation while cancel_session waits for    *)
(* the publication; the daemon signals whatever runs.  A refusal, because  *)
(* nothing runs, is tried again.                                           *)
(***************************************************************************)
PushCancel(t) ==
    LET d == Owner[sid[t]]
    IN  /\ pc[t] = "cancel_flag"
        /\ t \notin reached
        /\ ~unreachable[d]
        /\ SignalTask(d)
        /\ \/ reached' = reached \cup {t}
           \/ "cancel_lost" \in Faults /\ UNCHANGED reached
        /\ UNCHANGED <<svars, unreachable, cycle, got, work>>

(* It is done, refused to the last, lost, or not for this daemon. *)
EndCancel(t) ==
    LET d == Owner[sid[t]]
    IN  /\ pc[t] = "cancel_flag"
        /\ \/ t \in reached
           \/ ~IsRunning(d)
           \/ unreachable[d]
           \/ "cancel_lost" \in Faults
        /\ CancelFlag(t)
        /\ reached' = reached \ {t}
        /\ UNCHANGED <<unreachable, cycle, got, work, dvars>>

-----------------------------------------------------------------------------
(* Time, cleanup and restarts *)

(* Nothing will report s: no daemon has it, or its daemon is not polled. *)
Silent(s) ==
    LET d == Owner[s]
    IN  /\ got[d] # NoReport => got[d].session # s
        /\ \/ unreachable[d]
           \/ s \notin {job[d], current[d], terminal[d]}

(* Polls of all daemons wait for the slowest; each request may be retried. *)
Elapse(s) ==
    /\ Silent(s) \/ "slow_poll" \in Faults
    /\ Age(s)
    /\ UNCHANGED <<pvars, dvars>>

CleanupStep == Cleanup /\ UNCHANGED <<pvars, dvars>>

(* Before it sets the flag of s the clean-up publishes a cancellation of s, *)
(* which is POSTed too; an error is logged.                                *)
PushStalled(s) ==
    /\ cleanup = "request" /\ s \in toRequest
    /\ ~unreachable[Owner[s]]
    /\ SignalTask(Owner[s])
    /\ UNCHANGED <<svars, pvars>>

SweepStep == Sweep /\ UNCHANGED <<pvars, dvars>>

ServerRestart ==
    /\ "server_restart" \in Faults
    /\ Restart
    /\ cycle' = [d \in Daemon |-> "idle"]
    /\ got' = [d \in Daemon |-> NoReport]
    /\ work' = [d \in Daemon |-> NoSession]
    /\ reached' = {}
    /\ UNCHANGED <<unreachable, dvars>>

-----------------------------------------------------------------------------
RunTask(d) == StartDiscovery(d) \/ FinishDiscovery(d) \/ CloseSession(d)

Poll(d) ==
    \/ PollStatus(d) \/ PollDiscovery(d) \/ PollLost(d) \/ PollGivenUp(d)
    \/ ApplyProgress(d) \/ AskForWork(d) \/ SelectWork(d) \/ TakeWork(d)
    \/ Initiate(d) \/ InitiateUnanswered(d) \/ InitiateGivenUp(d)

Running ==
    \/ \E t \in UserTask, s \in Session : UserStart(t, s) \/ UserCancel(t, s)
    \/ \E t \in UserTask : UserStep(t) \/ PushCancel(t) \/ EndCancel(t)
    \/ \E d \in Daemon :
          \/ Poll(d) \/ RunTask(d)
          \/ MarkUnreachable(d) \/ RetryConnection(d)
          \/ PrepareFails(d) \/ AbortDiscovery(d) \/ DaemonRestart(d)
    \/ \E s \in Session : Elapse(s) \/ PushStalled(s)
    \/ CleanupStep

Next ==
    \/ cleanup # "sweep" /\ Running
    \/ SweepStep
    \/ ServerRestart

Spec == Init /\ [][Next]_vars

(***************************************************************************)
(* The polling loop goes round, tasks and calls run on, and time passes    *)
(* for a session nothing reports.  A daemon that is polled again and again *)
(* answers some time, which is strong fairness, and a push is given up     *)
(* after six attempts.  No fault and no user action is fair.               *)
(***************************************************************************)
Fairness ==
    /\ \A d \in Daemon : SF_vars(Poll(d)) /\ SF_vars(PollDiscovery(d))
    /\ \A d \in Daemon : WF_vars(Initiate(d) \/ InitiateGivenUp(d))
    /\ \A d \in Daemon : WF_vars(RunTask(d))
    /\ \A t \in UserTask : WF_vars(UserStep(t)) /\ WF_vars(EndCancel(t))
    /\ \A s \in Session : WF_vars(Silent(s) /\ Elapse(s))
    /\ WF_vars(CleanupStep) /\ WF_vars(SweepStep)

FairSpec == Spec /\ Fairness

-----------------------------------------------------------------------------
(* Correctness *)

(* Its task is gone and get_progress reports s as running all the same. *)
Abandoned(s) == current[Owner[s]] = s /\ job[Owner[s]] # s

(***************************************************************************)
(* A session that a poll has reported leaves the registry in the end: by   *)
(* its terminal payload or, when that was lost, the daemon restarted or    *)
(* became unreachable, through the stall clean-up.  The exception is a     *)
(* session whose Docker scan was aborted.                                  *)
(***************************************************************************)
LeavesUnlessAbandoned ==
    \A s \in Session : sessions[s] \in Reported ~> ~Tracked(s) \/ Abandoned(s)

(***************************************************************************)
(* The same without the exception: a session that ended is reported by its *)
(* terminal payload and not as scanning, as get_progress says, and leaves. *)
(***************************************************************************)
ReportedLeaves ==
    \A s \in Session : sessions[s] \in Reported ~> ~Tracked(s)
=============================================================================
