---------------------------- MODULE DaemonRunner ----------------------------
(***************************************************************************)
(* A daemon in DaemonPoll mode: the session manager                        *)
(* (backend/src/daemon/discovery/manager.rs), the life of a discovery task *)
(* (discovery/service/base.rs and the discover functions) and the polling  *)
(* loop that feeds it (runtime/service.rs).                                *)
(*                                                                         *)
(* The polling loop and the discovery task are two tokio tasks.  Each has  *)
(* at most one HTTP request of its own under way, and waits for the        *)
(* answer, an error or the client's timeout of 30 seconds.                 *)
(***************************************************************************)
EXTENDS DiscoveryTypes, Naturals

CONSTANTS
    NoPost,
    Acked        \* the server has applied the update, its response is under way

VARIABLES
    job,       \* the session of current_task while its handle is unfinished
    stage,     \* position of that task in discover()
    token,     \* its CancellationToken has been cancelled
    post,      \* the update the task is POSTing, Acked, or NoPost
    late,      \* updates whose POST timed out, still on their way
    scans      \* ghost: how often a session got past start_discovery

dvars == <<job, stage, token, post, late, scans>>

(* The server treats the terminal phases Complete, Failed, Cancelled alike. *)
Updates == [session : Session, phase : Reported \cup {"Ended"}]

ASSUME PostAssumption ==
    NoPost # Acked /\ NoPost \notin Updates /\ Acked \notin Updates

RunnerTypeOK ==
    /\ job \in [Daemon -> Session \cup {NoSession}]
    /\ stage \in [Daemon -> {"idle", "preparing", "scanning", "ending"}]
    /\ token \in [Daemon -> BOOLEAN]
    /\ post \in [Daemon -> Updates \cup {NoPost, Acked}]
    /\ late \subseteq Updates
    /\ scans \in [Session -> {0, 1, 2}]

RunnerInit ==
    /\ job = [d \in Daemon |-> NoSession]
    /\ stage = [d \in Daemon |-> "idle"]
    /\ token = [d \in Daemon |-> FALSE]
    /\ post = [d \in Daemon |-> NoPost]
    /\ late = {}
    /\ scans = [s \in Session |-> 0]

IsRunning(d) == job[d] # NoSession

(***************************************************************************)
(* One answer to request-work: a cancellation is signalled first, to       *)
(* whatever runs; work is taken when nothing runs, and dropped otherwise.  *)
(***************************************************************************)
ReceiveAnswer(d, work, cancel) ==
    /\ IF work # NoSession /\ ~IsRunning(d)
       THEN /\ job' = [job EXCEPT ![d] = work]
            /\ stage' = [stage EXCEPT ![d] = "preparing"]
            /\ token' = [token EXCEPT ![d] = FALSE]
       ELSE /\ token' = IF cancel /\ IsRunning(d)
                        THEN [token EXCEPT ![d] = TRUE] ELSE token
            /\ UNCHANGED <<job, stage>>
    /\ UNCHANGED <<post, late, scans>>

(* The task is over: its handle reads as finished. *)
EndTask(d) ==
    /\ job' = [job EXCEPT ![d] = NoSession]
    /\ stage' = [stage EXCEPT ![d] = "idle"]
    /\ token' = [token EXCEPT ![d] = FALSE]

Post(d, phase) ==
    post' = [post EXCEPT ![d] = [session |-> job[d], phase |-> phase]]

(* What precedes start_discovery has succeeded; Started is reported. *)
StartDiscovery(d) ==
    /\ stage[d] = "preparing"
    /\ stage' = [stage EXCEPT ![d] = "scanning"]
    /\ scans' = [scans EXCEPT ![job[d]] = IF @ < 2 THEN @ + 1 ELSE 2]
    /\ Post(d, "Started")
    /\ UNCHANGED <<job, token, late>>

(* It has failed: discover returns its error before anything is reported. *)
PrepareFails(d) ==
    /\ stage[d] = "preparing"
    /\ EndTask(d)
    /\ UNCHANGED <<post, late, scans>>

(* Mutant: a report without a look at the session it is for. *)
ReportProgressAnytime(d) ==
    /\ post[d] = NoPost
    /\ Post(d, "Scanning")
    /\ UNCHANGED <<job, stage, token, late, scans>>

ReportProgress(d) ==
    /\ stage[d] = "scanning"
    /\ post[d] = NoPost
    /\ Post(d, "Scanning")
    /\ UNCHANGED <<job, stage, token, late, scans>>

(* The scan is done, has failed or has noticed its token. *)
FinishDiscovery(d) ==
    /\ stage[d] = "scanning"
    /\ post[d] = NoPost
    /\ stage' = [stage EXCEPT ![d] = "ending"]
    /\ Post(d, "Ended")
    /\ UNCHANGED <<job, token, late, scans>>

(***************************************************************************)
(* Docker discovery leaves discover by its error between start_discovery   *)
(* and finish_discovery: no terminal phase is ever reported.               *)
(***************************************************************************)
AbortDiscovery(d) ==
    /\ stage[d] = "scanning"
    /\ post[d] = NoPost
    /\ EndTask(d)
    /\ UNCHANGED <<post, late, scans>>

(***************************************************************************)
(* The POST returns, well or with an error that is only logged, and the    *)
(* task goes on; after the terminal report it ends.                        *)
(***************************************************************************)
PostReturns(d) ==
    /\ post[d] # NoPost
    /\ post' = [post EXCEPT ![d] = NoPost]
    /\ IF stage[d] = "ending" THEN EndTask(d)
       ELSE UNCHANGED <<job, stage, token>>
    /\ UNCHANGED scans

(* The daemon process restarts and remembers no session. *)
DaemonRestart(d) ==
    /\ IsRunning(d)
    /\ EndTask(d)
    /\ post' = [post EXCEPT ![d] = NoPost]
    /\ UNCHANGED <<late, scans>>
=============================================================================
