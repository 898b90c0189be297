--------------------------- MODULE DiscoverySystem --------------------------
(***************************************************************************)
(* The session registry of the server and daemons in DaemonPoll mode,      *)
(* joined by HTTP.  Each daemon has one work request under way; the faults *)
(* in Faults may hit a request or a process.                               *)
(***************************************************************************)
EXTENDS DiscoveryService, DaemonRunner

CONSTANTS
    PollTask,    \* the handlers that serve request-work
    Faults,      \* the faults that may happen, a subset of FaultKinds
    MayCancel,   \* users cancel sessions
    NoTask, NoAnswer

FaultKinds == {"answer_lost", "poll_timeout", "post_lost", "post_late",
               "overtaking", "prepare_fails", "scan_aborts", "slow_scan",
               "server_restart", "daemon_restart"}

ASSUME FaultAssumption == Faults \subseteq FaultKinds
ASSUME PollTaskAssumption == PollTask \subseteq Task
ASSUME DaemonPollAssumption == ServerPoll = {}

UserTask == Task \ PollTask

VARIABLES
    asked,   \* the handler of the daemon's outstanding work request
    answer   \* the answer on its way back; "flagged" is the session whose
             \*   flag made the Boolean true, which the code does not send

nvars == <<asked, answer>>
vars == <<svars, dvars, nvars>>

Answers == [work : Session \cup {NoSession}, flagged : Session \cup {NoSession}]

ASSUME NoneAssumption == NoTask \notin Task /\ NoAnswer \notin Answers

SystemTypeOK ==
    /\ TypeOK
    /\ RunnerTypeOK
    /\ asked \in [Daemon -> Task \cup {NoTask}]
    /\ answer \in [Daemon -> Answers \cup {NoAnswer}]

Init ==
    /\ SInit
    /\ RunnerInit
    /\ asked = [d \in Daemon |-> NoTask]
    /\ answer = [d \in Daemon |-> NoAnswer]

-----------------------------------------------------------------------------
(* Users *)

UserStart(t, s) == StartInsert(t, s) /\ UNCHANGED <<dvars, nvars>>

UserCancel(t, s) == MayCancel /\ CancelRead(t, s) /\ UNCHANGED <<dvars, nvars>>

(* A user's request runs on. *)
UserStep(t) ==
    /\ StartPush(t) \/ CancelPending(t) \/ CancelFlag(t)
    /\ UNCHANGED <<dvars, nvars>>

-----------------------------------------------------------------------------
(* Work requests *)

AskForWork(t, d) ==
    /\ asked[d] = NoTask
    /\ answer[d] = NoAnswer
    /\ PollCheckActive(t, d)
    /\ asked' = [asked EXCEPT ![d] = t]
    /\ UNCHANGED <<dvars, answer>>

PollStep(t) ==
    /\ PollSelect(t) \/ PollTransition(t)
    /\ UNCHANGED <<dvars, nvars>>

(* The daemon still waits for this very answer, or nobody reads it. *)
Answer(t) ==
    LET d == did[t]
    IN  /\ PollReply(t)
        /\ IF asked[d] = t
           THEN /\ asked' = [asked EXCEPT ![d] = NoTask]
                /\ answer' = [answer EXCEPT ![d] =
                       [work |-> sid[t], flagged |-> cancelFlag[d]]]
           ELSE UNCHANGED nvars
        /\ UNCHANGED dvars

AnswerLost(d) ==
    /\ "answer_lost" \in Faults
    /\ answer[d] # NoAnswer
    /\ answer' = [answer EXCEPT ![d] = NoAnswer]
    /\ UNCHANGED <<svars, dvars, asked>>

(* The client gives up; its retry finds another handler. *)
PollTimeout(d) ==
    /\ "poll_timeout" \in Faults
    /\ asked[d] # NoTask
    /\ asked' = [asked EXCEPT ![d] = NoTask]
    /\ UNCHANGED <<svars, dvars, answer>>

(***************************************************************************)
(* The answer reaches the polling loop.  It comes on another connection    *)
(* than the response to the task's last update and may overtake it; then   *)
(* the task that the server has seen the end of is still running.          *)
(***************************************************************************)
TakeAnswer(d) ==
    /\ answer[d] # NoAnswer
    /\ post[d] = Acked => "overtaking" \in Faults
    /\ ReceiveAnswer(d, answer[d].work, answer[d].flagged # NoSession)
    /\ answer' = [answer EXCEPT ![d] = NoAnswer]
    /\ UNCHANGED <<svars, asked>>

-----------------------------------------------------------------------------
(* Discovery tasks and their updates *)

RunTask(d) ==
    /\ StartDiscovery(d) \/ ReportProgress(d)
    /\ UNCHANGED <<svars, nvars>>

FinishTask(d) == FinishDiscovery(d) /\ UNCHANGED <<svars, nvars>>

FailToPrepare(d) ==
    /\ "prepare_fails" \in Faults
    /\ PrepareFails(d)
    /\ UNCHANGED <<svars, nvars>>

AbortScan(d) ==
    /\ "scan_aborts" \in Faults
    /\ AbortDiscovery(d)
    /\ UNCHANGED <<svars, nvars>>

(* The server applies an update. *)
Apply(u) ==
    IF u.phase = "Ended"
    THEN UpdateTerminal(u.session) \/ UpdateRedundant(u.session)
    ELSE UpdateProgress(u.session, u.phase)

Deliver(d) ==
    /\ post[d] \in Updates
    /\ Apply(post[d])
    /\ post' = [post EXCEPT ![d] = Acked]
    /\ UNCHANGED <<job, stage, token, late, scans, nvars>>

Respond(d) ==
    /\ post[d] = Acked
    /\ PostReturns(d)
    /\ UNCHANGED <<svars, late, nvars>>

PostLost(d) ==
    /\ "post_lost" \in Faults
    /\ post[d] \in Updates
    /\ PostReturns(d)
    /\ UNCHANGED <<svars, late, nvars>>

PostLate(d) ==
    /\ "post_late" \in Faults
    /\ post[d] \in Updates
    /\ PostReturns(d)
    /\ late' = late \cup {post[d]}
    /\ UNCHANGED <<svars, nvars>>

DeliverLate(u) ==
    /\ u \in late
    /\ late' = late \ {u}
    /\ Apply(u)
    /\ UNCHANGED <<job, stage, token, post, scans, nvars>>

-----------------------------------------------------------------------------
(* Time, cleanup and restarts *)

(* No task is left that would report s. *)
Silent(s) ==
    /\ \A d \in Daemon : job[d] # s
    /\ \A u \in late : u.session # s

(* A running task reports every 30 seconds, unless a single step of its    *)
(* scan takes longer than the stall threshold or its reports are lost.     *)
Elapse(s) ==
    /\ Silent(s) \/ "slow_scan" \in Faults
    /\ Age(s)
    /\ UNCHANGED <<dvars, nvars>>

CleanupStep == Cleanup /\ UNCHANGED <<dvars, nvars>>

SweepStep == Sweep /\ UNCHANGED <<dvars, nvars>>

(* Connections to the server break; the daemons' tasks run on. *)
ServerRestart ==
    /\ "server_restart" \in Faults
    /\ Restart
    /\ asked' = [d \in Daemon |-> NoTask]
    /\ answer' = [d \in Daemon |-> NoAnswer]
    /\ UNCHANGED dvars

RunnerRestart(d) ==
    /\ "daemon_restart" \in Faults
    /\ DaemonRestart(d)
    /\ asked' = [asked EXCEPT ![d] = NoTask]
    /\ answer' = [answer EXCEPT ![d] = NoAnswer]
    /\ UNCHANGED svars

-----------------------------------------------------------------------------
Running ==
    \/ \E t \in UserTask, s \in Session : UserStart(t, s) \/ UserCancel(t, s)
    \/ \E t \in UserTask : UserStep(t)
    \/ \E t \in PollTask, d \in Daemon : AskForWork(t, d)
    \/ \E t \in PollTask : PollStep(t) \/ Answer(t)
    \/ \E d \in Daemon :
          \/ AnswerLost(d) \/ PollTimeout(d) \/ TakeAnswer(d)
          \/ RunTask(d) \/ FinishTask(d) \/ FailToPrepare(d) \/ AbortScan(d)
          \/ Deliver(d) \/ Respond(d) \/ PostLost(d) \/ PostLate(d)
          \/ RunnerRestart(d)
    \/ \E u \in late : DeliverLate(u)
    \/ \E s \in Session : Elapse(s)
    \/ CleanupStep

Next ==
    \/ cleanup # "sweep" /\ Running
    \/ SweepStep
    \/ ServerRestart

Spec == Init /\ [][Next]_vars

(***************************************************************************)
(* Handlers, tasks, polls and the cleanup run when they can.  Updates that *)
(* the network still carries arrive, and time passes for a session nobody  *)
(* reports on.  A scan ends however often it is interrupted to report,     *)
(* which is strong fairness.  No fault and no user action is fair.         *)
(***************************************************************************)
Fairness ==
    /\ \A t \in UserTask : WF_vars(UserStep(t))
    /\ \A d \in Daemon : WF_vars(\E t \in PollTask : AskForWork(t, d))
    /\ \A t \in PollTask : WF_vars(PollStep(t) \/ Answer(t))
    /\ \A d \in Daemon : WF_vars(TakeAnswer(d))
    /\ \A d \in Daemon : WF_vars(RunTask(d)) /\ SF_vars(FinishTask(d))
    /\ \A d \in Daemon : WF_vars(Deliver(d)) /\ WF_vars(Respond(d))
    /\ WF_vars(\E u \in late : DeliverLate(u))
    /\ \A s \in Session : WF_vars(Silent(s) /\ Elapse(s))
    /\ WF_vars(CleanupStep) /\ WF_vars(SweepStep)

FairSpec == Spec /\ Fairness

-----------------------------------------------------------------------------
(* Correctness *)

(***************************************************************************)
(* The server considers a daemon busy with at most one session.  It rests  *)
(* on get_pending_work's three lock sections, update_session's reset of    *)
(* the next session and the order in which a daemon reports.               *)
(***************************************************************************)
OneActive ==
    \A s, x \in Session :
        sessions[s] \in Active /\ sessions[x] \in Active /\ Owner[s] = Owner[x]
            => s = x

(***************************************************************************)
(* Work reaches only a daemon that will take it: request_work drops,       *)
(* without a word to the server, what arrives while a task runs, and the   *)
(* server has no way back from Starting but an update of that session.     *)
(***************************************************************************)
WorkIsTaken ==
    [][\A d \in Daemon :
         TakeAnswer(d) /\ answer[d].work # NoSession
             => job'[d] = answer[d].work]_vars

(* No session is scanned twice: dispatch takes it out of reach of the next *)
(* poll, and nothing puts it back once its daemon has it.                  *)
ScannedOnce == \A s \in Session : scans[s] < 2

(***************************************************************************)
(* A session its daemon has reported leaves the registry in the end, by    *)
(* its terminal update or through the stall clean-up, whatever is lost on  *)
(* the way and whichever process restarts.                                 *)
(***************************************************************************)
ReportedLeaves ==
    \A s \in Session : sessions[s] \in Reported ~> ~Tracked(s)

(***************************************************************************)
(* Every session leaves the registry in the end: none stays in the way of  *)
(* its daemon's queue for ever, so that the advice given to a user who     *)
(* cancels a Starting session, to try again in a moment, is of use.        *)
(***************************************************************************)
EverySessionLeaves ==
    \A s \in Session : Tracked(s) ~> ~Tracked(s)

(* A cancellation reaches the session it was requested for, not one that   *)
(* the daemon has started since.                                           *)
CancelHitsTarget ==
    [][\A d \in Daemon :
         ~token[d] /\ token'[d] => answer[d].flagged = job[d]]_vars

(* The session that clean-up removes as stalled has not been heard of for  *)
(* the stall threshold, as its historical row says.                        *)
SweptWasStalled ==
    [][\A s \in stalled \ stalled' :
         cleanup = "sweep" /\ Tracked(s) => fresh[s] = "old"]_vars
=============================================================================
