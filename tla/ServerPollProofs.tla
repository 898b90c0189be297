-------------------------- MODULE ServerPollProofs --------------------------
(* Proofs about daemons in ServerPoll mode: the polling loop with the      *)
(* session registry (ServerPollSystem), for every set of sessions, daemons *)
(* and handlers, and the entity buffer (EntityBuffer).                     *)
EXTENDS ServerPollSystem, EntityBuffer, DiscoveryServiceProofs

-----------------------------------------------------------------------------
(* The polled system under every fault *)

(* A task of discover() has a session, and so has work on its way. *)
TasksHaveSessions ==
    \A d \in Daemon :
        /\ stage[d] # "idle" => job[d] \in Session
        /\ cycle[d] = "send" => work[d] \in Session

(* What the server is to initiate, and what a daemon works on, shows and   *)
(* has reported, are sessions the server has taken from the queue for it.  *)
OnlyHanded ==
    /\ work \in [Daemon -> handed \cup {NoSession}]
    /\ job \in [Daemon -> handed \cup {NoSession}]
    /\ current \in [Daemon -> handed \cup {NoSession}]
    /\ terminal \in [Daemon -> handed \cup {NoSession}]
    /\ \A d \in Daemon : got[d] # NoReport => got[d].session \in handed

PollInv ==
    /\ IInv
    /\ PollTypeOK
    /\ TasksHaveSessions
    /\ OnlyHanded

PollParts == PollTypeOK /\ TasksHaveSessions /\ OnlyHanded

(* Every step of the polled system is one of the registry, or none of it. *)
LEMMA PollStepRefines ==
    ASSUME PollTypeOK, [Next]_vars
    PROVE  [SNext]_svars
  <1>0. UserTask \subseteq Task /\ Poller \in [Daemon -> Task]
    BY PollerAssumption DEF UserTask
  <1>1. CASE cleanup # "sweep" /\ Running
    <2>1. ASSUME NEW t \in UserTask, NEW s \in Session,
                 UserStart(t, s) \/ UserCancel(t, s)
          PROVE  \E x \in Task : Handle(x)
      BY <1>0, <2>1 DEF UserStart, UserCancel, Handle
    <2>2. ASSUME NEW t \in UserTask, UserStep(t) \/ EndCancel(t)
          PROVE  \E x \in Task : Handle(x)
      BY <1>0, <2>2 DEF UserStep, EndCancel, Handle
    <2>3. ASSUME NEW t \in UserTask, PushCancel(t)
          PROVE  UNCHANGED svars
      BY <2>3 DEF PushCancel
    <2>4. ASSUME NEW d \in Daemon, AskForWork(d) \/ SelectWork(d) \/ TakeWork(d)
          PROVE  \E x \in Task : Handle(x)
      <3>1. Poller[d] \in Task
        BY <1>0
      <3> QED
        BY <2>4, <3>1 DEF AskForWork, SelectWork, TakeWork, Handle
    <2>5. ASSUME NEW d \in Daemon, ApplyProgress(d)
          PROVE  UNCHANGED svars \/ \E s \in Session : Receive(s)
      <3>1. CASE got[d] = NoReport
        BY <2>5, <3>1 DEF ApplyProgress
      <3>2. CASE got[d] # NoReport
        <4>1. got[d] \in Reports /\ Apply(got[d])
          BY <2>5, <3>2 DEF ApplyProgress, PollTypeOK
        <4>2. got[d].session \in Session /\ got[d].phase \in {"Scanning", "Ended"}
          BY <4>1 DEF Reports
        <4>3. Receive(got[d].session)
          BY <4>1, <4>2 DEF Apply, Receive, Reported
        <4> QED
          BY <4>2, <4>3
      <3> QED
        BY <3>1, <3>2
    <2>6. ASSUME NEW d \in Daemon,
                 \/ PollStatus(d) \/ PollDiscovery(d) \/ PollLost(d) \/ PollGivenUp(d)
                 \/ Initiate(d) \/ InitiateUnanswered(d) \/ InitiateGivenUp(d)
                 \/ MarkUnreachable(d) \/ RetryConnection(d)
          PROVE  UNCHANGED svars
      BY <2>6 DEF PollStatus, PollDiscovery, PollLost, PollGivenUp, Initiate,
                  InitiateUnanswered, InitiateGivenUp, SendDone, MarkUnreachable,
                  RetryConnection
    <2>7. ASSUME NEW d \in Daemon,
                 \/ RunTask(d) \/ PrepareFails(d) \/ AbortDiscovery(d)
                 \/ DaemonRestart(d)
          PROVE  UNCHANGED svars
      BY <2>7 DEF RunTask, StartDiscovery, FinishDiscovery, CloseSession,
                  PrepareFails, AbortDiscovery, DaemonRestart
    <2>8. ASSUME NEW s \in Session, Elapse(s)
          PROVE  Age(s)
      BY <2>8 DEF Elapse
    <2>9. CleanupStep => Cleanup
      BY DEF CleanupStep
    <2>10. ASSUME NEW s \in Session, PushStalled(s)
           PROVE  UNCHANGED svars
      BY <2>10 DEF PushStalled
    <2> QED
      BY <1>1, <2>1, <2>2, <2>3, <2>4, <2>5, <2>6, <2>7, <2>8, <2>9, <2>10
         DEF Running, Poll, SNext
  <1>2. CASE SweepStep
    BY <1>2 DEF SweepStep, SNext
  <1>3. CASE ServerRestart
    BY <1>3 DEF ServerRestart, SNext
  <1>4. CASE UNCHANGED vars
    BY <1>4 DEF vars
  <1> QED
    BY <1>1, <1>2, <1>3, <1>4 DEF Next

(* What only the registry does leaves the rest of the invariant alone. *)
LEMMA PollUnchanged ==
    ASSUME PollParts, TypeOK', handed \subseteq handed', UNCHANGED <<pvars, dvars>>
    PROVE  PollParts'
  <1>1. PollTypeOK'
    BY DEF pvars, dvars, PollParts, PollTypeOK
  <1>2. TasksHaveSessions'
    BY DEF pvars, dvars, PollParts, TasksHaveSessions
  <1>3. OnlyHanded'
    BY DEF pvars, dvars, PollParts, OnlyHanded
  <1> QED
    BY <1>1, <1>2, <1>3 DEF PollParts

(* The task of a daemon, its end and the daemon's restart. *)
LEMMA TaskWire ==
    ASSUME PollParts, TypeOK', handed' = handed, NEW d \in Daemon,
           \/ RunTask(d) \/ PrepareFails(d) \/ AbortDiscovery(d)
           \/ DaemonRestart(d)
    PROVE  PollParts'
  <1>1. UNCHANGED pvars
    BY DEF RunTask, StartDiscovery, FinishDiscovery, CloseSession, PrepareFails,
           AbortDiscovery, DaemonRestart
  <1>2. \/ stage[d] # "idle" /\ job' = job /\ token' = token
           /\ \E x \in {"scanning", "ending"} : stage' = [stage EXCEPT ![d] = x]
        \/ EndTask(d)
    BY DEF RunTask, StartDiscovery, FinishDiscovery, CloseSession, PrepareFails,
           AbortDiscovery, DaemonRestart
  <1>3. \E x \in {current[d], job[d], NoSession} : current' = [current EXCEPT ![d] = x]
    <2>1. current = [current EXCEPT ![d] = current[d]]
      BY DEF PollParts, PollTypeOK
    <2> QED
      BY <2>1 DEF RunTask, StartDiscovery, FinishDiscovery, CloseSession,
                  PrepareFails, AbortDiscovery, DaemonRestart
  <1>4. \E x \in {terminal[d], job[d], NoSession} :
            terminal' = [terminal EXCEPT ![d] = x]
    <2>1. terminal = [terminal EXCEPT ![d] = terminal[d]]
      BY DEF PollParts, PollTypeOK
    <2> QED
      BY <2>1 DEF RunTask, StartDiscovery, FinishDiscovery, CloseSession,
                  PrepareFails, AbortDiscovery, DaemonRestart
  <1>5. PollTypeOK'
    <2>1. /\ job' \in [Daemon -> Session \cup {NoSession}]
          /\ stage' \in [Daemon -> {"idle", "preparing", "scanning", "ending"}]
          /\ token' \in [Daemon -> BOOLEAN]
      BY <1>2 DEF PollParts, PollTypeOK, EndTask
    <2>2. current' \in [Daemon -> Session \cup {NoSession}]
      BY <1>3 DEF PollParts, PollTypeOK
    <2>3. terminal' \in [Daemon -> Session \cup {NoSession}]
      BY <1>4 DEF PollParts, PollTypeOK
    <2> QED
      BY <1>1, <2>1, <2>2, <2>3 DEF PollParts, PollTypeOK, pvars
  <1>6. TasksHaveSessions'
    BY <1>1, <1>2 DEF PollParts, PollTypeOK, TasksHaveSessions, EndTask, pvars
  <1>7. OnlyHanded'
    BY <1>1, <1>2, <1>3, <1>4 DEF PollParts, OnlyHanded, EndTask, pvars
  <1> QED
    BY <1>5, <1>6, <1>7 DEF PollParts

(* The polling loop up to the request for work. *)
LEMMA ProgressWire ==
    ASSUME PollParts, TypeOK', handed \subseteq handed', NEW d \in Daemon,
           \/ PollStatus(d) \/ PollDiscovery(d) \/ PollLost(d) \/ PollGivenUp(d)
           \/ ApplyProgress(d) \/ MarkUnreachable(d) \/ RetryConnection(d)
    PROVE  PollParts'
  <1>1. UNCHANGED <<work, reached, job, stage, current>>
    BY DEF PollStatus, PollDiscovery, PollLost, PollGivenUp, ApplyProgress,
           SignalTask, MarkUnreachable, RetryConnection, pvars, dvars
  <1>2. \/ cycle' = cycle
        \/ \E x \in {"progress", "apply", "work"} : cycle' = [cycle EXCEPT ![d] = x]
    BY DEF PollStatus, PollDiscovery, PollLost, PollGivenUp, ApplyProgress,
           MarkUnreachable, RetryConnection, pvars, Step
  <1>3. \/ terminal' = terminal
        \/ \E x \in {terminal[d], NoSession} : terminal' = [terminal EXCEPT ![d] = x]
    BY DEF PollStatus, PollDiscovery, PollLost, PollGivenUp, ApplyProgress,
           SignalTask, MarkUnreachable, RetryConnection, ServePoll, dvars
  <1>4. got' = got \/ \E x \in {NoReport, Progress(d)} : got' = [got EXCEPT ![d] = x]
    BY DEF PollStatus, PollDiscovery, PollLost, PollGivenUp, ApplyProgress,
           MarkUnreachable, RetryConnection, pvars
  <1>5. unreachable' \in [Daemon -> BOOLEAN]
    BY DEF PollParts, PollTypeOK, PollStatus, PollDiscovery, PollLost, PollGivenUp,
           ApplyProgress, MarkUnreachable, RetryConnection, pvars
  <1>6. Progress(d) # NoReport =>
            Progress(d) \in Reports /\ Progress(d).session \in handed
    BY DEF PollParts, PollTypeOK, OnlyHanded, Progress, Reports
  <1> HIDE DEF Progress
  <1>7. PollTypeOK'
    <2>1. token' \in [Daemon -> BOOLEAN]
      <3>1. token' = token \/ token' = [token EXCEPT ![d] = TRUE]
        BY DEF PollStatus, PollDiscovery, PollLost, PollGivenUp, ApplyProgress,
               SignalTask, MarkUnreachable, RetryConnection, dvars
      <3> QED
        BY <3>1 DEF PollParts, PollTypeOK
    <2>2. cycle' \in [Daemon -> {"idle", "progress", "apply", "work", "send"}]
      BY <1>2 DEF PollParts, PollTypeOK
    <2>3. terminal' \in [Daemon -> Session \cup {NoSession}]
      BY <1>3 DEF PollParts, PollTypeOK
    <2>4. got' \in [Daemon -> Reports \cup {NoReport}]
      BY <1>4, <1>6 DEF PollParts, PollTypeOK
    <2> QED
      BY <1>1, <1>5, <2>1, <2>2, <2>3, <2>4 DEF PollParts, PollTypeOK
  <1>8. TasksHaveSessions'
    BY <1>1, <1>2 DEF PollParts, PollTypeOK, TasksHaveSessions
  <1>9. OnlyHanded'
    BY <1>1, <1>3, <1>4, <1>6 DEF PollParts, PollTypeOK, OnlyHanded
  <1> QED
    BY <1>7, <1>8, <1>9 DEF PollParts

(* The work it is given, and its delivery. *)
LEMMA WorkWire ==
    ASSUME PollParts, TypeOK, TypeOK', handed \subseteq handed', NEW d \in Daemon,
           \/ TakeWork(d) \/ Initiate(d) \/ InitiateUnanswered(d)
           \/ InitiateGivenUp(d)
    PROVE  PollParts'
  <1>1. UNCHANGED <<unreachable, got, reached, current, terminal>>
    BY DEF TakeWork, Initiate, InitiateUnanswered, InitiateGivenUp, SendDone, pvars,
           dvars
  <1>2. CASE TakeWork(d)
    <2> DEFINE s == sid[Poller[d]]
    <2>1. s \in Session \cup {NoSession}
      BY PollerAssumption DEF TypeOK
    <2>2. s # NoSession => s \in handed'
      BY <1>2 DEF TakeWork, PollReply
    <2>3. /\ work' = [work EXCEPT ![d] = s]
          /\ cycle' = [cycle EXCEPT ![d] = IF s = NoSession THEN "idle" ELSE "send"]
          /\ UNCHANGED <<job, stage, token>>
      BY <1>2 DEF TakeWork, Step, dvars
    <2> HIDE DEF s
    <2>4. PollTypeOK'
      BY <1>1, <2>1, <2>3 DEF PollParts, PollTypeOK
    <2>5. TasksHaveSessions'
      BY <2>1, <2>3 DEF PollParts, PollTypeOK, TasksHaveSessions
    <2>6. OnlyHanded'
      BY <1>1, <2>2, <2>3 DEF PollParts, OnlyHanded
    <2> QED
      BY <2>4, <2>5, <2>6 DEF PollParts
  <1>3. CASE Initiate(d) \/ InitiateUnanswered(d) \/ InitiateGivenUp(d)
    <2>1. cycle[d] = "send" /\ work[d] \in Session
      BY <1>3 DEF Initiate, InitiateUnanswered, InitiateGivenUp, PollParts,
                  TasksHaveSessions
    <2>2. UNCHANGED <<job, stage, token>> \/ Accept(d)
      BY <1>3 DEF Initiate, InitiateUnanswered, InitiateGivenUp, dvars
    <2>3. \/ UNCHANGED <<work, cycle>>
          \/ /\ work' = [work EXCEPT ![d] = NoSession]
             /\ cycle' = [cycle EXCEPT ![d] = "idle"]
      BY <1>3 DEF Initiate, InitiateUnanswered, InitiateGivenUp, SendDone, Step, pvars
    <2>4. PollTypeOK'
      BY <1>1, <2>1, <2>2, <2>3 DEF PollParts, PollTypeOK, Accept
    <2>5. TasksHaveSessions'
      BY <2>1, <2>2, <2>3 DEF PollParts, PollTypeOK, TasksHaveSessions, Accept
    <2>6. OnlyHanded'
      BY <1>1, <2>2, <2>3 DEF PollParts, OnlyHanded, Accept
    <2> QED
      BY <2>4, <2>5, <2>6 DEF PollParts
  <1> QED
    BY <1>2, <1>3

(* The pushed cancellation, and a restart of the server. *)
LEMMA PushWire ==
    ASSUME PollParts, TypeOK', handed \subseteq handed',
           \/ \E t \in UserTask : PushCancel(t) \/ EndCancel(t)
           \/ \E s \in Session : PushStalled(s)
           \/ ServerRestart
    PROVE  PollParts'
  <1>1. UNCHANGED <<unreachable, job, stage, current, terminal>>
    BY DEF PushCancel, EndCancel, PushStalled, ServerRestart, SignalTask, dvars, pvars
  <1>2. \/ UNCHANGED <<cycle, got, work>>
        \/ /\ cycle' = [d \in Daemon |-> "idle"]
           /\ got' = [d \in Daemon |-> NoReport]
           /\ work' = [d \in Daemon |-> NoSession]
    BY DEF PushCancel, EndCancel, PushStalled, ServerRestart, pvars
  <1>3. token' \in [Daemon -> BOOLEAN]
    BY DEF PushCancel, EndCancel, PushStalled, ServerRestart, SignalTask, dvars,
           PollParts, PollTypeOK
  <1>4. reached' \subseteq Task
    BY DEF PushCancel, EndCancel, PushStalled, ServerRestart, PollParts, PollTypeOK,
           UserTask, pvars
  <1>5. PollTypeOK'
    BY <1>1, <1>2, <1>3, <1>4 DEF PollParts, PollTypeOK
  <1>6. TasksHaveSessions'
    BY <1>1, <1>2 DEF PollParts, TasksHaveSessions
  <1>7. OnlyHanded'
    BY <1>1, <1>2 DEF PollParts, OnlyHanded
  <1> QED
    BY <1>5, <1>6, <1>7 DEF PollParts

LEMMA PollInvStep ==
    ASSUME PollInv, [Next]_vars
    PROVE  PollInv'
  <1>0. PollParts /\ PollTypeOK /\ TypeOK
    BY DEF PollInv, PollParts, PollTypeOK
  <1>1. [SNext]_svars
    BY <1>0, PollStepRefines
  <1>2. IInv' /\ handed \subseteq handed' /\ TypeOK'
    BY <1>1, NextIInv, HandedGrows DEF PollInv, IInv
  <1> SUFFICES PollParts'
    BY <1>2 DEF PollInv, PollParts
  <1>3. ASSUME UNCHANGED <<pvars, dvars>>
        PROVE  PollParts'
    BY <1>0, <1>2, <1>3, PollUnchanged
  <1>4. CASE Running
    <2>1. CASE \E t \in UserTask, s \in Session : UserStart(t, s) \/ UserCancel(t, s)
      BY <1>3, <2>1 DEF UserStart, UserCancel
    <2>2. CASE \/ \E t \in UserTask : UserStep(t)
               \/ \E d \in Daemon : AskForWork(d) \/ SelectWork(d)
               \/ \E s \in Session : Elapse(s)
               \/ CleanupStep
      BY <1>3, <2>2 DEF UserStep, AskForWork, SelectWork, Elapse, CleanupStep
    <2>3. ASSUME NEW d \in Daemon,
                 \/ RunTask(d) \/ PrepareFails(d) \/ AbortDiscovery(d)
                 \/ DaemonRestart(d)
          PROVE  PollParts'
      <3>1. handed' = handed
        BY <2>3 DEF RunTask, StartDiscovery, FinishDiscovery, CloseSession,
                    PrepareFails, AbortDiscovery, DaemonRestart, svars
      <3> QED
        BY <1>0, <1>2, <2>3, <3>1, TaskWire
    <2> QED
      BY <1>0, <1>2, <1>4, <2>1, <2>2, <2>3, ProgressWire, WorkWire, PushWire
         DEF Running, Poll
  <1>5. CASE SweepStep
    BY <1>3, <1>5 DEF SweepStep
  <1>6. CASE ServerRestart
    BY <1>0, <1>2, <1>6, PushWire
  <1>7. CASE UNCHANGED vars
    BY <1>3, <1>7 DEF vars
  <1> QED
    BY <1>4, <1>5, <1>6, <1>7 DEF Next

LEMMA PollInvInit ==
    ASSUME Init
    PROVE  PollInv
  <1>1. IInv
    BY InitIInv DEF Init
  <1>2. PollTypeOK
    BY <1>1 DEF IInv, Init, DaemonInit, PollTypeOK
  <1>3. TasksHaveSessions /\ OnlyHanded
    BY DEF Init, DaemonInit, TasksHaveSessions, OnlyHanded
  <1> QED
    BY <1>1, <1>2, <1>3 DEF PollInv

(* The invariant of the polled system under every fault: that of the       *)
(* registry and what ties polls and daemons to it.                         *)
THEOREM PollInvariance == Spec => []PollInv
  <1>1. Init => PollInv
    BY PollInvInit
  <1>2. PollInv /\ [Next]_vars => PollInv'
    BY PollInvStep
  <1> QED
    BY <1>1, <1>2, PTL DEF Spec

(* Registry, polling loop and daemons keep their types: poll_daemon never  *)
(* applies or initiates anything but a session.                            *)
THEOREM PollTyped == Spec => []PollTypeOK
  <1>1. PollInv => PollTypeOK
    BY DEF PollInv
  <1> QED
    BY <1>1, PollInvariance, PTL

(* What is initiated, run, shown or reported by a polled daemon is a       *)
(* session the server took from the queue, a restart of either included.   *)
THEOREM PolledWasHanded == Spec => []OnlyHanded
  <1>1. PollInv => OnlyHanded
    BY DEF PollInv
  <1> QED
    BY <1>1, PollInvariance, PTL

-----------------------------------------------------------------------------
(* Without cancellations and the faults that break them: one session of a  *)
(* polled daemon is active at a time, it is handed out once, and the       *)
(* daemon is free for it                                                   *)

(***************************************************************************)
(* A cancellation may take a session that a poll has already selected.  An *)
(* unreachable daemon and a poll that takes longer than the stall          *)
(* threshold let a session be swept that its daemon still runs, a restart  *)
(* of the server forgets it, and an initiate request whose answer is lost  *)
(* is repeated after the task has ended.  TLC refutes what follows under   *)
(* each of the five.                                                       *)
(***************************************************************************)
Calm ==
    /\ ~MayCancel
    /\ Faults \cap {"unreachable", "initiate_lost", "slow_poll",
                    "server_restart"} = {}

(* The server considers a daemon busy with at most one session. *)
OneActive ==
    \A s, x \in Session :
        sessions[s] \in Active /\ sessions[x] \in Active /\ Owner[s] = Owner[x]
            => s = x

NoneActive(d) == \A s \in Session : Owner[s] = d => sessions[s] \notin Active

(* s is on its way to d, runs there, or is yet to be reported. *)
Holds(d, s) ==
    \/ s \in {work[d], job[d], current[d], terminal[d]}
    \/ got[d] # NoReport /\ got[d].session = s

Vacant(d) ==
    /\ job[d] = NoSession
    /\ current[d] = NoSession
    /\ terminal[d] = NoSession

(* Taken from the queue for d and not heard of since. *)
New(d, s) == sessions[s] = "Starting" /\ Owner[s] = d /\ fresh[s] = "unseen"

(* The polling loop and its position in get_pending_work. *)
LoopAt(d) ==
    /\ ~unreachable[d]
    /\ work[d] # NoSession <=> cycle[d] = "send"
    /\ got[d] # NoReport => cycle[d] = "apply" /\ stage[d] # "preparing"
    /\ pc[Poller[d]] \in {"idle", "poll_select", "poll_transition", "poll_reply"}
    /\ pc[Poller[d]] # "idle" => cycle[d] = "work" /\ did[Poller[d]] = d

(* What the task has set, and what get_progress goes by. *)
TaskAt(d) ==
    /\ stage[d] = "idle" => job[d] = NoSession /\ NoSession \in {current[d], terminal[d]}
    /\ stage[d] = "preparing" =>
           New(d, job[d]) /\ current[d] = NoSession /\ terminal[d] = NoSession
    /\ stage[d] = "scanning" => current[d] = job[d] /\ terminal[d] = NoSession
    /\ stage[d] = "ending" => current[d] = job[d] /\ terminal[d] = job[d]

(* The server knows of it, and has heard of it or not yet, but not long ago. *)
HeldAt(d) ==
    \A s \in Session : Holds(d, s) =>
        sessions[s] \in Active /\ Owner[s] = d /\ fresh[s] # "old"

(* A session reported as ended is over, and the work to send is new to a   *)
(* daemon that has nothing else.                                           *)
FreeAt(d) ==
    /\ got[d] # NoReport /\ got[d].phase = "Ended" => Vacant(d)
    /\ cycle[d] = "send" => New(d, work[d]) /\ Vacant(d)

(* get_pending_work between its lock sections. *)
PollAt(d) ==
    LET t == Poller[d]
    IN  /\ pc[t] \in {"poll_select", "poll_transition"} => NoneActive(d)
        /\ pc[t] = "poll_transition" => sessions[sid[t]] = "Pending" /\ Owner[sid[t]] = d
        /\ pc[t] = "poll_reply" /\ sid[t] # NoSession =>
               New(d, sid[t]) /\ sid[t] \notin handed /\ Vacant(d)

CalmAt(d) == LoopAt(d) /\ TaskAt(d) /\ HeldAt(d) /\ FreeAt(d) /\ PollAt(d)

CalmRegistry ==
    /\ \A t \in UserTask : pc[t] \in {"idle", "start_push"}
    /\ \A t \in Task : pc[t] = "start_push" => sessions[sid[t]] = "Pending"
    /\ \A s \in stalled : fresh[s] = "old"
    /\ \A s \in Session : sessions[s] = "Pending" => s \notin handed
    /\ OneActive

CalmParts == CalmRegistry /\ \A d \in Daemon : CalmAt(d)

CalmInv == PollInv /\ CalmParts

(* What of the invariant under every fault the steps below need. *)
LEMMA PollFacts ==
    ASSUME PollInv
    PROVE  /\ IInv /\ TypeOK /\ LocalsSet /\ QueueOwned /\ StartIsPrivate
           /\ TimedWasHanded
           /\ PollTypeOK /\ TasksHaveSessions /\ OnlyHanded
           /\ \A s \in Session : s \notin issued => s \notin handed /\ sessions[s] = "none"
           /\ \A t \in Task : sid[t] # NoSession => sid[t] \in issued
           /\ \A s \in Session : s \notin handed => fresh[s] = "unseen"
           /\ \A d \in Daemon :
                 /\ Poller[d] \in Task /\ Poller[d] \notin UserTask
                 /\ \A e \in Daemon : e # d => Poller[e] # Poller[d]
  <1>1. IInv /\ PollTypeOK /\ TasksHaveSessions /\ OnlyHanded
    BY DEF PollInv
  <1>2. /\ TypeOK /\ LocalsSet /\ QueueOwned /\ StartIsPrivate /\ InUseIsIssued
        /\ TimedWasHanded
    BY <1>1 DEF IInv
  <1>3. \A d \in Daemon :
            /\ Poller[d] \in Task /\ Poller[d] \notin UserTask
            /\ \A e \in Daemon : e # d => Poller[e] # Poller[d]
    BY PollerAssumption DEF UserTask, Range, IsInjective
  <1> QED
    BY <1>1, <1>2, <1>3 DEF InUseIsIssued, Tracked, TimedWasHanded

(* The step leaves daemon e, its poll and its poller where they are. *)
SameAt(e) ==
    /\ unreachable'[e] = unreachable[e] /\ cycle'[e] = cycle[e]
    /\ got'[e] = got[e] /\ work'[e] = work[e]
    /\ job'[e] = job[e] /\ stage'[e] = stage[e]
    /\ current'[e] = current[e] /\ terminal'[e] = terminal[e]
    /\ pc'[Poller[e]] = pc[Poller[e]]
    /\ sid'[Poller[e]] = sid[Poller[e]]
    /\ did'[Poller[e]] = did[Poller[e]]

(* The step spares what daemon e holds and what waits for it. *)
SparedAt(e) ==
    \A s \in Session : Owner[s] = e =>
        /\ Holds(e, s) \/ (sessions[s] # "none" /\ fresh[s] = "unseen") =>
               sessions'[s] = sessions[s] /\ fresh'[s] = fresh[s]
        /\ sessions'[s] \in Active => sessions[s] \in Active
        /\ s \in handed' => s \in handed

LEMMA CalmKept ==
    ASSUME PollInv, CalmRegistry, NEW e \in Daemon, CalmAt(e), SameAt(e), SparedAt(e)
    PROVE  CalmAt(e)'
  <1>1. \A s : Holds(e, s)' <=> Holds(e, s)
    BY DEF Holds, SameAt
  <1>2. Vacant(e)' <=> Vacant(e)
    BY DEF Vacant, SameAt
  <1>3. ASSUME NEW s \in Session, New(e, s)
        PROVE  sessions'[s] = "Starting" /\ Owner[s] = e /\ fresh'[s] = "unseen"
    BY <1>3 DEF New, SparedAt
  <1>4. stage[e] # "idle" => job[e] \in Session
    BY PollFacts DEF TasksHaveSessions
  <1>5. cycle[e] = "send" => work[e] \in Session
    BY PollFacts DEF TasksHaveSessions
  <1>6. pc[Poller[e]] = "poll_transition" => sid[Poller[e]] \in Session
    BY PollFacts DEF LocalsSet
  <1>7. sid[Poller[e]] \in Session \cup {NoSession}
    BY PollFacts DEF TypeOK
  <1>8. LoopAt(e)'
    BY DEF CalmAt, LoopAt, SameAt
  <1>9. TaskAt(e)'
    <2>1. stage[e] = "preparing" => New(e, job[e]) /\ job[e] \in Session
      BY <1>4 DEF CalmAt, TaskAt
    <2>2. job'[e] = job[e] /\ stage'[e] = stage[e]
      BY DEF SameAt
    <2>3. stage'[e] = "preparing" => New(e, job[e])'
      BY <1>3, <2>1, <2>2 DEF New
    <2> QED
      BY <2>3 DEF CalmAt, TaskAt, SameAt
  <1>10. HeldAt(e)'
    BY <1>1 DEF CalmAt, HeldAt, SparedAt
  <1>11. FreeAt(e)'
    <2>1. cycle[e] = "send" => New(e, work[e]) /\ work[e] \in Session
      BY <1>5 DEF CalmAt, FreeAt
    <2>2. work'[e] = work[e] /\ cycle'[e] = cycle[e]
      BY DEF SameAt
    <2>3. cycle'[e] = "send" => New(e, work[e])'
      BY <1>3, <2>1, <2>2 DEF New
    <2> QED
      BY <1>2, <2>3 DEF CalmAt, FreeAt, SameAt
  <1>12. PollAt(e)'
    <2> DEFINE t == Poller[e]
    <2>1. NoneActive(e) => NoneActive(e)'
      BY DEF NoneActive, SparedAt
    <2>2. ASSUME pc[t] = "poll_transition"
          PROVE  sessions'[sid[t]] = "Pending" /\ Owner[sid[t]] = e
      <3>1. sessions[sid[t]] = "Pending" /\ Owner[sid[t]] = e
        BY <2>2 DEF CalmAt, PollAt
      <3>2. fresh[sid[t]] = "unseen"
        BY <1>6, <2>2, <3>1, PollFacts DEF CalmRegistry
      <3> QED
        BY <1>6, <2>2, <3>1, <3>2 DEF SparedAt
    <2>3. ASSUME pc[t] = "poll_reply", sid[t] # NoSession
          PROVE  /\ sessions'[sid[t]] = "Starting" /\ Owner[sid[t]] = e
                 /\ fresh'[sid[t]] = "unseen"
                 /\ sid[t] \notin handed' /\ Vacant(e)
      <3>1. New(e, sid[t]) /\ sid[t] \notin handed /\ Vacant(e)
        BY <2>3 DEF CalmAt, PollAt
      <3>2. sid[t] \in Session /\ Owner[sid[t]] = e
        BY <1>7, <2>3, <3>1 DEF New
      <3> QED
        BY <1>3, <3>1, <3>2 DEF SparedAt
    <2>4. pc'[t] = pc[t] /\ sid'[t] = sid[t]
      BY DEF SameAt
    <2> QED
      BY <1>2, <2>1, <2>2, <2>3, <2>4 DEF CalmAt, PollAt, New
  <1> QED
    BY <1>8, <1>9, <1>10, <1>11, <1>12 DEF CalmAt

(* A step of daemon d alone. *)
LEMMA OthersCalm ==
    ASSUME PollInv, CalmParts, NEW d \in Daemon, UNCHANGED svars,
           \A e \in Daemon \ {d} :
               /\ unreachable'[e] = unreachable[e] /\ cycle'[e] = cycle[e]
               /\ got'[e] = got[e] /\ work'[e] = work[e]
               /\ job'[e] = job[e] /\ stage'[e] = stage[e]
               /\ current'[e] = current[e] /\ terminal'[e] = terminal[e],
           CalmAt(d)'
    PROVE  CalmParts'
  <1>1. UNCHANGED <<sessions, fresh, handed, pc, sid, did, stalled>>
    BY DEF svars, maps, task, sweep
  <1>2. CalmRegistry'
    BY <1>1 DEF CalmParts, CalmRegistry, OneActive
  <1>3. ASSUME NEW e \in Daemon, e # d
        PROVE  CalmAt(e)'
    <2>1. SameAt(e) /\ SparedAt(e)
      BY <1>1, <1>3 DEF SameAt, SparedAt
    <2> QED
      BY <2>1, CalmKept DEF CalmParts
  <1> QED
    BY <1>2, <1>3 DEF CalmParts

(* A step of the task: it holds no session it did not hold, nor sets out   *)
(* on one while the daemon is vacant.                                      *)
LEMMA TaskKept ==
    ASSUME PollInv, CalmParts, NEW d \in Daemon, UNCHANGED <<svars, pvars>>,
           \A e \in Daemon \ {d} :
               /\ job'[e] = job[e] /\ stage'[e] = stage[e]
               /\ current'[e] = current[e] /\ terminal'[e] = terminal[e],
           {job'[d], current'[d], terminal'[d]} \subseteq {job[d], current[d], NoSession},
           stage'[d] # "preparing",
           Vacant(d) => Vacant(d)',
           TaskAt(d)'
    PROVE  CalmParts'
  <1>1. UNCHANGED <<sessions, fresh, handed, pc, sid, did, stalled>>
    BY DEF svars, maps, task, sweep
  <1>2. UNCHANGED <<unreachable, cycle, got, work>>
    BY DEF pvars
  <1>3. LoopAt(d)'
    BY <1>1, <1>2 DEF CalmParts, CalmAt, LoopAt
  <1>4. HeldAt(d)'
    <2>1. ASSUME NEW s \in Session, Holds(d, s)'
          PROVE  Holds(d, s)
      BY <1>2, <2>1, NullAssumption DEF Holds
    <2> QED
      BY <1>1, <2>1 DEF CalmParts, CalmAt, HeldAt
  <1>5. FreeAt(d)'
    BY <1>1, <1>2 DEF CalmParts, CalmAt, FreeAt, New
  <1>6. PollAt(d)'
    BY <1>1 DEF CalmParts, CalmAt, PollAt, New, NoneActive
  <1>7. CalmAt(d)'
    BY <1>3, <1>4, <1>5, <1>6 DEF CalmAt
  <1> QED
    BY <1>2, <1>7, OthersCalm

LEMMA TaskCalm ==
    ASSUME PollInv, CalmParts, NEW d \in Daemon,
           \/ RunTask(d) \/ PrepareFails(d) \/ AbortDiscovery(d)
           \/ DaemonRestart(d)
    PROVE  CalmParts'
  <1>0. /\ job \in [Daemon -> Session \cup {NoSession}]
        /\ stage \in [Daemon -> {"idle", "preparing", "scanning", "ending"}]
        /\ current \in [Daemon -> Session \cup {NoSession}]
        /\ terminal \in [Daemon -> Session \cup {NoSession}]
        /\ stage[d] # "idle" => job[d] \in Session
    BY PollFacts DEF PollTypeOK, TasksHaveSessions
  <1>1. UNCHANGED <<svars, pvars>>
    BY DEF RunTask, StartDiscovery, FinishDiscovery, CloseSession, PrepareFails,
           AbortDiscovery, DaemonRestart
  <1>2. \A e \in Daemon \ {d} :
            /\ job'[e] = job[e] /\ stage'[e] = stage[e]
            /\ current'[e] = current[e] /\ terminal'[e] = terminal[e]
    BY <1>0 DEF RunTask, StartDiscovery, FinishDiscovery, CloseSession, PrepareFails,
                AbortDiscovery, DaemonRestart, EndTask
  <1>3. TaskAt(d)
    BY DEF CalmParts, CalmAt
  <1>4. CASE StartDiscovery(d)
    <2>1. /\ stage[d] = "preparing" /\ job'[d] = job[d] /\ stage'[d] = "scanning"
          /\ current'[d] = job[d] /\ terminal'[d] = NoSession
      BY <1>0, <1>4 DEF StartDiscovery
    <2> QED
      BY <1>0, <1>1, <1>2, <2>1, NullAssumption, TaskKept DEF TaskAt, Vacant
  <1>5. CASE FinishDiscovery(d)
    <2>1. /\ stage[d] = "scanning" /\ job'[d] = job[d] /\ stage'[d] = "ending"
          /\ current'[d] = current[d] /\ terminal'[d] = job[d]
      BY <1>0, <1>5 DEF FinishDiscovery
    <2>2. TaskAt(d)'
      BY <1>3, <2>1 DEF TaskAt
    <2> QED
      BY <1>0, <1>1, <1>2, <2>1, <2>2, NullAssumption, TaskKept DEF Vacant
  <1>6. CASE CloseSession(d)
    <2>1. /\ stage[d] = "ending" /\ job'[d] = NoSession /\ stage'[d] = "idle"
          /\ current'[d] = NoSession /\ terminal'[d] = job[d]
      BY <1>0, <1>3, <1>6 DEF CloseSession, EndTask, TaskAt
    <2> QED
      BY <1>0, <1>1, <1>2, <2>1, NullAssumption, TaskKept DEF TaskAt, Vacant
  <1>7. CASE PrepareFails(d) \/ AbortDiscovery(d)
    <2>1. /\ stage[d] \in {"preparing", "scanning"}
          /\ job'[d] = NoSession /\ stage'[d] = "idle"
          /\ current'[d] = current[d] /\ terminal'[d] = terminal[d]
      BY <1>0, <1>7 DEF PrepareFails, AbortDiscovery, EndTask
    <2>2. terminal[d] = NoSession
      BY <1>3, <2>1 DEF TaskAt
    <2>3. TaskAt(d)'
      BY <2>1, <2>2 DEF TaskAt
    <2> QED
      BY <1>0, <1>1, <1>2, <2>1, <2>2, <2>3, NullAssumption, TaskKept DEF Vacant
  <1>8. CASE DaemonRestart(d)
    <2>1. /\ job'[d] = NoSession /\ stage'[d] = "idle"
          /\ current'[d] = NoSession /\ terminal'[d] = NoSession
      BY <1>0, <1>8 DEF DaemonRestart, EndTask
    <2> QED
      BY <1>1, <1>2, <2>1, TaskKept DEF TaskAt, Vacant
  <1> QED
    BY <1>4, <1>5, <1>6, <1>7, <1>8 DEF RunTask

(* The polling loop as far as it leaves the registry alone. *)
LEMMA LoopCalm ==
    ASSUME PollInv, CalmParts, Calm, NEW d \in Daemon,
           \/ PollStatus(d) \/ PollDiscovery(d) \/ PollLost(d) \/ PollGivenUp(d)
           \/ MarkUnreachable(d) \/ RetryConnection(d)
           \/ Initiate(d) \/ InitiateUnanswered(d) \/ InitiateGivenUp(d)
    PROVE  CalmParts'
  <1>0. /\ cycle \in [Daemon -> {"idle", "progress", "apply", "work", "send"}]
        /\ got \in [Daemon -> Reports \cup {NoReport}]
        /\ work \in [Daemon -> Session \cup {NoSession}]
        /\ job \in [Daemon -> Session \cup {NoSession}]
        /\ stage \in [Daemon -> {"idle", "preparing", "scanning", "ending"}]
        /\ current \in [Daemon -> Session \cup {NoSession}]
        /\ terminal \in [Daemon -> Session \cup {NoSession}]
        /\ stage[d] # "idle" => job[d] \in Session
        /\ cycle[d] = "send" => work[d] \in Session
    BY PollFacts DEF PollTypeOK, TasksHaveSessions
  <1>1. LoopAt(d) /\ TaskAt(d) /\ HeldAt(d) /\ FreeAt(d) /\ PollAt(d)
    BY DEF CalmParts, CalmAt
  <1>2. ~MarkUnreachable(d) /\ ~InitiateUnanswered(d) /\ ~RetryConnection(d)
    BY <1>1 DEF Calm, MarkUnreachable, InitiateUnanswered, RetryConnection, LoopAt
  <1>3. ~InitiateGivenUp(d)
    BY <1>1 DEF Calm, InitiateGivenUp, IsRunning, FreeAt, Vacant
  <1>4. UNCHANGED <<svars, unreachable, current>>
    BY <1>2, <1>3 DEF PollStatus, PollDiscovery, PollLost, PollGivenUp, Initiate,
                      SendDone, dvars, pvars
  <1>5. UNCHANGED <<sessions, fresh, handed, pc, sid, did>>
    BY <1>4 DEF svars, maps, task
  <1>6. \A e \in Daemon \ {d} :
            /\ cycle'[e] = cycle[e] /\ got'[e] = got[e] /\ work'[e] = work[e]
            /\ job'[e] = job[e] /\ stage'[e] = stage[e] /\ terminal'[e] = terminal[e]
    <2>1. ASSUME NEW e \in Daemon, e # d
          PROVE  cycle'[e] = cycle[e] /\ got'[e] = got[e] /\ work'[e] = work[e]
      BY <1>0, <1>2, <1>3, <2>1
         DEF PollStatus, PollDiscovery, PollLost, PollGivenUp, Initiate, SendDone,
             Step, pvars
    <2>2. ASSUME NEW e \in Daemon, e # d
          PROVE  /\ job'[e] = job[e] /\ stage'[e] = stage[e]
                 /\ terminal'[e] = terminal[e]
      BY <1>0, <1>2, <1>3, <2>2
         DEF PollStatus, PollDiscovery, PollLost, PollGivenUp, Initiate, Accept,
             ServePoll, dvars
    <2> QED
      BY <2>1, <2>2
  <1>7. CASE PollStatus(d) \/ PollGivenUp(d)
    <2>1. /\ cycle[d] \in {"idle", "progress"} /\ cycle'[d] \in {"progress", "work"}
          /\ UNCHANGED <<got, work, job, stage, terminal>>
      BY <1>0, <1>7 DEF PollStatus, PollGivenUp, Step, dvars
    <2>2. LoopAt(d)'
      BY <1>1, <1>4, <1>5, <2>1 DEF LoopAt
    <2>3. TaskAt(d)' /\ HeldAt(d)'
      BY <1>1, <1>4, <1>5, <2>1 DEF TaskAt, HeldAt, Holds, New
    <2>4. FreeAt(d)' /\ PollAt(d)'
      BY <1>1, <1>4, <1>5, <2>1 DEF FreeAt, PollAt, New, Vacant, NoneActive
    <2> QED
      BY <1>4, <1>6, <2>2, <2>3, <2>4, OthersCalm DEF CalmAt
  <1>8. CASE PollDiscovery(d) \/ PollLost(d)
    <2>1. /\ cycle[d] = "progress" /\ got[d] = NoReport
          /\ UNCHANGED <<work, job, stage>>
          /\ terminal'[d] = IF current[d] = NoSession THEN NoSession ELSE terminal[d]
          /\ \/ cycle'[d] = "apply" /\ got'[d] = Progress(d)
             \/ cycle'[d] = "progress" /\ got'[d] = NoReport
      BY <1>0, <1>1, <1>8 DEF PollDiscovery, PollLost, ServePoll, Step, pvars, LoopAt
    <2>2. /\ Progress(d) # NoReport =>
                 /\ Progress(d).session \in {current[d], terminal[d]} \ {NoSession}
                 /\ stage[d] # "preparing"
          /\ Progress(d) # NoReport /\ Progress(d).phase = "Ended" =>
                 current[d] = NoSession /\ terminal[d] # NoSession
      BY <1>1 DEF Progress, TaskAt
    <2> HIDE DEF Progress
    <2>3. LoopAt(d)'
      BY <1>1, <1>4, <1>5, <2>1, <2>2 DEF LoopAt
    <2>4. TaskAt(d)'
      BY <1>0, <1>1, <1>4, <1>5, <2>1, NullAssumption DEF TaskAt, New
    <2>5. HeldAt(d)'
      <3>1. ASSUME NEW s \in Session, Holds(d, s)'
            PROVE  Holds(d, s)
        BY <1>4, <2>1, <2>2, <3>1, NullAssumption DEF Holds
      <3> QED
        BY <1>1, <1>5, <3>1 DEF HeldAt
    <2>6. FreeAt(d)'
      <3>1. current[d] = NoSession /\ terminal[d] # NoSession => job[d] = NoSession
        BY <1>0, <1>1, NullAssumption DEF TaskAt
      <3> QED
        BY <1>4, <1>5, <2>1, <2>2, <3>1 DEF FreeAt, Vacant
    <2>7. PollAt(d)'
      BY <1>1, <1>5, <2>1 DEF LoopAt, PollAt
    <2> QED
      BY <1>4, <1>6, <2>3, <2>4, <2>5, <2>6, <2>7, OthersCalm DEF CalmAt
  <1>9. CASE Initiate(d)
    <2>1. /\ cycle[d] = "send" /\ cycle'[d] = "idle"
          /\ got[d] = NoReport /\ got' = got
          /\ work'[d] = NoSession
          /\ job'[d] = work[d] /\ stage'[d] = "preparing" /\ terminal' = terminal
      BY <1>0, <1>1, <1>9 DEF Initiate, Accept, SendDone, Step, LoopAt
    <2>2. New(d, work[d]) /\ Vacant(d)
      BY <1>1, <2>1 DEF FreeAt
    <2>3. LoopAt(d)'
      BY <1>1, <1>4, <1>5, <2>1 DEF LoopAt
    <2>4. TaskAt(d)'
      BY <1>4, <1>5, <2>1, <2>2 DEF TaskAt, New, Vacant
    <2>5. HeldAt(d)'
      <3>1. ASSUME NEW s \in Session, Holds(d, s)'
            PROVE  Holds(d, s)
        BY <1>4, <2>1, <3>1, NullAssumption DEF Holds
      <3> QED
        BY <1>1, <1>5, <3>1 DEF HeldAt
    <2>6. FreeAt(d)'
      BY <2>1 DEF FreeAt
    <2>7. PollAt(d)'
      BY <1>1, <1>5, <2>1 DEF LoopAt, PollAt
    <2> QED
      BY <1>4, <1>6, <2>3, <2>4, <2>5, <2>6, <2>7, OthersCalm DEF CalmAt
  <1> QED
    BY <1>2, <1>3, <1>7, <1>8, <1>9

(* A step of the registry that spares every daemon. *)
LEMMA RegistryKept ==
    ASSUME PollInv, CalmParts, UNCHANGED <<pvars, dvars>>,
           \A e \in Daemon :
               /\ pc'[Poller[e]] = pc[Poller[e]]
               /\ sid'[Poller[e]] = sid[Poller[e]]
               /\ did'[Poller[e]] = did[Poller[e]]
               /\ SparedAt(e),
           CalmRegistry'
    PROVE  CalmParts'
  <1>1. ASSUME NEW e \in Daemon
        PROVE  CalmAt(e)'
    <2>1. SameAt(e)
      BY DEF SameAt, pvars, dvars
    <2> QED
      BY <2>1, CalmKept DEF CalmParts
  <1> QED
    BY <1>1 DEF CalmParts

(* What a daemon holds is active, hence tracked, and was handed out. *)
LEMMA HeldFacts ==
    ASSUME PollInv, CalmParts, NEW d \in Daemon, NEW s \in Session, Holds(d, s)
    PROVE  /\ sessions[s] \in Active /\ sessions[s] # "none" /\ sessions[s] # "Pending"
           /\ Owner[s] = d /\ fresh[s] # "old" /\ s \notin stalled
           /\ s \in handed
  <1>1. sessions[s] \in Active /\ Owner[s] = d /\ fresh[s] # "old"
    BY DEF CalmParts, CalmAt, HeldAt
  <1>2. s \notin stalled
    BY <1>1 DEF CalmParts, CalmRegistry
  <1>3. s \in handed
    BY PollFacts, NullAssumption DEF Holds, OnlyHanded
  <1> QED
    BY <1>1, <1>2, <1>3 DEF Active, Reported

LEMMA UserCalm ==
    ASSUME PollInv, CalmParts, Calm, NEW t \in UserTask,
           \/ \E s \in Session : UserStart(t, s) \/ UserCancel(t, s)
           \/ UserStep(t) \/ PushCancel(t) \/ EndCancel(t)
    PROVE  CalmParts'
  <1>0. /\ t \in Task /\ TypeOK /\ LocalsSet
        /\ \A e \in Daemon : Poller[e] \in Task \ {t}
    BY PollFacts DEF UserTask
  <1>1. pc[t] \in {"idle", "start_push"}
    BY DEF CalmParts, CalmRegistry
  <1>2. \/ \E s \in Session : UserStart(t, s)
        \/ StartPush(t) /\ UNCHANGED <<pvars, dvars>>
    BY <1>1 DEF Calm, UserCancel, UserStep, CancelPending, PushCancel, EndCancel
  <1>3. ASSUME NEW s \in Session, UserStart(t, s)
        PROVE  CalmParts'
    <2>1. /\ s \notin issued
          /\ sessions' = [sessions EXCEPT ![s] = "Pending"]
          /\ sid' = [sid EXCEPT ![t] = s]
          /\ pc' = [pc EXCEPT ![t] = "start_push"]
          /\ UNCHANGED <<fresh, handed, did, stalled, pvars, dvars>>
      BY <1>3 DEF UserStart, StartInsert, Goto, sweep
    <2>2. s \notin handed /\ sessions[s] = "none" /\ \A x \in Task : sid[x] # s
      BY <2>1, PollFacts, NullAssumption
    <2>3. /\ sessions'[s] = "Pending"
          /\ \A x \in Session \ {s} : sessions'[x] = sessions[x]
          /\ pc'[t] = "start_push" /\ sid'[t] = s
          /\ \A x \in Task \ {t} : pc'[x] = pc[x] /\ sid'[x] = sid[x] /\ did'[x] = did[x]
      BY <1>0, <2>1 DEF TypeOK
    <2>4. \A x \in Session : sessions'[x] \in Active => x # s /\ sessions[x] \in Active
      BY <2>3 DEF Active, Reported
    <2>5. ASSUME NEW e \in Daemon
          PROVE  SparedAt(e)
      <3>1. ASSUME NEW x \in Session, Holds(e, x)
            PROVE  x # s
        BY <2>2, <3>1, HeldFacts
      <3> QED
        BY <2>1, <2>2, <2>3, <2>4, <3>1 DEF SparedAt
    <2>6. CalmRegistry'
      <3>1. \A x \in UserTask : pc'[x] \in {"idle", "start_push"}
        BY <2>3 DEF CalmParts, CalmRegistry, UserTask
      <3>2. \A x \in Task : pc'[x] = "start_push" => sessions'[sid'[x]] = "Pending"
        <4>1. \A x \in Task \ {t} : pc[x] = "start_push" => sid[x] \in Session \ {s}
          BY <1>0, <2>2 DEF LocalsSet
        <4> QED
          BY <2>3, <4>1 DEF CalmParts, CalmRegistry
      <3>3. OneActive'
        BY <2>4 DEF CalmParts, CalmRegistry, OneActive
      <3> QED
        BY <2>1, <2>2, <2>3, <3>1, <3>2, <3>3 DEF CalmParts, CalmRegistry
    <2> QED
      BY <1>0, <2>1, <2>3, <2>5, <2>6, RegistryKept
  <1>4. CASE StartPush(t) /\ UNCHANGED <<pvars, dvars>>
    <2>1. /\ pc' = [pc EXCEPT ![t] = "idle"]
          /\ sid' = [sid EXCEPT ![t] = NoSession]
          /\ did' = [did EXCEPT ![t] = NoDaemon]
          /\ UNCHANGED <<sessions, fresh, handed, stalled, pvars, dvars>>
      BY <1>4 DEF StartPush, Return, sweep
    <2>2. /\ pc'[t] = "idle"
          /\ \A x \in Task \ {t} : pc'[x] = pc[x] /\ sid'[x] = sid[x] /\ did'[x] = did[x]
      BY <1>0, <2>1 DEF TypeOK
    <2>3. \A e \in Daemon : SparedAt(e)
      BY <2>1 DEF SparedAt
    <2>4. CalmRegistry'
      BY <2>1, <2>2 DEF CalmParts, CalmRegistry, OneActive, UserTask
    <2> QED
      BY <1>0, <2>1, <2>2, <2>3, <2>4, RegistryKept
  <1> QED
    BY <1>2, <1>3, <1>4

(* Time passes, and the cleanup runs: only what is old is swept. *)
LEMMA TimeCalm ==
    ASSUME PollInv, CalmParts, Calm,
           (\E s \in Session : Elapse(s)) \/ CleanupStep \/ SweepStep
    PROVE  CalmParts'
  <1>0. TypeOK
    BY PollFacts
  <1>1. UNCHANGED <<pvars, dvars, handed, pc, sid, did>>
    BY DEF Elapse, Age, CleanupStep, Cleanup, CleanupScan, CleanupLock,
           CleanupRequest, SweepStep, Sweep, CleanupSweep, CleanupEvict, maps, task
  <1>2. ASSUME \A x \in Session :
                   \/ sessions'[x] = sessions[x]
                   \/ sessions'[x] = "none" /\ fresh[x] = "old",
               \A x \in Session :
                   \/ fresh'[x] = fresh[x]
                   \/ fresh[x] = "old" /\ (sessions[x] = "none" \/ sessions'[x] = "none")
                   \/ fresh[x] = "recent" /\ \A e \in Daemon : ~Holds(e, x),
               \A x \in stalled' : fresh'[x] = "old"
        PROVE  CalmParts'
    <2>1. \A x \in Session : sessions'[x] # "none" => sessions'[x] = sessions[x]
      BY <1>2
    <2>2. \A x \in Session : sessions'[x] \in Active => sessions[x] \in Active
      BY <2>1 DEF Active, Reported
    <2>3. ASSUME NEW e \in Daemon
          PROVE  SparedAt(e)
      <3>1. ASSUME NEW x \in Session, Holds(e, x)
            PROVE  sessions'[x] = sessions[x] /\ fresh'[x] = fresh[x]
        BY <1>2, <3>1, HeldFacts
      <3> QED
        BY <1>1, <1>2, <2>2, <3>1 DEF SparedAt
    <2>4. \A x \in Task : pc[x] = "start_push" => sessions'[sid[x]] = "Pending"
      <3>1. ASSUME NEW x \in Task, pc[x] = "start_push"
            PROVE  /\ sid[x] \in Session /\ sessions[sid[x]] = "Pending"
                   /\ fresh[sid[x]] = "unseen"
        BY <3>1, PollFacts DEF CalmParts, CalmRegistry, LocalsSet
      <3> QED
        BY <1>2, <3>1
    <2>5. CalmRegistry'
      BY <1>1, <1>2, <2>1, <2>2, <2>4 DEF CalmParts, CalmRegistry, OneActive
    <2> QED
      BY <1>1, <2>3, <2>5, RegistryKept
  <1>3. ASSUME NEW s \in Session, Elapse(s)
        PROVE  CalmParts'
    <2>1. Silent(s) /\ fresh[s] = "recent" /\ fresh' = [fresh EXCEPT ![s] = "old"]
          /\ UNCHANGED <<sessions, stalled>>
      BY <1>3 DEF Elapse, Age, Calm, sweep
    <2>2. ASSUME NEW e \in Daemon, Holds(e, s)
          PROVE  FALSE
      <3>1. Owner[s] = e /\ ~unreachable[e]
        BY <2>2, HeldFacts DEF CalmParts, CalmAt, LoopAt
      <3>2. s = work[e]
        BY <2>1, <2>2, <3>1 DEF Silent, Holds
      <3>3. cycle[e] = "send"
        BY <3>1, <3>2, NullAssumption DEF CalmParts, CalmAt, LoopAt
      <3> QED
        BY <2>1, <3>2, <3>3 DEF CalmParts, CalmAt, FreeAt, New
    <2>3. \A x \in stalled' : fresh'[x] = "old"
      BY <1>0, <2>1 DEF TypeOK, CalmParts, CalmRegistry
    <2>4. \A x \in Session :
              \/ fresh'[x] = fresh[x]
              \/ fresh[x] = "recent" /\ \A e \in Daemon : ~Holds(e, x)
      BY <1>0, <2>1, <2>2 DEF TypeOK
    <2> QED
      BY <1>2, <2>1, <2>3, <2>4
  <1>4. CASE CleanupStep
    <2>1. UNCHANGED <<sessions, fresh>>
          /\ (stalled' = stalled \/ stalled' = {s \in Session : IsStalled(s)})
      BY <1>4 DEF CleanupStep, Cleanup, CleanupScan, CleanupLock, CleanupRequest, maps
    <2>2. \A x \in stalled' : fresh'[x] = "old"
      BY <2>1 DEF IsStalled, CalmParts, CalmRegistry
    <2> QED
      BY <1>2, <2>1, <2>2
  <1>5. ASSUME NEW s \in Session, CleanupSweep(s)
        PROVE  CalmParts'
    <2>1. s \in stalled /\ stalled' = stalled \ {s} /\ fresh[s] = "old"
      BY <1>5 DEF CleanupSweep, CalmParts, CalmRegistry
    <2>2. \/ sessions' = sessions /\ fresh' = fresh
          \/ /\ sessions' = [sessions EXCEPT ![s] = "none"]
             /\ fresh' = [fresh EXCEPT ![s] = "unseen"]
      BY <1>5 DEF CleanupSweep, maps
    <2>3. \A x \in Session : x # s => sessions'[x] = sessions[x] /\ fresh'[x] = fresh[x]
      BY <1>0, <2>2 DEF TypeOK
    <2>4. \/ sessions'[s] = sessions[s] /\ fresh'[s] = fresh[s]
          \/ sessions'[s] = "none"
      BY <1>0, <2>2 DEF TypeOK
    <2>5. \A x \in stalled' : fresh'[x] = "old"
      BY <1>0, <2>1, <2>3 DEF TypeOK, CalmParts, CalmRegistry
    <2> QED
      BY <1>2, <2>1, <2>3, <2>4, <2>5
  <1>6. CASE CleanupEvict
    <2>1. /\ stalled' = {} /\ sessions' = sessions
          /\ fresh' = [s \in Session |-> IF ~Tracked(s) /\ fresh[s] = "old"
                                         THEN "unseen" ELSE fresh[s]]
      BY <1>6 DEF CleanupEvict
    <2>2. \A x \in Session : \/ fresh'[x] = fresh[x]
                             \/ fresh[x] = "old" /\ sessions[x] = "none"
      BY <2>1 DEF Tracked
    <2> QED
      BY <1>2, <2>1, <2>2
  <1> QED
    BY <1>3, <1>4, <1>5, <1>6 DEF SweepStep, Sweep

(* A step of daemon d's poll through the registry: it spares the others.   *)
LEMMA PollerKept ==
    ASSUME PollInv, CalmParts, NEW d \in Daemon,
           \A e \in Daemon \ {d} :
               /\ unreachable'[e] = unreachable[e] /\ cycle'[e] = cycle[e]
               /\ got'[e] = got[e] /\ work'[e] = work[e]
               /\ job'[e] = job[e] /\ stage'[e] = stage[e]
               /\ current'[e] = current[e] /\ terminal'[e] = terminal[e],
           \A x \in Task \ {Poller[d]} :
               pc'[x] = pc[x] /\ sid'[x] = sid[x] /\ did'[x] = did[x],
           \A s \in Session : Owner[s] # d =>
               /\ sessions'[s] = sessions[s] /\ fresh'[s] = fresh[s]
               /\ s \in handed' => s \in handed,
           CalmAt(d)',
           CalmRegistry'
    PROVE  CalmParts'
  <1>1. ASSUME NEW e \in Daemon, e # d
        PROVE  CalmAt(e)'
    <2>1. Poller[e] \in Task \ {Poller[d]}
      BY <1>1, PollFacts
    <2>2. SameAt(e)
      BY <1>1, <2>1 DEF SameAt
    <2>3. SparedAt(e)
      BY <1>1 DEF SparedAt
    <2> QED
      BY <2>2, <2>3, CalmKept DEF CalmParts
  <1> QED
    BY <1>1 DEF CalmParts

(* What a poll applies is of the one session that is active.               *)
LEMMA ApplyIs ==
    ASSUME PollInv, CalmParts, NEW d \in Daemon, ApplyProgress(d), got[d] # NoReport
    PROVE  \E s \in Session :
             /\ s = got[d].session /\ Holds(d, s)
             /\ \A x \in Session \ {s} :
                    sessions'[x] = sessions[x] /\ fresh'[x] = fresh[x]
             /\ fresh'[s] = "recent"
             /\ \/ sessions'[s] = "Scanning" /\ got[d].phase = "Scanning"
                \/ sessions'[s] = "none" /\ got[d].phase = "Ended"
             /\ UNCHANGED <<handed, pc, sid, did, stalled>>
  <1>1. TypeOK /\ IInv /\ got[d] \in Reports
    BY PollFacts DEF PollTypeOK
  <1>2. PICK s \in Session : s = got[d].session
    BY <1>1 DEF Reports
  <1>3. Holds(d, s)
    BY <1>2 DEF Holds
  <1>4. Apply(got[d])
    BY DEF ApplyProgress
  <1>5. sessions[s] \in Active /\ Owner[s] = d /\ Tracked(s) /\ ~Redundant(s)
    BY <1>3, HeldFacts DEF Tracked, Redundant
  <1>6. \A x \in Session \ {s} : Owner[x] = Owner[s] => sessions[x] \notin Active
    BY <1>5 DEF CalmParts, CalmRegistry, OneActive
  <1>7. /\ fresh' = [fresh EXCEPT ![s] = "recent"]
        /\ UNCHANGED <<handed, pc, sid, did, stalled>>
    BY <1>2, <1>4 DEF Apply, UpdateTerminal, UpdateRedundant, UpdateProgress, task,
                      sweep
  <1>8. /\ fresh'[s] = "recent"
        /\ \A x \in Session \ {s} : fresh'[x] = fresh[x]
    BY <1>1, <1>7 DEF TypeOK
  <1>9. CASE got[d].phase = "Ended"
    <2>1. UpdateTerminal(s)
      BY <1>2, <1>4, <1>5, <1>9 DEF Apply, UpdateRedundant
    <2>2. /\ sessions'[s] = "none"
          /\ \A x \in Session \ {s} : sessions'[x] = sessions[x]
      BY <1>1, <1>5, <1>6, <2>1, TerminalIsLocal
    <2> QED
      BY <1>2, <1>3, <1>7, <1>8, <1>9, <2>2
  <1>10. CASE got[d].phase = "Scanning"
    <2>1. sessions' = [sessions EXCEPT ![s] = "Scanning"]
      BY <1>2, <1>4, <1>10 DEF Apply, UpdateProgress
    <2>2. /\ sessions'[s] = "Scanning"
          /\ \A x \in Session \ {s} : sessions'[x] = sessions[x]
      BY <1>1, <2>1 DEF TypeOK
    <2> QED
      BY <1>2, <1>3, <1>7, <1>8, <1>10, <2>2
  <1> QED
    BY <1>1, <1>9, <1>10 DEF Reports

LEMMA ApplyCalm ==
    ASSUME PollInv, CalmParts, NEW d \in Daemon, ApplyProgress(d)
    PROVE  CalmParts'
  <1>0. /\ cycle \in [Daemon -> {"idle", "progress", "apply", "work", "send"}]
        /\ got \in [Daemon -> Reports \cup {NoReport}]
        /\ stage[d] # "idle" => job[d] \in Session
    BY PollFacts DEF PollTypeOK, TasksHaveSessions
  <1>1. /\ cycle[d] = "apply" /\ cycle'[d] = "work" /\ got'[d] = NoReport
        /\ UNCHANGED <<unreachable, work, job, stage, current, terminal>>
        /\ \A e \in Daemon \ {d} : cycle'[e] = cycle[e] /\ got'[e] = got[e]
    BY <1>0 DEF ApplyProgress, SignalTask, Step, dvars
  <1>2. LoopAt(d) /\ TaskAt(d) /\ HeldAt(d) /\ FreeAt(d) /\ PollAt(d)
    BY DEF CalmParts, CalmAt
  <1>3. pc[Poller[d]] = "idle" /\ work[d] = NoSession
    BY <1>1, <1>2 DEF LoopAt
  <1>4. ASSUME pc' = pc
        PROVE  LoopAt(d)' /\ FreeAt(d)' /\ PollAt(d)'
    BY <1>1, <1>2, <1>3, <1>4 DEF LoopAt, FreeAt, PollAt
  <1>5. CASE got[d] = NoReport
    <2>1. UNCHANGED svars
      BY <1>5 DEF ApplyProgress
    <2>2. UNCHANGED <<sessions, fresh, pc>>
      BY <2>1 DEF svars, maps, task
    <2>3. TaskAt(d)' /\ HeldAt(d)'
      BY <1>1, <1>2, <1>5, <2>2 DEF TaskAt, HeldAt, Holds, New
    <2> QED
      BY <1>1, <1>4, <2>1, <2>2, <2>3, OthersCalm DEF CalmAt
  <1>6. CASE got[d] # NoReport
    <2>1. PICK s \in Session :
             /\ s = got[d].session /\ Holds(d, s)
             /\ \A x \in Session \ {s} :
                    sessions'[x] = sessions[x] /\ fresh'[x] = fresh[x]
             /\ fresh'[s] = "recent"
             /\ \/ sessions'[s] = "Scanning" /\ got[d].phase = "Scanning"
                \/ sessions'[s] = "none" /\ got[d].phase = "Ended"
             /\ UNCHANGED <<handed, pc, sid, did, stalled>>
      BY <1>6, ApplyIs
    <2>2. sessions[s] \in Active /\ sessions[s] # "Pending" /\ Owner[s] = d
          /\ s \notin stalled
      BY <2>1, HeldFacts
    <2>3. \A x \in Session : sessions'[x] \in Active => sessions[x] \in Active
      BY <2>1, <2>2 DEF Active, Reported
    <2>4. HeldAt(d)'
      <3>1. ASSUME NEW x \in Session, Holds(d, x)'
            PROVE  /\ sessions'[x] \in Active /\ Owner[x] = d /\ fresh'[x] # "old"
        <4>1. Holds(d, x) /\ x \in {job[d], current[d], terminal[d]}
          BY <1>1, <1>3, <3>1, NullAssumption DEF Holds
        <4>2. sessions[x] \in Active /\ Owner[x] = d
          BY <4>1, HeldFacts
        <4>3. x = s
          BY <2>2, <4>2 DEF CalmParts, CalmRegistry, OneActive
        <4>4. ~Vacant(d)
          BY <4>1, NullAssumption DEF Vacant
        <4>5. got[d].phase # "Ended"
          BY <1>2, <1>6, <4>4 DEF FreeAt
        <4> QED
          BY <2>1, <4>2, <4>3, <4>5 DEF Active, Reported
      <3> QED
        BY <3>1 DEF HeldAt
    <2>5. TaskAt(d)'
      BY <1>1, <1>2, <1>6 DEF TaskAt, LoopAt
    <2>6. CalmAt(d)'
      BY <1>4, <2>1, <2>4, <2>5 DEF CalmAt
    <2>7. CalmRegistry'
      <3>1. \A x \in Task : pc'[x] = "start_push" => sessions'[sid'[x]] = "Pending"
        <4>1. ASSUME NEW x \in Task, pc[x] = "start_push"
              PROVE  sid[x] \in Session \ {s} /\ sessions[sid[x]] = "Pending"
          BY <2>2, <4>1, PollFacts DEF CalmParts, CalmRegistry, LocalsSet
        <4> QED
          BY <2>1, <4>1
      <3>2. \A x \in stalled' : fresh'[x] = "old"
        <4>1. stalled \subseteq Session
          BY PollFacts DEF TypeOK
        <4> QED
          BY <2>1, <2>2, <4>1 DEF CalmParts, CalmRegistry
      <3>3. OneActive'
        BY <2>3 DEF CalmParts, CalmRegistry, OneActive
      <3> QED
        BY <2>1, <3>1, <3>2, <3>3 DEF CalmParts, CalmRegistry
    <2>8. \A x \in Session : Owner[x] # d =>
              /\ sessions'[x] = sessions[x] /\ fresh'[x] = fresh[x]
              /\ x \in handed' => x \in handed
      BY <2>1, <2>2
    <2> QED
      BY <1>1, <2>1, <2>6, <2>7, <2>8, PollerKept
  <1> QED
    BY <1>5, <1>6

(* get_pending_work finds the daemon busy, or none of its sessions active. *)
LEMMA AskForWorkCalm ==
    ASSUME PollInv, CalmParts, NEW d \in Daemon, AskForWork(d)
    PROVE  CalmParts'
  <1> DEFINE t == Poller[d]
  <1>0. TypeOK /\ LocalsSet /\ IInv /\ t \in Task
    BY PollFacts
  <1>1. /\ cycle[d] = "work" /\ pc[t] = "idle"
        /\ did' = [did EXCEPT ![t] = d]
        /\ pc' = [pc EXCEPT ![t] = IF HasActiveSession(d)
                                   THEN "poll_reply" ELSE "poll_select"]
        /\ UNCHANGED <<sessions, fresh, handed, sid, stalled>>
        /\ UNCHANGED <<unreachable, cycle, got, work, job, stage, current, terminal>>
    BY DEF AskForWork, PollCheckActive, Goto, maps, sweep, pvars, dvars
  <1>2. /\ did'[t] = d
        /\ pc'[t] = IF HasActiveSession(d) THEN "poll_reply" ELSE "poll_select"
        /\ \A x \in Task \ {t} : pc'[x] = pc[x] /\ sid'[x] = sid[x] /\ did'[x] = did[x]
    BY <1>0, <1>1 DEF TypeOK
  <1>3. sid'[t] = NoSession
    BY <1>0, <1>1 DEF LocalsSet
  <1>4. LoopAt(d) /\ TaskAt(d) /\ HeldAt(d) /\ FreeAt(d) /\ PollAt(d)
    BY DEF CalmParts, CalmAt
  <1>5. ~HasActiveSession(d) => NoneActive(d)
    <2>1. \A x \in Task : pc[x] = "start_push" => sessions[sid[x]] = "Pending"
      BY DEF CalmParts, CalmRegistry
    <2>2. ASSUME NEW s \in Session, Owner[s] = d, sessions[s] \in Active
          PROVE  HasActiveSession(d)
      BY <1>0, <2>1, <2>2, ActiveIsQueued DEF HasActiveSession
    <2> QED
      BY <2>2 DEF NoneActive
  <1>6. LoopAt(d)'
    BY <1>1, <1>2, <1>4 DEF LoopAt
  <1>7. TaskAt(d)' /\ HeldAt(d)' /\ FreeAt(d)'
    BY <1>1, <1>4 DEF TaskAt, HeldAt, FreeAt, Holds, Vacant, New
  <1>8. PollAt(d)'
    BY <1>1, <1>2, <1>3, <1>5 DEF PollAt, NoneActive
  <1>9. CalmRegistry'
    BY <1>1, <1>2, PollFacts DEF CalmParts, CalmRegistry, OneActive, UserTask
  <1>10. CalmAt(d)'
    BY <1>6, <1>7, <1>8 DEF CalmAt
  <1> HIDE DEF t
  <1>11. \A x \in Task \ {Poller[d]} :
             pc'[x] = pc[x] /\ sid'[x] = sid[x] /\ did'[x] = did[x]
    BY <1>2 DEF t
  <1> QED
    BY <1>1, <1>9, <1>10, <1>11, PollerKept

(* The next session is chosen: it is pending, and the daemon's own. *)
LEMMA PollSelectCalm ==
    ASSUME PollInv, CalmParts, NEW d \in Daemon, PollSelect(Poller[d]),
           UNCHANGED <<pvars, dvars>>
    PROVE  CalmParts'
  <1> DEFINE t == Poller[d]
  <1>0. TypeOK /\ LocalsSet /\ QueueOwned /\ t \in Task
    BY PollFacts
  <1>1. /\ pc[t] = "poll_select"
        /\ UNCHANGED <<sessions, fresh, handed, did, stalled>>
        /\ UNCHANGED <<unreachable, cycle, got, work, job, stage, current, terminal>>
    BY DEF PollSelect, maps, sweep, pvars, dvars
  <1>2. LoopAt(d) /\ TaskAt(d) /\ HeldAt(d) /\ FreeAt(d) /\ PollAt(d)
    BY DEF CalmParts, CalmAt
  <1>3. did[t] = d /\ sid[t] = NoSession /\ NoneActive(d)
    BY <1>0, <1>1, <1>2 DEF LoopAt, PollAt, LocalsSet
  <1>4. \/ /\ pc' = [pc EXCEPT ![t] = "poll_reply"]
           /\ sid' = sid
        \/ /\ pc' = [pc EXCEPT ![t] = "poll_transition"]
           /\ \E i \in 1 .. Len(queue[d]) :
                /\ sessions[queue[d][i]] = "Pending"
                /\ sid' = [sid EXCEPT ![t] = queue[d][i]]
    BY <1>3 DEF PollSelect, IsFirstPending, Goto
  <1>5. \/ pc'[t] = "poll_reply" /\ sid'[t] = NoSession
        \/ /\ pc'[t] = "poll_transition"
           /\ sessions[sid'[t]] = "Pending" /\ Owner[sid'[t]] = d
    <2>1. ASSUME NEW i \in 1 .. Len(queue[d])
          PROVE  Owner[queue[d][i]] = d
      <3>1. queue[d] \in Seq(Session)
        BY <1>0 DEF TypeOK
      <3>2. queue[d][i] \in Queued(d)
        BY <3>1 DEF Queued, Range
      <3> QED
        BY <1>0, <3>2 DEF QueueOwned
    <2> QED
      BY <1>0, <1>3, <1>4, <2>1 DEF TypeOK
  <1>6. \A x \in Task \ {t} : pc'[x] = pc[x] /\ sid'[x] = sid[x] /\ did'[x] = did[x]
    BY <1>0, <1>1, <1>4 DEF TypeOK
  <1>7. LoopAt(d)'
    BY <1>1, <1>2, <1>3, <1>5 DEF LoopAt
  <1>8. TaskAt(d)' /\ HeldAt(d)' /\ FreeAt(d)'
    BY <1>1, <1>2 DEF TaskAt, HeldAt, FreeAt, Holds, Vacant, New
  <1>9. PollAt(d)'
    BY <1>1, <1>3, <1>5 DEF PollAt, NoneActive
  <1>10. CalmRegistry'
    BY <1>1, <1>5, <1>6, PollFacts DEF CalmParts, CalmRegistry, OneActive, UserTask
  <1>11. CalmAt(d)'
    BY <1>7, <1>8, <1>9 DEF CalmAt
  <1> HIDE DEF t
  <1>12. \A x \in Task \ {Poller[d]} :
             pc'[x] = pc[x] /\ sid'[x] = sid[x] /\ did'[x] = did[x]
    BY <1>6 DEF t
  <1> QED
    BY <1>1, <1>10, <1>11, <1>12, PollerKept

(* A daemon none of whose sessions is active holds nothing. *)
LEMMA InactiveIsVacant ==
    ASSUME PollInv, CalmParts, NEW d \in Daemon, NoneActive(d)
    PROVE  Vacant(d) /\ stage[d] = "idle" /\ \A s \in Session : ~Holds(d, s)
  <1>1. \A s \in Session : ~Holds(d, s)
    BY HeldFacts DEF NoneActive
  <1>2. /\ {job[d], current[d], terminal[d]} \subseteq Session \cup {NoSession}
        /\ stage[d] # "idle" => job[d] \in Session
    BY PollFacts DEF PollTypeOK, TasksHaveSessions
  <1>3. Vacant(d)
    BY <1>1, <1>2 DEF Vacant, Holds
  <1> QED
    BY <1>1, <1>2, <1>3, NullAssumption DEF Vacant

(* It starts, and is the only one of its daemon that is active. *)
LEMMA PollTransitionCalm ==
    ASSUME PollInv, CalmParts, NEW d \in Daemon, PollTransition(Poller[d]),
           UNCHANGED <<pvars, dvars>>
    PROVE  CalmParts'
  <1> DEFINE t == Poller[d]
  <1>0. TypeOK /\ LocalsSet /\ StartIsPrivate /\ t \in Task
    BY PollFacts
  <1>1. /\ pc[t] = "poll_transition"
        /\ pc' = [pc EXCEPT ![t] = "poll_reply"]
        /\ UNCHANGED <<fresh, handed, sid, did, stalled>>
        /\ UNCHANGED <<unreachable, cycle, got, work, job, stage, current, terminal>>
    BY DEF PollTransition, Goto, sweep, pvars, dvars
  <1>2. LoopAt(d) /\ PollAt(d)
    BY DEF CalmParts, CalmAt
  <1>3. PICK s \in Session : s = sid[t]
    BY <1>0, <1>1 DEF LocalsSet
  <1>4. sessions[s] = "Pending" /\ Owner[s] = d /\ NoneActive(d) /\ did[t] = d
    BY <1>1, <1>2, <1>3 DEF LoopAt, PollAt
  <1>5. s \notin handed /\ fresh[s] = "unseen"
    BY <1>4, PollFacts DEF CalmParts, CalmRegistry
  <1>6. /\ sessions'[s] = "Starting"
        /\ \A x \in Session \ {s} : sessions'[x] = sessions[x]
        /\ pc'[t] = "poll_reply"
        /\ \A x \in Task \ {t} : pc'[x] = pc[x]
    BY <1>0, <1>1, <1>3, <1>4 DEF TypeOK, PollTransition
  <1>7. Vacant(d) /\ stage[d] = "idle" /\ \A x \in Session : ~Holds(d, x)
    BY <1>4, InactiveIsVacant
  <1>8. cycle[d] = "work" /\ got[d] = NoReport /\ work[d] = NoSession /\ ~unreachable[d]
    BY <1>1, <1>2 DEF LoopAt
  <1>9. LoopAt(d)'
    BY <1>1, <1>4, <1>6, <1>8 DEF LoopAt
  <1>10. TaskAt(d)' /\ FreeAt(d)'
    BY <1>1, <1>7, <1>8 DEF TaskAt, FreeAt, Vacant
  <1>11. HeldAt(d)'
    <2>1. \A x \in Session : ~Holds(d, x)'
      BY <1>1, <1>7 DEF Holds
    <2> QED
      BY <2>1 DEF HeldAt
  <1>12. PollAt(d)'
    BY <1>1, <1>3, <1>4, <1>5, <1>6, <1>7 DEF PollAt, New, Vacant
  <1>13. CalmRegistry'
    <2>1. \A x \in UserTask : pc'[x] \in {"idle", "start_push"}
      BY <1>6, PollFacts DEF CalmParts, CalmRegistry, UserTask
    <2>2. ASSUME NEW x \in Task, pc'[x] = "start_push"
          PROVE  sessions'[sid'[x]] = "Pending"
      <3>1. x # t /\ pc[x] = "start_push"
        BY <1>6, <2>2
      <3>2. sid[x] \in Session \ {s}
        BY <1>0, <1>1, <1>3, <3>1 DEF LocalsSet, StartIsPrivate
      <3> QED
        BY <1>1, <1>6, <3>1, <3>2 DEF CalmParts, CalmRegistry
    <2>3. OneActive'
      BY <1>4, <1>6 DEF CalmParts, CalmRegistry, OneActive, NoneActive
    <2>4. \A x \in Session : sessions'[x] = "Pending" => x \notin handed'
      BY <1>1, <1>6 DEF CalmParts, CalmRegistry
    <2> QED
      BY <1>1, <2>1, <2>2, <2>3, <2>4 DEF CalmParts, CalmRegistry
  <1>14. CalmAt(d)'
    BY <1>9, <1>10, <1>11, <1>12 DEF CalmAt
  <1>15. \A x \in Session : Owner[x] # d => sessions'[x] = sessions[x]
    BY <1>4, <1>6
  <1> HIDE DEF t
  <1>16. \A x \in Task \ {Poller[d]} :
             pc'[x] = pc[x] /\ sid'[x] = sid[x] /\ did'[x] = did[x]
    BY <1>1, <1>6 DEF t
  <1> QED
    BY <1>1, <1>13, <1>14, <1>15, <1>16, PollerKept

(* It is handed out, to be sent to a daemon that has nothing else. *)
LEMMA TakeWorkCalm ==
    ASSUME PollInv, CalmParts, NEW d \in Daemon, TakeWork(d)
    PROVE  CalmParts'
  <1> DEFINE t == Poller[d]
  <1>0. /\ TypeOK /\ t \in Task
        /\ cycle \in [Daemon -> {"idle", "progress", "apply", "work", "send"}]
        /\ work \in [Daemon -> Session \cup {NoSession}]
    BY PollFacts DEF PollTypeOK
  <1>1. /\ pc[t] = "poll_reply"
        /\ handed' = handed \cup ({sid[t]} \ {NoSession})
        /\ pc' = [pc EXCEPT ![t] = "idle"]
        /\ sid' = [sid EXCEPT ![t] = NoSession]
        /\ did' = [did EXCEPT ![t] = NoDaemon]
        /\ UNCHANGED <<sessions, fresh, stalled>>
        /\ UNCHANGED <<unreachable, got, job, stage, current, terminal>>
    BY DEF TakeWork, PollReply, Return, sweep, dvars
  <1>2. LoopAt(d) /\ TaskAt(d) /\ HeldAt(d) /\ PollAt(d)
    BY DEF CalmParts, CalmAt
  <1>3. /\ work'[d] = sid[t]
        /\ cycle'[d] = IF sid[t] = NoSession THEN "idle" ELSE "send"
        /\ \A e \in Daemon \ {d} : work'[e] = work[e] /\ cycle'[e] = cycle[e]
    BY <1>0 DEF TakeWork, Step
  <1>4. /\ pc'[t] = "idle" /\ sid'[t] = NoSession
        /\ \A x \in Task \ {t} : pc'[x] = pc[x] /\ sid'[x] = sid[x] /\ did'[x] = did[x]
    BY <1>0, <1>1 DEF TypeOK
  <1>5. got[d] = NoReport /\ ~unreachable[d]
    BY <1>1, <1>2 DEF LoopAt
  <1>6. sid[t] # NoSession => New(d, sid[t]) /\ Vacant(d) /\ sid[t] \in Session
    BY <1>0, <1>1, <1>2 DEF PollAt, TypeOK
  <1>7. LoopAt(d)'
    BY <1>1, <1>3, <1>4, <1>5 DEF LoopAt
  <1>8. TaskAt(d)'
    BY <1>1, <1>2 DEF TaskAt, New
  <1>9. HeldAt(d)'
    <2>1. ASSUME NEW s \in Session, Holds(d, s)'
          PROVE  Holds(d, s) \/ s = sid[t]
      BY <1>1, <1>3, <2>1 DEF Holds
    <2>2. ASSUME NEW s \in Session, s = sid[t]
          PROVE  sessions[s] \in Active /\ Owner[s] = d /\ fresh[s] # "old"
      BY <1>6, <2>2, NullAssumption DEF New, Active
    <2> QED
      BY <1>1, <1>2, <2>1, <2>2 DEF HeldAt
  <1>10. FreeAt(d)'
    BY <1>1, <1>3, <1>5, <1>6 DEF FreeAt, New, Vacant
  <1>11. PollAt(d)'
    BY <1>4 DEF PollAt
  <1>12. \A s \in Session : s \in handed' /\ s \notin handed =>
             sessions[s] = "Starting" /\ Owner[s] = d
    BY <1>1, <1>6 DEF New
  <1>13. CalmRegistry'
    BY <1>1, <1>4, <1>12, PollFacts DEF CalmParts, CalmRegistry, OneActive, UserTask
  <1>14. CalmAt(d)'
    BY <1>7, <1>8, <1>9, <1>10, <1>11 DEF CalmAt
  <1> HIDE DEF t
  <1>15. \A x \in Task \ {Poller[d]} :
             pc'[x] = pc[x] /\ sid'[x] = sid[x] /\ did'[x] = did[x]
    BY <1>4 DEF t
  <1> QED
    BY <1>1, <1>3, <1>12, <1>13, <1>14, <1>15, PollerKept

LEMMA CalmStep ==
    ASSUME Calm, CalmInv, [Next]_vars
    PROVE  CalmInv'
  <1>0. PollInv /\ CalmParts
    BY DEF CalmInv
  <1>1. PollInv'
    BY <1>0, PollInvStep
  <1>2. CASE cleanup # "sweep" /\ Running
    <2>1. ASSUME NEW t \in UserTask,
                 \/ \E s \in Session : UserStart(t, s) \/ UserCancel(t, s)
                 \/ UserStep(t) \/ PushCancel(t) \/ EndCancel(t)
          PROVE  CalmParts'
      BY <1>0, <2>1, UserCalm
    <2>2. ASSUME NEW d \in Daemon,
                 \/ PollStatus(d) \/ PollDiscovery(d) \/ PollLost(d) \/ PollGivenUp(d)
                 \/ MarkUnreachable(d) \/ RetryConnection(d)
                 \/ Initiate(d) \/ InitiateUnanswered(d) \/ InitiateGivenUp(d)
          PROVE  CalmParts'
      BY <1>0, <2>2, LoopCalm
    <2>3. ASSUME NEW d \in Daemon,
                 \/ ApplyProgress(d) \/ AskForWork(d) \/ SelectWork(d) \/ TakeWork(d)
          PROVE  CalmParts'
      BY <1>0, <2>3, ApplyCalm, AskForWorkCalm, PollSelectCalm, PollTransitionCalm,
         TakeWorkCalm DEF SelectWork
    <2>4. ASSUME NEW d \in Daemon,
                 \/ RunTask(d) \/ PrepareFails(d) \/ AbortDiscovery(d)
                 \/ DaemonRestart(d)
          PROVE  CalmParts'
      BY <1>0, <2>4, TaskCalm
    <2>5. ASSUME (\E s \in Session : Elapse(s)) \/ CleanupStep
          PROVE  CalmParts'
      BY <1>0, <2>5, TimeCalm
    <2>6. ASSUME NEW s \in Session, PushStalled(s)
          PROVE  CalmParts'
      <3>1. UNCHANGED <<svars, pvars, job, stage, current, terminal>>
        BY <2>6 DEF PushStalled, SignalTask
      <3>2. UNCHANGED <<pvars, job, stage, current, terminal, sessions, fresh, handed,
                        pc, sid, did, stalled>>
        BY <3>1 DEF svars, maps, task, sweep
      <3>3. CalmRegistry'
        BY <1>0, <3>2 DEF CalmParts, CalmRegistry, OneActive
      <3>4. \A e \in Daemon : SparedAt(e)
        BY <3>2 DEF SparedAt
      <3>5. ASSUME NEW e \in Daemon
            PROVE  CalmAt(e)'
        <4>1. SameAt(e)
          BY <3>2 DEF SameAt, pvars
        <4> QED
          BY <1>0, <3>3, <3>4, <4>1, CalmKept DEF CalmParts
      <3> QED
        BY <3>3, <3>5 DEF CalmParts
    <2>7. CalmParts'
      BY <1>2, <2>1, <2>2, <2>3, <2>4, <2>5, <2>6 DEF Running, Poll
    <2> QED
      BY <1>1, <2>7 DEF CalmInv
  <1>3. CASE SweepStep
    BY <1>0, <1>1, <1>3, TimeCalm DEF CalmInv
  <1>4. CASE ServerRestart
    BY <1>4 DEF Calm, ServerRestart
  <1>5. CASE UNCHANGED vars
    <2>1. UNCHANGED <<pvars, dvars, sessions, fresh, handed, pc, sid, did, stalled>>
      BY <1>5 DEF vars, svars, maps, task, sweep
    <2>2. CalmRegistry'
      BY <1>0, <2>1 DEF CalmParts, CalmRegistry, OneActive
    <2>3. \A e \in Daemon : SparedAt(e)
      BY <2>1 DEF SparedAt
    <2>4. CalmParts'
      BY <1>0, <2>1, <2>2, <2>3, RegistryKept
    <2> QED
      BY <1>1, <2>4 DEF CalmInv
  <1> QED
    BY <1>2, <1>3, <1>4, <1>5 DEF Next

LEMMA CalmInit ==
    ASSUME Init
    PROVE  CalmInv
  <1>1. PollInv
    BY PollInvInit
  <1>2. CalmRegistry
    BY DEF Init, SInit, CalmRegistry, OneActive, Active, Reported, UserTask
  <1>3. ASSUME NEW d \in Daemon
        PROVE  CalmAt(d)
    <2>1. Poller[d] \in Task
      BY PollerAssumption
    <2>2. /\ ~unreachable[d] /\ cycle[d] = "idle" /\ got[d] = NoReport
          /\ work[d] = NoSession /\ job[d] = NoSession /\ stage[d] = "idle"
          /\ current[d] = NoSession /\ terminal[d] = NoSession
          /\ pc[Poller[d]] = "idle"
      BY <2>1 DEF Init, DaemonInit, SInit
    <2>3. \A s \in Session : ~Holds(d, s)
      BY <2>2, NullAssumption DEF Holds
    <2> QED
      BY <2>2, <2>3 DEF CalmAt, LoopAt, TaskAt, HeldAt, FreeAt, PollAt
  <1> QED
    BY <1>1, <1>2, <1>3 DEF CalmInv, CalmParts

(* What holds of the registry, the polling loop and the daemons together   *)
(* as long as nothing is cancelled, every daemon is reached within the     *)
(* stall threshold and the server stays up: polls may be lost, scans fail  *)
(* and daemons restart.                                                    *)
THEOREM CalmInvariance ==
    ASSUME Calm
    PROVE  Spec => []CalmInv
  <1>1. Init => CalmInv
    BY CalmInit
  <1>2. CalmInv /\ [Next]_vars => CalmInv'
    BY CalmStep
  <1> QED
    BY <1>1, <1>2, PTL DEF Spec

(* get_pending_work keeps a polled daemon to one session at a time, though *)
(* it checks, selects and starts in three lock sections.                   *)
THEOREM PolledOneActive ==
    ASSUME Calm
    PROVE  Spec => []OneActive
  <1>1. CalmInv => OneActive
    BY DEF CalmInv, CalmParts, CalmRegistry
  <1>2. Spec => []CalmInv
    BY CalmInvariance
  <1> QED
    BY <1>1, <1>2, PTL

InitiateIsAccepted == \A d \in Daemon : cycle[d] = "send" => ~IsRunning(d)

(* The daemon is free whenever poll_daemon posts it a session:             *)
(* try_initiate_session never refuses one that the server took for it.     *)
THEOREM InitiateFindsFree ==
    ASSUME Calm
    PROVE  Spec => []InitiateIsAccepted
  <1>1. CalmInv => InitiateIsAccepted
    BY DEF CalmInv, CalmParts, CalmAt, FreeAt, Vacant, InitiateIsAccepted, IsRunning
  <1>2. Spec => []CalmInv
    BY CalmInvariance
  <1> QED
    BY <1>1, <1>2, PTL

(* No session is taken from the queue a second time: what is sent to a     *)
(* polled daemon was never sent to it before.                              *)
THEOREM HandedOnce ==
    ASSUME Calm
    PROVE  Spec => [][\A d \in Daemon : TakeWork(d) =>
                          sid[Poller[d]] \notin handed]_vars
  <1>1. ASSUME CalmInv, NEW d \in Daemon, TakeWork(d)
        PROVE  sid[Poller[d]] \notin handed
    <2>1. pc[Poller[d]] = "poll_reply"
      BY <1>1 DEF TakeWork, PollReply
    <2>2. PollAt(d)
      BY <1>1 DEF CalmInv, CalmParts, CalmAt
    <2>3. NoSession \notin handed
      BY <1>1, PollFacts, NullAssumption DEF CalmInv, TypeOK
    <2> QED
      BY <2>1, <2>2, <2>3 DEF PollAt
  <1>2. CalmInv /\ [Next]_vars =>
            [\A d \in Daemon : TakeWork(d) => sid[Poller[d]] \notin handed]_vars
    BY <1>1
  <1>3. Spec => []CalmInv
    BY CalmInvariance
  <1> QED
    BY <1>2, <1>3, PTL DEF Spec

-----------------------------------------------------------------------------
(* The entity buffer: its types for every scan, and that no entity is lost *)
(* for scans in which every create_host call has a host id of its own, as  *)
(* those of a network scan have                                            *)

LEMMA BufferTypeStep ==
  ASSUME BufferTypeOK, [BufferNext]_bvars PROVE BufferTypeOK'
<1> USE HostOfAssumption
<1> USE DEF BufferTypeOK, EntityState, Call, daemon, server, batch, confirm, late
<1>1. ASSUME NEW r \in Request, PushHost(r) \/ AwaitHost(r) PROVE BufferTypeOK'
  BY <1>1 DEF PushHost, AwaitHost, SetCall
<1>2. ASSUME NEW n \in Subnet, PushSubnet(n) \/ AwaitSubnet(n) PROVE BufferTypeOK'
  BY <1>2 DEF PushSubnet, AwaitSubnet, SetCall
<1>3. ASSUME NEW c \in Call, GiveUp(c) PROVE BufferTypeOK'
  BY <1>3 DEF GiveUp, SetCall
<1>4. CASE ClearHosts \/ ClearSubnets
  BY <1>4 DEF ClearHosts, ClearSubnets
<1>5. CASE PollHosts \/ PollSubnets \/ EntitiesLost
  BY <1>5 DEF PollHosts, PollSubnets, EntitiesLost, EmptyBatch
<1>6. CASE Process
  <2>1. PICK okHosts \in SUBSET InBatch, okSubnets \in SUBSET batchSubnets :
          /\ stored' = stored \cup okSubnets
                              \cup (UNION {batchHosts[h] : h \in okHosts})
          /\ confirmHosts' = okHosts
          /\ confirmSubnets' = okSubnets
    BY <1>6 DEF Process
  <2>2. stored' \subseteq Call
    BY <2>1 DEF InBatch
  <2>3. QED
    BY <1>6, <2>1, <2>2 DEF Process, EmptyBatch, InBatch
<1>7. ASSUME NEW n \in Subnet, ConfirmSubnet(n) \/ LateSubnet(n) PROVE BufferTypeOK'
  BY <1>7 DEF ConfirmSubnet, LateSubnet, MarkSubnetCreated
<1>8. ASSUME NEW h \in Host, ConfirmHost(h) \/ LateHost(h) PROVE BufferTypeOK'
  BY <1>8 DEF ConfirmHost, LateHost, MarkHostCreated
<1>9. CASE EndCycle \/ ConfirmLost \/ ConfirmLate
  BY <1>9 DEF EndCycle, ConfirmLost, ConfirmLate
<1>10. CASE UNCHANGED bvars
  BY <1>10 DEF bvars
<1>11. QED
  BY <1>1, <1>2, <1>3, <1>4, <1>5, <1>6, <1>7, <1>8, <1>9, <1>10
     DEF BufferNext, Discover, Cycle, Late

LEMMA BufferTypeInit == BufferInit => BufferTypeOK
<1> SUFFICES ASSUME BufferInit PROVE BufferTypeOK
  OBVIOUS
<1>1. /\ hosts \in [Host -> EntityState]
      /\ merged \in [Host -> SUBSET Request]
      /\ \A h \in Host : merged[h] # {} <=> hosts[h] = "Pending"
      /\ subnets \in [Subnet -> EntityState]
  BY DEF BufferInit, EntityState
<1>2. /\ call \in [Call -> {"idle", "waiting", "returned", "failed"}]
      /\ batchHosts \in [Host -> SUBSET Request]
  BY DEF BufferInit
<1> QED
  BY <1>1, <1>2 DEF BufferInit, BufferTypeOK

(* However requests share host ids: an entry of the buffer holds merged    *)
(* requests exactly while it is Pending.                                   *)
THEOREM BufferTyped == BufferSpec => []BufferTypeOK
<1>1. BufferInit => BufferTypeOK
  BY BufferTypeInit
<1>2. BufferTypeOK /\ [BufferNext]_bvars => BufferTypeOK'
  BY BufferTypeStep
<1>3. QED
  BY <1>1, <1>2, PTL DEF BufferSpec

LEMMA BufferInvInit == BufferInit => BufferInv
<1>1. BufferInit => OwnRequests /\ ClosingIsQuiet
  BY DEF BufferInit, OwnRequests, ClosingIsQuiet
<1>2. BufferInit => ConfirmedIsStored
  BY DEF BufferInit, ConfirmedIsStored
<1>3. BufferInit => ReturnedIsStored /\ WaitingIsBuffered
  BY HostOfAssumption DEF BufferInit, ReturnedIsStored, WaitingIsBuffered, Call
<1>4. QED
  BY <1>1, <1>2, <1>3, BufferTypeInit DEF BufferInv

LEMMA BufferStutter ==
  ASSUME BufferInv, UNCHANGED bvars PROVE BufferInv'
  BY DEF bvars, daemon, server, batch, confirm, late, BufferInv, BufferTypeOK,
     OwnRequests, ConfirmedIsStored, ClosingIsQuiet, ReturnedIsStored,
     WaitingIsBuffered, Settled

(* The calls of the discovery task: what is pushed joins the buffer, and a *)
(* call returns on an entry that is Created, hence settled.                *)
LEMMA DiscoverKeeps ==
  ASSUME BufferInv, Discover PROVE BufferInv'
<1> USE HostOfAssumption, CallAssumption
<1> USE DEF BufferInv, BufferTypeOK, EntityState, OwnRequests,
        ConfirmedIsStored, ClosingIsQuiet, ReturnedIsStored,
        WaitingIsBuffered, Settled, Call, server, batch, confirm, late
<1>1. ASSUME NEW r \in Request, PushHost(r) PROVE BufferInv'
  BY <1>1 DEF PushHost, SetCall
<1>2. ASSUME NEW n \in Subnet, PushSubnet(n) PROVE BufferInv'
  BY <1>2 DEF PushSubnet, SetCall
<1>3. ASSUME NEW r \in Request, AwaitHost(r) PROVE BufferInv'
  BY <1>3 DEF AwaitHost, SetCall
<1>4. ASSUME NEW n \in Subnet, AwaitSubnet(n) PROVE BufferInv'
  BY <1>4 DEF AwaitSubnet, SetCall
<1>5. ASSUME NEW c \in Call, GiveUp(c) PROVE BufferInv'
  BY <1>5 DEF GiveUp, SetCall
<1>6. CASE ClearHosts
  BY <1>6 DEF ClearHosts
<1>7. CASE ClearSubnets
  BY <1>7 DEF ClearSubnets
<1>8. QED
  BY <1>1, <1>2, <1>3, <1>4, <1>5, <1>6, <1>7 DEF Discover

(* Marking an entry that is settled, or a subnet that is stored. *)
LEMMA CycleKeeps ==
  ASSUME IsInjective(HostOf), BufferInv, Cycle PROVE BufferInv'
<1> USE HostOfAssumption, CallAssumption
<1> USE DEF BufferInv, BufferTypeOK, EntityState, OwnRequests,
        ConfirmedIsStored, ClosingIsQuiet, ReturnedIsStored,
        WaitingIsBuffered, Settled, Call, daemon, batch, confirm, late
<1>1. CASE PollHosts
  BY <1>1 DEF PollHosts
<1>2. CASE PollSubnets
  BY <1>2 DEF PollSubnets
<1>3. CASE EntitiesLost
  BY <1>3 DEF EntitiesLost, EmptyBatch
<1>4. CASE Process
  <2>1. PICK okHosts \in SUBSET InBatch, okSubnets \in SUBSET batchSubnets :
          /\ stored' = stored \cup okSubnets
                              \cup (UNION {batchHosts[h] : h \in okHosts})
          /\ confirmHosts' = okHosts
          /\ confirmSubnets' = okSubnets
    BY <1>4 DEF Process
  <2>2. stored \subseteq stored'
    BY <2>1
  <2>3. stored' \subseteq Call
    BY <2>1 DEF InBatch
  <2>4. ASSUME NEW h \in okHosts, NEW r \in Request, HostOf[r] = h
        PROVE  r \in stored'
    <3>1. PICK x \in batchHosts[h] : x \in Request
      BY DEF InBatch
    <3>2. HostOf[x] = HostOf[r]
      BY <2>4, <3>1 DEF InBatch
    <3>3. x = r
      BY <3>1, <3>2 DEF IsInjective
    <3>4. QED
      BY <2>1, <3>1, <3>3
  <2>5. okSubnets \subseteq stored'
    BY <2>1
  <2>6. /\ UNCHANGED <<hosts, merged, subnets, call, closing, lateHosts,
                       lateSubnets>>
        /\ batchHosts' = [h \in Host |-> {}]
        /\ batchSubnets' = {}
        /\ exchange' = "confirm"
    BY <1>4 DEF Process, EmptyBatch
  <2>7. BufferTypeOK'
    BY <2>1, <2>3, <2>6 DEF InBatch
  <2>8. OwnRequests' /\ ClosingIsQuiet'
    BY <2>6
  <2>9. ReturnedIsStored' /\ WaitingIsBuffered'
    BY <2>2, <2>6
  <2>10. ConfirmedIsStored'
    BY <2>1, <2>2, <2>4, <2>5, <2>6
  <2>11. QED
    BY <2>7, <2>8, <2>9, <2>10
<1>5. ASSUME NEW n \in Subnet, ConfirmSubnet(n) PROVE BufferInv'
  BY <1>5 DEF ConfirmSubnet, MarkSubnetCreated
<1>6. ASSUME NEW h \in Host, ConfirmHost(h) PROVE BufferInv'
  BY <1>6 DEF ConfirmHost, MarkHostCreated
<1>7. CASE EndCycle
  BY <1>7 DEF EndCycle
<1>8. CASE ConfirmLost
  BY <1>8 DEF ConfirmLost
<1>9. CASE ConfirmLate
  BY <1>9 DEF ConfirmLate
<1>10. QED
  BY <1>1, <1>2, <1>3, <1>4, <1>5, <1>6, <1>7, <1>8, <1>9 DEF Cycle

LEMMA LateKeeps ==
  ASSUME BufferInv, Late PROVE BufferInv'
<1> USE HostOfAssumption, CallAssumption
<1> USE DEF BufferInv, BufferTypeOK, EntityState, OwnRequests,
        ConfirmedIsStored, ClosingIsQuiet, ReturnedIsStored,
        WaitingIsBuffered, Settled, Call, daemon, batch, confirm, late
<1>1. ASSUME NEW n \in Subnet, LateSubnet(n) PROVE BufferInv'
  BY <1>1 DEF LateSubnet, MarkSubnetCreated
<1>2. ASSUME NEW h \in Host, LateHost(h) PROVE BufferInv'
  BY <1>2 DEF LateHost, MarkHostCreated
<1>3. QED
  BY <1>1, <1>2 DEF Late

(***************************************************************************)
(* With one create_host call per host id, BufferInv is an invariant: the   *)
(* batch that is stored for a host then holds its only request, so every   *)
(* confirmation, early, late or repeated, is of a settled host.            *)
(***************************************************************************)
THEOREM BufferInvariance ==
  ASSUME IsInjective(HostOf) PROVE BufferSpec => []BufferInv
<1>1. BufferInv /\ [BufferNext]_bvars => BufferInv'
  BY BufferStutter, DiscoverKeeps, CycleKeeps, LateKeeps DEF BufferNext
<1>2. QED
  BY <1>1, BufferInvInit, PTL DEF BufferSpec

(***************************************************************************)
(* A network scan loses no host: a create call that returns has had its    *)
(* entity stored, whichever polls and confirmations are lost, late or      *)
(* repeated.  DockerMergeRace shows that the assumption is needed.         *)
(***************************************************************************)
THEOREM ReturnedStored ==
  ASSUME IsInjective(HostOf) PROVE BufferSpec => []ReturnedIsStored
<1>1. BufferInv => ReturnedIsStored
  BY DEF BufferInv
<1>2. QED
  BY <1>1, BufferInvariance, PTL

(* And an entity that a call waits for stays in reach of the next poll. *)
THEOREM WaitingBuffered ==
  ASSUME IsInjective(HostOf) PROVE BufferSpec => []WaitingIsBuffered
<1>1. BufferInv => WaitingIsBuffered
  BY DEF BufferInv
<1>2. QED
  BY <1>1, BufferInvariance, PTL
=============================================================================
