------------------------ MODULE DiscoverySystemProofs -----------------------
(* Proofs about DiscoverySystem, for every set of sessions, daemons and    *)
(* handlers.                                                               *)
EXTENDS DiscoverySystem, DiscoveryServiceProofs

-----------------------------------------------------------------------------
(* The system under every fault *)

WireTypeOK ==
    /\ RunnerTypeOK
    /\ asked \in [Daemon -> Task \cup {NoTask}]
    /\ answer \in [Daemon -> Answers \cup {NoAnswer}]

(* A task of discover() has a session. *)
TasksHaveSessions == \A d \in Daemon : stage[d] # "idle" => job[d] \in Session

(* What a daemon was answered, works on and reports, and what the network  *)
(* still carries, are sessions the server has handed out.                  *)
OnlyHanded ==
    /\ \A d \in Daemon :
         /\ answer[d] \in Answers /\ answer[d].work # NoSession =>
                answer[d].work \in handed
         /\ job[d] # NoSession => job[d] \in handed
         /\ post[d] \in Updates => post[d].session \in handed
    /\ \A u \in late : u.session \in handed

SystemInv ==
    /\ IInv
    /\ WireTypeOK
    /\ TasksHaveSessions
    /\ OnlyHanded

-----------------------------------------------------------------------------
(* Every step of the system is one of the registry, or none of it *)

LEMMA ApplyRefines ==
    ASSUME NEW u \in Updates, Apply(u)
    PROVE  Receive(u.session)
  <1>1. u.phase \in Reported \cup {"Ended"}
    BY DEF Updates
  <1> QED
    BY <1>1 DEF Apply, Receive

LEMMA StepRefines ==
    ASSUME WireTypeOK, [Next]_vars
    PROVE  [SNext]_svars
  <1>0. UserTask \subseteq Task /\ PollTask \subseteq Task
    BY PollTaskAssumption DEF UserTask
  <1>1. CASE cleanup # "sweep" /\ Running
    <2>1. ASSUME NEW t \in UserTask, NEW s \in Session,
                 UserStart(t, s) \/ UserCancel(t, s)
          PROVE  \E x \in Task : Handle(x)
      BY <1>0, <2>1 DEF UserStart, UserCancel, Handle
    <2>2. ASSUME NEW t \in UserTask, UserStep(t)
          PROVE  \E x \in Task : Handle(x)
      BY <1>0, <2>2 DEF UserStep, Handle
    <2>3. ASSUME NEW t \in PollTask, NEW d \in Daemon, AskForWork(t, d)
          PROVE  \E x \in Task : Handle(x)
      BY <1>0, <2>3 DEF AskForWork, Handle
    <2>4. ASSUME NEW t \in PollTask, PollStep(t) \/ Answer(t)
          PROVE  \E x \in Task : Handle(x)
      BY <1>0, <2>4 DEF PollStep, Answer, Handle
    <2>5. ASSUME NEW d \in Daemon,
                 \/ AnswerLost(d) \/ PollTimeout(d) \/ TakeAnswer(d)
                 \/ RunTask(d) \/ FinishTask(d) \/ FailToPrepare(d) \/ AbortScan(d)
                 \/ Respond(d) \/ PostLost(d) \/ PostLate(d)
                 \/ RunnerRestart(d)
          PROVE  UNCHANGED svars
      BY <2>5 DEF AnswerLost, PollTimeout, TakeAnswer, RunTask, FinishTask,
                  FailToPrepare, AbortScan, Respond, PostLost, PostLate,
                  RunnerRestart
    <2>6. ASSUME NEW d \in Daemon, Deliver(d)
          PROVE  \E s \in Session : Receive(s)
      <3>1. post[d] \in Updates /\ Apply(post[d])
        BY <2>6 DEF Deliver
      <3>2. post[d].session \in Session
        BY <3>1 DEF Updates
      <3> QED
        BY <3>1, <3>2, ApplyRefines
    <2>7. ASSUME NEW u \in late, DeliverLate(u)
          PROVE  \E s \in Session : Receive(s)
      <3>1. u \in Updates /\ Apply(u)
        BY <2>7 DEF DeliverLate, WireTypeOK, RunnerTypeOK
      <3>2. u.session \in Session
        BY <3>1 DEF Updates
      <3> QED
        BY <3>1, <3>2, ApplyRefines
    <2>8. ASSUME NEW s \in Session, Elapse(s)
          PROVE  Age(s)
      BY <2>8 DEF Elapse
    <2>9. CleanupStep => Cleanup
      BY DEF CleanupStep
    <2> QED
      BY <1>1, <2>1, <2>2, <2>3, <2>4, <2>5, <2>6, <2>7, <2>8, <2>9
         DEF Running, SNext
  <1>2. CASE SweepStep
    BY <1>2 DEF SweepStep, SNext
  <1>3. CASE ServerRestart
    BY <1>3 DEF ServerRestart, SNext
  <1>4. CASE UNCHANGED vars
    BY <1>4 DEF vars
  <1> QED
    BY <1>1, <1>2, <1>3, <1>4 DEF Next

(* What a daemon is told and does keeps its types. *)
LEMMA WireUnchanged ==
    ASSUME WireTypeOK, TasksHaveSessions, OnlyHanded, handed \subseteq handed',
           UNCHANGED <<dvars, nvars>>
    PROVE  WireTypeOK' /\ TasksHaveSessions' /\ OnlyHanded'
  <1>1. WireTypeOK' /\ TasksHaveSessions'
    BY DEF dvars, nvars, WireTypeOK, RunnerTypeOK, TasksHaveSessions
  <1>2. OnlyHanded'
    BY DEF dvars, nvars, OnlyHanded
  <1> QED
    BY <1>1, <1>2

(* A step of daemon d leaves the others alone. *)
LEMMA EndTaskWire ==
    ASSUME WireTypeOK, NEW d \in Daemon, EndTask(d)
    PROVE  /\ job' \in [Daemon -> Session \cup {NoSession}]
           /\ stage' \in [Daemon -> {"idle", "preparing", "scanning", "ending"}]
           /\ token' \in [Daemon -> BOOLEAN]
           /\ job'[d] = NoSession /\ stage'[d] = "idle"
           /\ \A e \in Daemon \ {d} : job'[e] = job[e] /\ stage'[e] = stage[e]
  <1>1. /\ job \in [Daemon -> Session \cup {NoSession}]
        /\ stage \in [Daemon -> {"idle", "preparing", "scanning", "ending"}]
        /\ token \in [Daemon -> BOOLEAN]
    BY DEF WireTypeOK, RunnerTypeOK
  <1> QED
    BY <1>1 DEF EndTask

LEMMA PostWire ==
    ASSUME WireTypeOK, TasksHaveSessions, NEW d \in Daemon, stage[d] # "idle",
           NEW phase \in Reported \cup {"Ended"}, Post(d, phase)
    PROVE  /\ post' \in [Daemon -> Updates \cup {NoPost, Acked}]
           /\ post'[d] \in Updates
           /\ post'[d].session = job[d] /\ post'[d].phase = phase
           /\ \A e \in Daemon \ {d} : post'[e] = post[e]
  <1>1. post \in [Daemon -> Updates \cup {NoPost, Acked}]
    BY DEF WireTypeOK, RunnerTypeOK
  <1>2. job[d] \in Session
    BY DEF TasksHaveSessions
  <1>3. [session |-> job[d], phase |-> phase] \in Updates
    BY <1>2 DEF Updates
  <1> QED
    BY <1>1, <1>3 DEF Post

LEMMA PostReturnsWire ==
    ASSUME WireTypeOK, NEW d \in Daemon, PostReturns(d)
    PROVE  /\ job' \in [Daemon -> Session \cup {NoSession}]
           /\ stage' \in [Daemon -> {"idle", "preparing", "scanning", "ending"}]
           /\ token' \in [Daemon -> BOOLEAN]
           /\ post' \in [Daemon -> Updates \cup {NoPost, Acked}]
           /\ post'[d] = NoPost
           /\ scans' = scans
           /\ \A e \in Daemon \ {d} :
                 job'[e] = job[e] /\ stage'[e] = stage[e] /\ post'[e] = post[e]
           /\ IF stage[d] = "ending" THEN job'[d] = NoSession /\ stage'[d] = "idle"
              ELSE job'[d] = job[d] /\ stage'[d] = stage[d]
  <1>1. /\ job \in [Daemon -> Session \cup {NoSession}]
        /\ stage \in [Daemon -> {"idle", "preparing", "scanning", "ending"}]
        /\ token \in [Daemon -> BOOLEAN]
        /\ post \in [Daemon -> Updates \cup {NoPost, Acked}]
    BY DEF WireTypeOK, RunnerTypeOK
  <1>2. post' = [post EXCEPT ![d] = NoPost] /\ scans' = scans
    BY DEF PostReturns
  <1>3. CASE stage[d] = "ending"
    <2>1. EndTask(d)
      BY <1>3 DEF PostReturns
    <2> QED
      BY <1>1, <1>2, <1>3, <2>1, EndTaskWire
  <1>4. CASE stage[d] # "ending"
    BY <1>1, <1>2, <1>4 DEF PostReturns
  <1> QED
    BY <1>3, <1>4

LEMMA AnswerWire ==
    ASSUME SystemInv, NEW t \in PollTask, Answer(t)
    PROVE  WireTypeOK' /\ TasksHaveSessions' /\ OnlyHanded'
  <1>1. WireTypeOK /\ TasksHaveSessions /\ OnlyHanded /\ TypeOK /\ LocalsSet
    BY DEF SystemInv, IInv
  <1>2. t \in Task
    BY PollTaskAssumption
  <1>3. pc[t] = "poll_reply" /\ handed' = handed \cup ({sid[t]} \ {NoSession})
    BY DEF Answer, PollReply
  <1>4. did[t] \in Daemon
    BY <1>1, <1>2, <1>3 DEF LocalsSet
  <1>5. CASE asked[did[t]] = t
    <2> DEFINE d == did[t]
               new == [work |-> sid[t], flagged |-> cancelFlag[d]]
    <2>1. /\ asked' = [asked EXCEPT ![d] = NoTask]
          /\ answer' = [answer EXCEPT ![d] = new]
          /\ UNCHANGED dvars
      BY <1>5 DEF Answer
    <2>2. new \in Answers
      BY <1>1, <1>2, <1>4 DEF TypeOK, Answers
    <2>3. new.work # NoSession => new.work \in handed'
      BY <1>3
    <2> HIDE DEF new
    <2>4. WireTypeOK'
      BY <1>1, <1>4, <2>1, <2>2 DEF WireTypeOK, RunnerTypeOK, dvars
    <2>5. TasksHaveSessions'
      BY <1>1, <2>1 DEF TasksHaveSessions, dvars
    <2>6. ASSUME NEW e \in Daemon
          PROVE  answer'[e] \in Answers /\ answer'[e].work # NoSession =>
                     answer'[e].work \in handed'
      BY <1>1, <1>3, <1>4, <2>1, <2>3 DEF OnlyHanded, WireTypeOK
    <2>7. OnlyHanded'
      BY <1>1, <1>3, <2>1, <2>6 DEF OnlyHanded, dvars
    <2> QED
      BY <2>4, <2>5, <2>7
  <1>6. CASE asked[did[t]] # t
    BY <1>1, <1>3, <1>6, WireUnchanged DEF Answer
  <1> QED
    BY <1>5, <1>6

LEMMA TakeAnswerWire ==
    ASSUME SystemInv, NEW d \in Daemon, TakeAnswer(d)
    PROVE  WireTypeOK' /\ TasksHaveSessions' /\ OnlyHanded'
  <1>1. WireTypeOK /\ TasksHaveSessions /\ OnlyHanded
    BY DEF SystemInv
  <1>2. answer[d] \in Answers
    BY <1>1 DEF TakeAnswer, WireTypeOK
  <1> DEFINE s == answer[d].work
  <1>3. s \in Session \cup {NoSession}
    BY <1>2 DEF Answers
  <1>4. s # NoSession => s \in handed
    BY <1>1, <1>2 DEF OnlyHanded
  <1>5. /\ UNCHANGED <<post, late, scans, asked, handed>>
        /\ answer' = [answer EXCEPT ![d] = NoAnswer]
    BY DEF TakeAnswer, ReceiveAnswer, svars
  <1>6. CASE s # NoSession /\ job[d] = NoSession
    <2>1. /\ job' = [job EXCEPT ![d] = s]
          /\ stage' = [stage EXCEPT ![d] = "preparing"]
          /\ token' = [token EXCEPT ![d] = FALSE]
      BY <1>6 DEF TakeAnswer, ReceiveAnswer, IsRunning
    <2> HIDE DEF s
    <2>2. WireTypeOK' /\ TasksHaveSessions'
      BY <1>1, <1>3, <1>5, <1>6, <2>1
         DEF WireTypeOK, RunnerTypeOK, TasksHaveSessions
    <2>3. \A e \in Daemon : job'[e] # NoSession => job'[e] \in handed
      BY <1>1, <1>4, <1>6, <2>1 DEF OnlyHanded, WireTypeOK, RunnerTypeOK
    <2>4. \A e \in Daemon : answer'[e] \in Answers => answer'[e] = answer[e]
      BY <1>1, <1>5, NoneAssumption DEF WireTypeOK
    <2>5. OnlyHanded'
      BY <1>1, <1>5, <2>3, <2>4 DEF OnlyHanded
    <2> QED
      BY <2>2, <2>5
  <1>7. CASE ~(s # NoSession /\ job[d] = NoSession)
    <2>1. /\ token' = token \/ token' = [token EXCEPT ![d] = TRUE]
          /\ UNCHANGED <<job, stage>>
      BY <1>7 DEF TakeAnswer, ReceiveAnswer, IsRunning
    <2>2. WireTypeOK' /\ TasksHaveSessions'
      BY <1>1, <1>5, <2>1 DEF WireTypeOK, RunnerTypeOK, TasksHaveSessions
    <2>3. \A e \in Daemon : answer'[e] \in Answers => answer'[e] = answer[e]
      BY <1>1, <1>5, NoneAssumption DEF WireTypeOK
    <2>4. OnlyHanded'
      BY <1>1, <1>5, <2>1, <2>3 DEF OnlyHanded
    <2> QED
      BY <2>2, <2>4
  <1> QED
    BY <1>6, <1>7

LEMMA RunnerWire ==
    ASSUME SystemInv, NEW d \in Daemon,
           \/ RunTask(d) \/ FinishTask(d) \/ FailToPrepare(d) \/ AbortScan(d)
           \/ Respond(d) \/ PostLost(d) \/ PostLate(d) \/ RunnerRestart(d)
    PROVE  WireTypeOK' /\ TasksHaveSessions' /\ OnlyHanded'
  <1>1. WireTypeOK /\ TasksHaveSessions /\ OnlyHanded
    BY DEF SystemInv
  <1>2. /\ job \in [Daemon -> Session \cup {NoSession}]
        /\ stage \in [Daemon -> {"idle", "preparing", "scanning", "ending"}]
        /\ token \in [Daemon -> BOOLEAN]
        /\ post \in [Daemon -> Updates \cup {NoPost, Acked}]
        /\ late \subseteq Updates
        /\ scans \in [Session -> {0, 1, 2}]
        /\ asked \in [Daemon -> Task \cup {NoTask}]
        /\ answer \in [Daemon -> Answers \cup {NoAnswer}]
    BY <1>1 DEF WireTypeOK, RunnerTypeOK
  <1>3. handed' = handed
    BY DEF RunTask, FinishTask, FailToPrepare, AbortScan, Respond, PostLost,
           PostLate, RunnerRestart, svars
  <1>4. ASSUME NEW phase \in Reported \cup {"Ended"}, Post(d, phase),
               stage[d] # "idle", job' = job, late' = late, UNCHANGED nvars
        PROVE  OnlyHanded'
    <2>1. job[d] \in handed /\ job[d] # NoSession
      BY <1>1, <1>4, NullAssumption DEF OnlyHanded, TasksHaveSessions
    <2>2. \A e \in Daemon : post'[e] \in Updates => post'[e].session \in handed
      BY <1>1, <1>4, <2>1, PostWire DEF OnlyHanded
    <2> QED
      BY <1>1, <1>3, <1>4, <2>2 DEF OnlyHanded, nvars
  <1>5. CASE StartDiscovery(d) /\ UNCHANGED nvars
    <2>1. /\ stage[d] = "preparing" /\ Post(d, "Started")
          /\ stage' = [stage EXCEPT ![d] = "scanning"]
          /\ UNCHANGED <<job, token, late>>
          /\ scans' = [scans EXCEPT ![job[d]] = IF @ < 2 THEN @ + 1 ELSE 2]
      BY <1>5 DEF StartDiscovery
    <2>2. post' \in [Daemon -> Updates \cup {NoPost, Acked}]
      BY <1>1, <2>1, PostWire DEF Reported
    <2>3. job[d] \in Session
      BY <1>1, <2>1 DEF TasksHaveSessions
    <2>4. scans' \in [Session -> {0, 1, 2}]
      BY <1>2, <2>1, <2>3
    <2>5. stage' \in [Daemon -> {"idle", "preparing", "scanning", "ending"}]
      BY <1>2, <2>1
    <2>6. WireTypeOK'
      BY <1>2, <1>5, <2>1, <2>2, <2>4, <2>5 DEF WireTypeOK, RunnerTypeOK, nvars
    <2>7. TasksHaveSessions'
      BY <1>1, <1>2, <2>1, <2>3 DEF TasksHaveSessions
    <2>8. OnlyHanded'
      BY <1>4, <1>5, <2>1 DEF Reported
    <2> QED
      BY <2>6, <2>7, <2>8
  <1>6. CASE (ReportProgress(d) \/ FinishDiscovery(d)) /\ UNCHANGED nvars
    <2>1. PICK phase \in Reported \cup {"Ended"} : Post(d, phase)
      BY <1>6 DEF ReportProgress, FinishDiscovery, Reported
    <2>2. /\ stage[d] = "scanning"
          /\ stage' = [stage EXCEPT ![d] = "ending"] \/ stage' = stage
          /\ UNCHANGED <<job, token, late, scans>>
      BY <1>6 DEF ReportProgress, FinishDiscovery
    <2>3. post' \in [Daemon -> Updates \cup {NoPost, Acked}]
      BY <1>1, <2>1, <2>2, PostWire
    <2>4. stage' \in [Daemon -> {"idle", "preparing", "scanning", "ending"}]
      BY <1>2, <2>2
    <2>5. WireTypeOK'
      BY <1>2, <1>6, <2>2, <2>3, <2>4 DEF WireTypeOK, RunnerTypeOK, nvars
    <2>6. TasksHaveSessions'
      BY <1>1, <1>2, <2>2 DEF TasksHaveSessions
    <2>7. OnlyHanded'
      BY <1>4, <1>6, <2>1, <2>2
    <2> QED
      BY <2>5, <2>6, <2>7
  <1>7. CASE (PrepareFails(d) \/ AbortDiscovery(d)) /\ UNCHANGED nvars
    <2>1. EndTask(d) /\ UNCHANGED <<post, late, scans, asked, answer>>
      BY <1>7 DEF PrepareFails, AbortDiscovery, nvars
    <2>2. WireTypeOK'
      BY <1>1, <1>2, <2>1, EndTaskWire DEF WireTypeOK, RunnerTypeOK
    <2>3. TasksHaveSessions'
      BY <1>1, <2>1, EndTaskWire DEF TasksHaveSessions
    <2>4. OnlyHanded'
      BY <1>1, <1>3, <2>1, EndTaskWire DEF OnlyHanded
    <2> QED
      BY <2>2, <2>3, <2>4
  <1>8. CASE RunnerRestart(d)
    <2>1. /\ EndTask(d) /\ UNCHANGED <<late, scans>>
          /\ post' = [post EXCEPT ![d] = NoPost]
          /\ asked' = [asked EXCEPT ![d] = NoTask]
          /\ answer' = [answer EXCEPT ![d] = NoAnswer]
      BY <1>8 DEF RunnerRestart, DaemonRestart
    <2>2. /\ post' \in [Daemon -> Updates \cup {NoPost, Acked}]
          /\ asked' \in [Daemon -> Task \cup {NoTask}]
          /\ answer' \in [Daemon -> Answers \cup {NoAnswer}]
      BY <1>2, <2>1
    <2>3. WireTypeOK'
      BY <1>1, <1>2, <2>1, <2>2, EndTaskWire DEF WireTypeOK, RunnerTypeOK
    <2>4. TasksHaveSessions'
      BY <1>1, <2>1, EndTaskWire DEF TasksHaveSessions
    <2>5. \A e \in Daemon : /\ answer'[e] \in Answers => answer'[e] = answer[e]
                            /\ post'[e] \in Updates => post'[e] = post[e]
      BY <1>2, <2>1, NoneAssumption, PostAssumption
    <2>6. OnlyHanded'
      BY <1>1, <1>3, <2>1, <2>5, EndTaskWire DEF OnlyHanded
    <2> QED
      BY <2>3, <2>4, <2>6
  <1>9. CASE Respond(d) \/ PostLost(d) \/ PostLate(d)
    <2>1. /\ PostReturns(d) /\ UNCHANGED <<asked, answer>>
          /\ \/ late' = late
             \/ post[d] \in Updates /\ late' = late \cup {post[d]}
      BY <1>9 DEF Respond, PostLost, PostLate, nvars
    <2>2. late' \subseteq Updates
      BY <1>2, <2>1
    <2>3. WireTypeOK'
      BY <1>1, <1>2, <2>1, <2>2, PostReturnsWire DEF WireTypeOK, RunnerTypeOK
    <2>4. TasksHaveSessions'
      BY <1>1, <2>1, PostReturnsWire DEF TasksHaveSessions
    <2>5. \A u \in late' : u.session \in handed
      BY <1>1, <2>1 DEF OnlyHanded
    <2>6. \A e \in Daemon : /\ job'[e] # NoSession => job'[e] = job[e]
                            /\ post'[e] \in Updates => post'[e] = post[e]
      BY <1>1, <2>1, PostReturnsWire, PostAssumption
    <2>7. OnlyHanded'
      BY <1>1, <1>3, <2>1, <2>5, <2>6 DEF OnlyHanded
    <2> QED
      BY <2>3, <2>4, <2>7
  <1> QED
    BY <1>5, <1>6, <1>7, <1>8, <1>9 DEF RunTask, FinishTask, FailToPrepare, AbortScan

(* Requests, their loss and the updates that reach the server. *)
LEMMA NetworkWire ==
    ASSUME SystemInv,
           \/ \E t \in PollTask, d \in Daemon : AskForWork(t, d)
           \/ \E d \in Daemon : AnswerLost(d) \/ PollTimeout(d) \/ Deliver(d)
           \/ \E u \in late : DeliverLate(u)
           \/ ServerRestart,
           handed \subseteq handed'
    PROVE  WireTypeOK' /\ TasksHaveSessions' /\ OnlyHanded'
  <1>1. WireTypeOK /\ TasksHaveSessions /\ OnlyHanded
    BY DEF SystemInv
  <1>2. /\ post \in [Daemon -> Updates \cup {NoPost, Acked}]
        /\ late \subseteq Updates
        /\ asked \in [Daemon -> Task \cup {NoTask}]
        /\ answer \in [Daemon -> Answers \cup {NoAnswer}]
    BY <1>1 DEF WireTypeOK, RunnerTypeOK
  <1>3. /\ UNCHANGED <<job, stage, token, scans>>
        /\ late' \subseteq late
        /\ post' = post \/ \E d \in Daemon : post' = [post EXCEPT ![d] = Acked]
    BY DEF AskForWork, AnswerLost, PollTimeout, Deliver, DeliverLate, ServerRestart,
           dvars
  <1>4. asked' \in [Daemon -> Task \cup {NoTask}]
    BY <1>2, PollTaskAssumption
       DEF AskForWork, AnswerLost, PollTimeout, Deliver, DeliverLate, ServerRestart,
           nvars
  <1>5. \/ answer' = answer
        \/ \E d \in Daemon : answer' = [answer EXCEPT ![d] = NoAnswer]
        \/ answer' = [d \in Daemon |-> NoAnswer]
    BY DEF AskForWork, AnswerLost, PollTimeout, Deliver, DeliverLate, ServerRestart,
           nvars
  <1>6. WireTypeOK' /\ TasksHaveSessions'
    <2>1. post' \in [Daemon -> Updates \cup {NoPost, Acked}]
      BY <1>2, <1>3
    <2>2. answer' \in [Daemon -> Answers \cup {NoAnswer}]
      BY <1>2, <1>5
    <2> QED
      BY <1>1, <1>3, <1>4, <2>1, <2>2 DEF WireTypeOK, RunnerTypeOK, TasksHaveSessions
  <1>7. \A e \in Daemon : answer'[e] \in Answers => answer'[e] = answer[e]
    BY <1>2, <1>5, NoneAssumption
  <1>8. \A e \in Daemon : post'[e] \in Updates => post'[e] = post[e]
    BY <1>2, <1>3, PostAssumption
  <1>9. OnlyHanded'
    BY <1>1, <1>3, <1>7, <1>8 DEF OnlyHanded
  <1> QED
    BY <1>6, <1>9

LEMMA SystemInvStep ==
    ASSUME SystemInv, [Next]_vars
    PROVE  SystemInv'
  <1>0. WireTypeOK /\ TasksHaveSessions /\ OnlyHanded
    BY DEF SystemInv
  <1>1. [SNext]_svars
    BY <1>0, StepRefines
  <1>2. IInv' /\ handed \subseteq handed'
    BY <1>1, NextIInv, HandedGrows DEF SystemInv
  <1> SUFFICES WireTypeOK' /\ TasksHaveSessions' /\ OnlyHanded'
    BY <1>2 DEF SystemInv
  <1>3. ASSUME UNCHANGED <<dvars, nvars>>
        PROVE  WireTypeOK' /\ TasksHaveSessions' /\ OnlyHanded'
    BY <1>0, <1>2, <1>3, WireUnchanged
  <1>4. CASE Running
    <2>1. CASE \E t \in UserTask, s \in Session : UserStart(t, s) \/ UserCancel(t, s)
      BY <1>3, <2>1 DEF UserStart, UserCancel
    <2>2. CASE \/ \E t \in UserTask : UserStep(t)
               \/ \E t \in PollTask : PollStep(t)
               \/ \E s \in Session : Elapse(s)
               \/ CleanupStep
      BY <1>3, <2>2 DEF UserStep, PollStep, Elapse, CleanupStep
    <2> QED
      BY <1>2, <1>4, <2>1, <2>2, AnswerWire, TakeAnswerWire, RunnerWire, NetworkWire
         DEF Running
  <1>5. CASE SweepStep
    BY <1>3, <1>5 DEF SweepStep
  <1>6. CASE ServerRestart
    BY <1>2, <1>6, NetworkWire
  <1>7. CASE UNCHANGED vars
    BY <1>3, <1>7 DEF vars
  <1> QED
    BY <1>4, <1>5, <1>6, <1>7 DEF Next

LEMMA SystemInvInit ==
    ASSUME Init
    PROVE  SystemInv
  <1>1. IInv
    BY InitIInv DEF Init
  <1>2. WireTypeOK
    BY DEF Init, RunnerInit, WireTypeOK, RunnerTypeOK
  <1>3. TasksHaveSessions
    BY DEF Init, RunnerInit, TasksHaveSessions
  <1>4. OnlyHanded
    BY NoneAssumption, PostAssumption DEF Init, RunnerInit, OnlyHanded
  <1> QED
    BY <1>1, <1>2, <1>3, <1>4 DEF SystemInv

(* The invariant of the system under every fault: that of the registry,    *)
(* which the daemons cannot break, and what ties the daemons to it.        *)
THEOREM SystemInvariance == Spec => []SystemInv
  <1>1. Init => SystemInv
    BY SystemInvInit
  <1>2. SystemInv /\ [Next]_vars => SystemInv'
    BY SystemInvStep
  <1> QED
    BY <1>1, <1>2, PTL DEF Spec

(* Registry, daemons and the requests between them keep their types,       *)
(* whatever is lost, late or restarted: a daemon never reports a session   *)
(* it does not have.                                                       *)
THEOREM SystemTyped == Spec => []SystemTypeOK
  <1>1. SystemInv => SystemTypeOK
    BY DEF SystemInv, IInv, WireTypeOK, SystemTypeOK
  <1> QED
    BY <1>1, SystemInvariance, PTL

(* What DiscoveryService assumes of its daemons is so: whatever is         *)
(* answered, worked on, reported or still under way is a session that was  *)
(* handed out, so the condition on updates there excludes none.            *)
THEOREM ReportsAreOfHanded == Spec => []OnlyHanded
  <1>1. SystemInv => OnlyHanded
    BY DEF SystemInv
  <1> QED
    BY <1>1, SystemInvariance, PTL

-----------------------------------------------------------------------------
(* Without cancellations and the faults that break it: one session of a    *)
(* daemon is active at a time                                              *)

(***************************************************************************)
(* What may happen: answers and updates are lost, the preparation of a     *)
(* scan or the scan itself fails, an answer overtakes the response to an   *)
(* update.  A poll that times out, a restart of the daemon or the server,  *)
(* an update that arrives late, a scan that is taken for stalled and a     *)
(* cancellation each lead to two active sessions of one daemon.            *)
(***************************************************************************)
Tame ==
    /\ Faults \subseteq {"answer_lost", "post_lost", "overtaking",
                         "prepare_fails", "scan_aborts"}
    /\ ~MayCancel

Polling == {"poll_select", "poll_transition", "poll_reply"}

NoneActive(d) == \A s \in Session : Owner[s] = d => sessions[s] \notin Active

(* The daemon has no task, or one the server has seen the end of. *)
Free(d) == job[d] # NoSession => stage[d] = "ending" /\ post[d] = Acked

(* One work request of a daemon is under way. *)
PollsAreAsked == \A t \in Task : pc[t] \in Polling => asked[did[t]] = t
AskedIsUnanswered == \A d \in Daemon : asked[d] # NoTask => answer[d] = NoAnswer

NothingCancelled ==
    /\ \A t \in Task : pc[t] \notin {"cancel_pending", "cancel_flag"}
    /\ late = {}

(* The three sections of get_pending_work. *)
Choosing ==
    \A t \in Task :
        pc[t] \in {"poll_select", "poll_transition"} => NoneActive(did[t])

Chosen ==
    \A t \in Task : pc[t] = "poll_transition" =>
        sessions[sid[t]] = "Pending" /\ Owner[sid[t]] = did[t]

Replying ==
    \A t \in Task : pc[t] = "poll_reply" /\ sid[t] # NoSession =>
        /\ sessions[sid[t]] = "Starting"
        /\ Owner[sid[t]] = did[t]
        /\ sid[t] \notin handed
        /\ Free(did[t])

(* The work of an answer is new to its daemon. *)
Answered ==
    \A d \in Daemon : answer[d] # NoAnswer /\ answer[d].work # NoSession =>
        /\ sessions[answer[d].work] = "Starting"
        /\ Owner[answer[d].work] = d
        /\ fresh[answer[d].work] = "unseen"
        /\ Free(d)

(* The life of a task, and what the server knows of its session. *)
Working(d) ==
    /\ stage[d] # "idle"
    /\ Owner[job[d]] = d
    /\ job[d] \notin stalled
    /\ fresh[job[d]] # "old"
    /\ stage[d] = "preparing" =>
           /\ sessions[job[d]] = "Starting"
           /\ post[d] = NoPost
           /\ fresh[job[d]] = "unseen"
    /\ stage[d] = "scanning" =>
           /\ sessions[job[d]] \in Active
           /\ post[d] \in Updates =>
                  post[d].session = job[d] /\ post[d].phase \in Reported
    /\ stage[d] = "ending" =>
           \/ /\ post[d] \in Updates
              /\ post[d].session = job[d] /\ post[d].phase = "Ended"
              /\ sessions[job[d]] \in Active
           \/ post[d] = Acked /\ sessions[job[d]] = "none"

Resting(d) == stage[d] = "idle" /\ post[d] = NoPost

Tasks == \A d \in Daemon : IF job[d] = NoSession THEN Resting(d) ELSE Working(d)

(* A session that never started to report is not stalled. *)
StalledWasSeen == \A s \in stalled : fresh[s] # "unseen"

PushedIsPending == \A t \in Task : pc[t] = "start_push" => sessions[sid[t]] = "Pending"

(* A session waits once. *)
PendingIsNew == \A s \in Session : sessions[s] = "Pending" => s \notin handed

TameParts ==
    /\ PollsAreAsked /\ AskedIsUnanswered
    /\ NothingCancelled
    /\ Choosing /\ Chosen /\ Replying
    /\ Answered
    /\ Tasks
    /\ StalledWasSeen
    /\ PushedIsPending
    /\ PendingIsNew
    /\ OneActive

TameInv == SystemInv /\ TameParts

(* A working daemon that is not Free has an active session. *)
LEMMA BusyIsActive ==
    ASSUME SystemInv, Tasks, NEW d \in Daemon, job[d] # NoSession
    PROVE  /\ job[d] \in Session
           /\ job[d] \in handed
           /\ Owner[job[d]] = d
           /\ Free(d) \/ sessions[job[d]] \in Active
  <1>1. Working(d)
    BY DEF Tasks
  <1>2. job[d] \in Session /\ job[d] \in handed
    BY DEF SystemInv, WireTypeOK, RunnerTypeOK, OnlyHanded
  <1>3. stage[d] \in {"idle", "preparing", "scanning", "ending"}
    BY DEF SystemInv, WireTypeOK, RunnerTypeOK
  <1> QED
    BY <1>1, <1>2, <1>3 DEF Working, Free, Active

(***************************************************************************)
(* A step of daemon d that leaves the registry alone keeps the invariant   *)
(* if it keeps the daemon's own part of it and is not one of a daemon that *)
(* stops being free with work to come.                                     *)
(***************************************************************************)
LEMMA DaemonKept ==
    ASSUME SystemInv, TameParts, NEW d \in Daemon,
           UNCHANGED <<svars, late, asked>>,
           \A e \in Daemon \ {d} :
               job'[e] = job[e] /\ stage'[e] = stage[e] /\ post'[e] = post[e],
           IF job'[d] = NoSession THEN Resting(d)' ELSE Working(d)',
           \/ answer' = answer /\ (Free(d) => Free(d)')
           \/ answer[d] # NoAnswer /\ answer' = [answer EXCEPT ![d] = NoAnswer]
    PROVE  TameParts'
  <1>0. answer \in [Daemon -> Answers \cup {NoAnswer}]
    BY DEF SystemInv, WireTypeOK
  <1>1. UNCHANGED <<sessions, fresh, handed, pc, sid, did, stalled>>
    BY DEF svars, maps, task, sweep
  <1>2. PollsAreAsked' /\ NothingCancelled'
    BY <1>1 DEF TameParts, PollsAreAsked, NothingCancelled
  <1>3. AskedIsUnanswered'
    BY <1>0 DEF TameParts, AskedIsUnanswered
  <1>4. Choosing' /\ Chosen'
    BY <1>1 DEF TameParts, Choosing, Chosen, NoneActive
  <1>5. StalledWasSeen' /\ PushedIsPending' /\ PendingIsNew' /\ OneActive'
    BY <1>1 DEF TameParts, StalledWasSeen, PushedIsPending, PendingIsNew, OneActive
  <1>6. \A e \in Daemon \ {d} : Free(e) => Free(e)'
    BY DEF Free
  <1>8. Replying'
    <2>1. ASSUME NEW t \in Task, pc[t] = "poll_reply", sid[t] # NoSession
          PROVE  Free(did[t])'
      <3>1. PICK e \in Daemon : e = did[t]
        BY <2>1 DEF SystemInv, IInv, LocalsSet
      <3>2. Free(e) /\ asked[e] = t
        BY <2>1, <3>1 DEF TameParts, Replying, PollsAreAsked, Polling
      <3>3. answer[e] = NoAnswer
        BY <3>2, NoneAssumption DEF TameParts, AskedIsUnanswered
      <3>4. Free(e)'
        BY <1>6, <3>2, <3>3
      <3>5. did'[t] = e
        BY <1>1, <3>1
      <3> QED
        BY <3>4, <3>5 DEF Free
    <2> QED
      BY <1>1, <2>1 DEF TameParts, Replying
  <1>9. Answered'
    <2>1. ASSUME NEW e \in Daemon, answer'[e] # NoAnswer, answer'[e].work # NoSession
          PROVE  /\ sessions[answer'[e].work] = "Starting"
                 /\ Owner[answer'[e].work] = e
                 /\ fresh[answer'[e].work] = "unseen"
                 /\ Free(e)'
      <3>1. answer'[e] = answer[e] /\ (Free(e) => Free(e)')
        BY <1>0, <1>6, <2>1
      <3> DEFINE s == answer[e].work
      <3>2. /\ sessions[s] = "Starting" /\ Owner[s] = e /\ fresh[s] = "unseen"
            /\ Free(e)
        BY <2>1, <3>1 DEF TameParts, Answered
      <3> QED
        BY <3>1, <3>2
    <2> QED
      BY <1>1, <2>1 DEF Answered
  <1>10. Tasks'
    <2>1. ASSUME NEW e \in Daemon, e # d, job'[e] # NoSession
          PROVE  Working(e)'
      <3>1. Working(e) /\ job'[e] = job[e] /\ stage'[e] = stage[e] /\ post'[e] = post[e]
        BY <2>1 DEF TameParts, Tasks
      <3> QED
        BY <1>1, <3>1 DEF Working
    <2>2. ASSUME NEW e \in Daemon, e # d, job'[e] = NoSession
          PROVE  Resting(e)'
      BY <2>2 DEF TameParts, Tasks, Resting
    <2> QED
      BY <2>1, <2>2 DEF Tasks
  <1> QED
    BY <1>2, <1>3, <1>4, <1>5, <1>8, <1>9, <1>10 DEF TameParts

LEMMA TakeAnswerTame ==
    ASSUME SystemInv, TameParts, NEW d \in Daemon, TakeAnswer(d)
    PROVE  TameParts'
  <1>0. /\ job \in [Daemon -> Session \cup {NoSession}]
        /\ stage \in [Daemon -> {"idle", "preparing", "scanning", "ending"}]
        /\ answer \in [Daemon -> Answers \cup {NoAnswer}]
    BY DEF SystemInv, WireTypeOK, RunnerTypeOK
  <1>1. /\ UNCHANGED <<svars, late, asked, post>>
        /\ answer[d] # NoAnswer
        /\ answer' = [answer EXCEPT ![d] = NoAnswer]
    BY DEF TakeAnswer, ReceiveAnswer
  <1>2. UNCHANGED <<sessions, fresh, handed, stalled>>
    BY <1>1 DEF svars, maps, sweep
  <1> DEFINE s == answer[d].work
  <1>3. CASE s # NoSession /\ job[d] = NoSession
    <2>1. /\ job' = [job EXCEPT ![d] = s]
          /\ stage' = [stage EXCEPT ![d] = "preparing"]
      BY <1>3 DEF TakeAnswer, ReceiveAnswer, IsRunning
    <2>2. /\ sessions[s] = "Starting" /\ Owner[s] = d
          /\ fresh[s] = "unseen"
      BY <1>1, <1>3 DEF TameParts, Answered
    <2>3. s \notin stalled
      BY <2>2 DEF TameParts, StalledWasSeen
    <2>4. post[d] = NoPost
      BY <1>3 DEF TameParts, Tasks, Resting
    <2>5. job'[d] = s /\ stage'[d] = "preparing"
      BY <1>0, <2>1
    <2>6. \A e \in Daemon \ {d} : job'[e] = job[e] /\ stage'[e] = stage[e]
      BY <1>0, <2>1
    <2> HIDE DEF s
    <2>7. Working(d)'
      BY <1>1, <1>2, <2>2, <2>3, <2>4, <2>5 DEF Working
    <2> QED
      BY <1>1, <1>3, <2>5, <2>6, <2>7, DaemonKept
  <1>4. CASE ~(s # NoSession /\ job[d] = NoSession)
    <2>1. UNCHANGED <<job, stage>>
      BY <1>4 DEF TakeAnswer, ReceiveAnswer, IsRunning
    <2>2. IF job[d] = NoSession THEN Resting(d) ELSE Working(d)
      BY DEF TameParts, Tasks
    <2>3. IF job'[d] = NoSession THEN Resting(d)' ELSE Working(d)'
      BY <1>1, <1>2, <2>1, <2>2 DEF Resting, Working
    <2> QED
      BY <1>1, <2>1, <2>3, DaemonKept
  <1> QED
    BY <1>3, <1>4

LEMMA RunnerTame ==
    ASSUME SystemInv, TameParts, Tame, NEW d \in Daemon,
           \/ AnswerLost(d) \/ RunTask(d) \/ FinishTask(d) \/ FailToPrepare(d)
           \/ AbortScan(d) \/ Respond(d) \/ PostLost(d)
    PROVE  TameParts'
  <1>0. /\ job \in [Daemon -> Session \cup {NoSession}]
        /\ stage \in [Daemon -> {"idle", "preparing", "scanning", "ending"}]
        /\ WireTypeOK
        /\ TasksHaveSessions
    BY DEF SystemInv, WireTypeOK, RunnerTypeOK
  <1>1. IF job[d] = NoSession THEN Resting(d) ELSE Working(d)
    BY DEF TameParts, Tasks
  <1>2. UNCHANGED <<svars, asked, late>>
    BY DEF AnswerLost, RunTask, StartDiscovery, ReportProgress, FinishTask,
           FinishDiscovery, FailToPrepare, PrepareFails, AbortScan, AbortDiscovery,
           Respond, PostLost, dvars, nvars
  <1>3. UNCHANGED <<sessions, fresh, handed, stalled>>
    BY <1>2 DEF svars, maps, sweep
  <1>4. stage[d] # "idle" => job[d] # NoSession /\ job[d] \in Session /\ Working(d)
    BY <1>0, <1>1, NullAssumption DEF TasksHaveSessions
  <1>5. CASE AnswerLost(d)
    <2>1. UNCHANGED dvars /\ answer[d] # NoAnswer
          /\ answer' = [answer EXCEPT ![d] = NoAnswer]
      BY <1>5 DEF AnswerLost
    <2>2. IF job'[d] = NoSession THEN Resting(d)' ELSE Working(d)'
      BY <1>1, <1>3, <2>1 DEF dvars, Resting, Working
    <2> QED
      BY <1>2, <2>1, <2>2, DaemonKept DEF dvars
  <1>6. CASE StartDiscovery(d) /\ UNCHANGED nvars
    <2>1. /\ stage[d] = "preparing" /\ Post(d, "Started")
          /\ stage' = [stage EXCEPT ![d] = "scanning"]
          /\ UNCHANGED <<job, answer>>
      BY <1>6 DEF StartDiscovery, nvars
    <2>2. /\ sessions[job[d]] = "Starting" /\ fresh[job[d]] = "unseen"
          /\ ~Free(d)
      BY <1>4, <2>1 DEF Working, Free
    <2>3. /\ post'[d] \in Updates
          /\ post'[d].session = job[d] /\ post'[d].phase = "Started"
          /\ \A e \in Daemon \ {d} : post'[e] = post[e]
      BY <1>0, <2>1, PostWire DEF Reported
    <2>4. stage'[d] = "scanning" /\ \A e \in Daemon \ {d} : stage'[e] = stage[e]
      BY <1>0, <2>1
    <2>5. Working(d)'
      BY <1>3, <1>4, <2>1, <2>2, <2>3, <2>4 DEF Working, Reported, Active
    <2> QED
      BY <1>2, <1>4, <2>1, <2>2, <2>3, <2>4, <2>5, DaemonKept
  <1>7. CASE (ReportProgress(d) \/ FinishDiscovery(d)) /\ UNCHANGED nvars
    <2>1. PICK phase \in Reported \cup {"Ended"} :
            /\ Post(d, phase)
            /\ \/ phase \in Reported /\ stage' = stage
               \/ phase = "Ended" /\ stage' = [stage EXCEPT ![d] = "ending"]
      BY <1>7 DEF ReportProgress, FinishDiscovery, Reported
    <2>2. /\ stage[d] = "scanning" /\ post[d] = NoPost
          /\ UNCHANGED <<job, answer>>
      BY <1>7 DEF ReportProgress, FinishDiscovery, nvars
    <2>3. sessions[job[d]] \in Active /\ ~Free(d)
      BY <1>4, <2>2 DEF Working, Free
    <2>4. /\ post'[d] \in Updates
          /\ post'[d].session = job[d] /\ post'[d].phase = phase
          /\ \A e \in Daemon \ {d} : post'[e] = post[e]
      BY <1>0, <2>1, <2>2, PostWire
    <2>5. /\ \/ phase \in Reported /\ stage'[d] = "scanning"
             \/ phase = "Ended" /\ stage'[d] = "ending"
          /\ \A e \in Daemon \ {d} : stage'[e] = stage[e]
      BY <1>0, <2>1, <2>2
    <2>6. Working(d)'
      BY <1>3, <1>4, <2>2, <2>3, <2>4, <2>5 DEF Working
    <2> QED
      BY <1>2, <1>4, <2>2, <2>3, <2>4, <2>5, <2>6, DaemonKept
  <1>8. CASE (PrepareFails(d) \/ AbortDiscovery(d)) /\ UNCHANGED nvars
    <2>1. /\ EndTask(d) /\ UNCHANGED <<post, answer>>
          /\ stage[d] # "idle"
      BY <1>8 DEF PrepareFails, AbortDiscovery, nvars
    <2>2. post[d] = NoPost
      BY <1>4, <1>8 DEF PrepareFails, AbortDiscovery, Working
    <2>3. /\ job'[d] = NoSession /\ stage'[d] = "idle"
          /\ \A e \in Daemon \ {d} : job'[e] = job[e] /\ stage'[e] = stage[e]
      BY <1>0, <2>1, EndTaskWire
    <2>4. Resting(d)' /\ Free(d)'
      BY <2>1, <2>2, <2>3 DEF Resting, Free
    <2> QED
      BY <1>2, <2>1, <2>3, <2>4, DaemonKept
  <1>9. CASE Respond(d) \/ PostLost(d)
    <2>1. PostReturns(d) /\ UNCHANGED <<answer>> /\ post[d] # NoPost
      BY <1>9 DEF Respond, PostLost, nvars, PostReturns
    <2>2. /\ post'[d] = NoPost
          /\ \A e \in Daemon \ {d} :
                 job'[e] = job[e] /\ stage'[e] = stage[e] /\ post'[e] = post[e]
      BY <1>0, <2>1, PostReturnsWire
    <2>3. CASE stage[d] = "ending"
      <3>1. job'[d] = NoSession /\ stage'[d] = "idle"
        BY <1>0, <2>1, <2>3, PostReturnsWire
      <3>2. Resting(d)' /\ Free(d)'
        BY <2>2, <3>1 DEF Resting, Free
      <3> QED
        BY <1>2, <2>1, <2>2, <3>1, <3>2, DaemonKept
    <2>4. CASE stage[d] # "ending"
      <3>1. job'[d] = job[d] /\ stage'[d] = stage[d]
        BY <1>0, <2>1, <2>4, PostReturnsWire
      <3>2. job[d] # NoSession /\ Working(d)
        BY <1>1, <2>1 DEF Resting
      <3>3. ~Free(d)
        BY <2>4, <3>2 DEF Free
      <3>4. Working(d)'
        BY <1>3, <2>2, <2>4, <3>1, <3>2, PostAssumption DEF Working
      <3> QED
        BY <1>2, <2>1, <2>2, <3>1, <3>2, <3>3, <3>4, DaemonKept
    <2> QED
      BY <2>3, <2>4
  <1> QED
    BY <1>5, <1>6, <1>7, <1>8, <1>9 DEF RunTask, FinishTask, FailToPrepare, AbortScan

(* The conjuncts of the registry's invariant that are used here. *)
LEMMA RegistryFacts ==
    ASSUME SystemInv
    PROVE  /\ TypeOK
           /\ LocalsSet
           /\ QueueOwned
           /\ TrackedIsQueued
           /\ StartIsPrivate
           /\ \A s \in Session : s \notin issued => s \notin handed /\ sessions[s] = "none"
           /\ \A t \in Task : sid[t] # NoSession => sid[t] \in issued
           /\ TimedWasHanded
           /\ answer \in [Daemon -> Answers \cup {NoAnswer}]
           /\ asked \in [Daemon -> Task \cup {NoTask}]
  <1>1. IInv /\ WireTypeOK
    BY DEF SystemInv
  <1>2. /\ TypeOK /\ LocalsSet /\ QueueOwned /\ TrackedIsQueued /\ StartIsPrivate
        /\ TimedWasHanded /\ InUseIsIssued
    BY <1>1 DEF IInv
  <1> QED
    BY <1>1, <1>2 DEF InUseIsIssued, Tracked, WireTypeOK

(* Work and tasks are of sessions that were handed out. *)
LEMMA WorkFacts ==
    ASSUME SystemInv, NEW d \in Daemon
    PROVE  /\ answer[d] # NoAnswer /\ answer[d].work # NoSession =>
                  answer[d].work \in Session /\ answer[d].work \in handed
           /\ job[d] # NoSession => job[d] \in Session /\ job[d] \in handed
  <1>1. OnlyHanded /\ answer[d] \in Answers \cup {NoAnswer}
        /\ job[d] \in Session \cup {NoSession}
    BY DEF SystemInv, WireTypeOK, RunnerTypeOK
  <1> QED
    BY <1>1 DEF OnlyHanded, Answers

LEMMA UserStartTame ==
    ASSUME SystemInv, TameParts, NEW t \in UserTask, NEW s \in Session, UserStart(t, s)
    PROVE  TameParts'
  <1>0. t \in Task
    BY DEF UserTask
  <1>1. /\ pc[t] = "idle" /\ s \notin issued
        /\ sessions' = [sessions EXCEPT ![s] = "Pending"]
        /\ sid' = [sid EXCEPT ![t] = s]
        /\ pc' = [pc EXCEPT ![t] = "start_push"]
        /\ UNCHANGED <<fresh, handed, did, stalled>>
        /\ UNCHANGED <<job, stage, post, late, asked, answer>>
    BY DEF UserStart, StartInsert, Goto, sweep, dvars, nvars
  <1>2. TypeOK /\ LocalsSet /\ s \notin handed /\ sessions[s] = "none"
    BY <1>1, RegistryFacts
  <1>3. /\ sessions'[s] = "Pending"
        /\ \A x \in Session \ {s} : sessions'[x] = sessions[x]
        /\ pc'[t] = "start_push" /\ sid'[t] = s
        /\ \A x \in Task \ {t} : pc'[x] = pc[x] /\ sid'[x] = sid[x]
    BY <1>0, <1>1, <1>2 DEF TypeOK
  <1>4. \A x \in Task : sid[x] # s
    BY <1>1, RegistryFacts, NullAssumption
  <1>5. \A x \in Session : sessions'[x] \in Active => x # s /\ sessions[x] \in Active
    BY <1>3 DEF Active, Reported
  <1>6. PollsAreAsked' /\ AskedIsUnanswered' /\ NothingCancelled'
    BY <1>1, <1>3 DEF TameParts, PollsAreAsked, AskedIsUnanswered, NothingCancelled, Polling
  <1>7. Choosing'
    BY <1>1, <1>3, <1>5 DEF TameParts, Choosing, NoneActive
  <1>8. Chosen' /\ Replying'
    <2>1. \A x \in Task : pc'[x] \in Polling => x # t /\ pc[x] \in Polling /\ sid'[x] = sid[x]
      BY <1>3 DEF Polling
    <2>2. \A x \in Task : pc[x] = "poll_transition" => sid[x] \in Session \ {s}
      BY <1>2, <1>4 DEF LocalsSet
    <2>3. \A x \in Task : sid[x] # NoSession => sid[x] \in Session \ {s}
      BY <1>2, <1>4 DEF TypeOK
    <2>4. Chosen'
      BY <1>1, <1>3, <2>1, <2>2 DEF TameParts, Chosen, Polling
    <2>5. Replying'
      BY <1>1, <1>3, <2>1, <2>3 DEF TameParts, Replying, Polling, Free
    <2> QED
      BY <2>4, <2>5
  <1>9. Answered'
    <2>1. \A e \in Daemon : answer[e] # NoAnswer /\ answer[e].work # NoSession =>
              sessions'[answer[e].work] = sessions[answer[e].work]
      BY <1>2, <1>3, WorkFacts
    <2> QED
      BY <1>1, <2>1 DEF TameParts, Answered, Free
  <1>10. Tasks'
    <2>1. \A e \in Daemon : job[e] # NoSession => sessions'[job[e]] = sessions[job[e]]
      BY <1>2, <1>3, WorkFacts
    <2> QED
      BY <1>1, <2>1 DEF TameParts, Tasks, Working, Resting
  <1>11. StalledWasSeen'
    BY <1>1 DEF TameParts, StalledWasSeen
  <1>12. PushedIsPending'
    <2>1. \A x \in Task : pc[x] = "start_push" => sid[x] \in Session \ {s}
      BY <1>2, <1>4 DEF LocalsSet
    <2> QED
      BY <1>3, <2>1 DEF TameParts, PushedIsPending
  <1>13. PendingIsNew'
    BY <1>1, <1>2, <1>3 DEF TameParts, PendingIsNew
  <1>14. OneActive'
    BY <1>5 DEF TameParts, OneActive
  <1> QED
    BY <1>6, <1>7, <1>8, <1>9, <1>10, <1>11, <1>12, <1>13, <1>14 DEF TameParts

(* A handler that moves on without a change of the sessions. *)
LEMMA HandlerKept ==
    ASSUME SystemInv, TameParts, NEW t \in Task,
           UNCHANGED <<sessions, fresh, handed, stalled>>,
           UNCHANGED <<job, stage, post, late>>,
           answer' = answer,
           \A x \in Task \ {t} : pc'[x] = pc[x] /\ sid'[x] = sid[x] /\ did'[x] = did[x],
           pc'[t] \in {"idle"} \cup Polling,
           PollsAreAsked', AskedIsUnanswered',
           pc'[t] \in {"poll_select", "poll_transition"} => NoneActive(did'[t]),
           pc'[t] = "poll_transition" =>
               sessions[sid'[t]] = "Pending" /\ Owner[sid'[t]] = did'[t],
           pc'[t] = "poll_reply" => sid'[t] = NoSession
    PROVE  TameParts'
  <1>1. NothingCancelled'
    BY DEF TameParts, NothingCancelled, Polling
  <1>2. Choosing'
    BY DEF TameParts, Choosing, NoneActive
  <1>3. Chosen'
    BY DEF TameParts, Chosen
  <1>4. Replying'
    BY DEF TameParts, Replying, Free
  <1>5. Answered' /\ Tasks'
    BY DEF TameParts, Answered, Free, Tasks, Working, Resting
  <1>6. StalledWasSeen' /\ PendingIsNew' /\ OneActive'
    BY DEF TameParts, StalledWasSeen, PendingIsNew,
           OneActive
  <1>7. PushedIsPending'
    BY DEF TameParts, PushedIsPending, Polling
  <1> QED
    BY <1>1, <1>2, <1>3, <1>4, <1>5, <1>6, <1>7 DEF TameParts

LEMMA StartPushTame ==
    ASSUME SystemInv, TameParts, NEW t \in UserTask, UserStep(t)
    PROVE  TameParts'
  <1>0. t \in Task
    BY DEF UserTask
  <1>1. StartPush(t) /\ UNCHANGED <<dvars, nvars>>
    BY <1>0 DEF UserStep, CancelPending, CancelFlag, TameParts, NothingCancelled
  <1>2. /\ pc' = [pc EXCEPT ![t] = "idle"]
        /\ sid' = [sid EXCEPT ![t] = NoSession]
        /\ did' = [did EXCEPT ![t] = NoDaemon]
        /\ UNCHANGED <<sessions, fresh, handed, stalled>>
        /\ UNCHANGED <<job, stage, post, late, asked, answer>>
    BY <1>1 DEF StartPush, Return, sweep, dvars, nvars
  <1>3. TypeOK
    BY RegistryFacts
  <1>4. /\ pc'[t] = "idle"
        /\ \A x \in Task \ {t} : pc'[x] = pc[x] /\ sid'[x] = sid[x] /\ did'[x] = did[x]
    BY <1>0, <1>2, <1>3 DEF TypeOK
  <1>5. PollsAreAsked' /\ AskedIsUnanswered'
    BY <1>2, <1>4 DEF TameParts, PollsAreAsked, AskedIsUnanswered, Polling
  <1> QED
    BY <1>0, <1>2, <1>4, <1>5, HandlerKept

LEMMA AskForWorkTame ==
    ASSUME SystemInv, TameParts, NEW t \in PollTask, NEW d \in Daemon, AskForWork(t, d)
    PROVE  TameParts'
  <1>0. t \in Task
    BY PollTaskAssumption
  <1>1. /\ asked[d] = NoTask /\ answer[d] = NoAnswer
        /\ pc[t] = "idle"
        /\ did' = [did EXCEPT ![t] = d]
        /\ pc' = [pc EXCEPT ![t] = IF HasActiveSession(d) THEN "poll_reply"
                                   ELSE "poll_select"]
        /\ asked' = [asked EXCEPT ![d] = t]
        /\ UNCHANGED <<sessions, fresh, handed, stalled, sid>>
        /\ UNCHANGED <<job, stage, post, late, answer>>
    BY DEF AskForWork, PollCheckActive, Goto, maps, sweep, dvars
  <1>2. TypeOK /\ LocalsSet /\ asked \in [Daemon -> Task \cup {NoTask}]
    BY RegistryFacts
  <1>3. /\ did'[t] = d /\ asked'[d] = t
        /\ sid'[t] = NoSession
        /\ pc'[t] \in {"poll_reply", "poll_select"}
        /\ pc'[t] = "poll_select" => ~HasActiveSession(d)
        /\ \A x \in Task \ {t} : pc'[x] = pc[x] /\ sid'[x] = sid[x] /\ did'[x] = did[x]
        /\ \A e \in Daemon \ {d} : asked'[e] = asked[e]
    BY <1>0, <1>1, <1>2 DEF TypeOK, LocalsSet
  <1>4. AskedIsUnanswered'
    BY <1>1, <1>3 DEF TameParts, AskedIsUnanswered
  <1>5. PollsAreAsked'
    <2>1. ASSUME NEW x \in Task, x # t, pc[x] \in Polling
          PROVE  did[x] \in Daemon /\ did[x] # d /\ asked[did[x]] = x
      BY <1>1, <1>2, <2>1, NoneAssumption DEF TameParts, PollsAreAsked, LocalsSet, Polling
    <2> QED
      BY <1>3, <2>1 DEF PollsAreAsked
  <1>6. pc'[t] = "poll_select" => NoneActive(did'[t])
    <2>1. ASSUME ~HasActiveSession(d), NEW s \in Session, Owner[s] = d
          PROVE  sessions[s] \notin Active
      <3>1. IInv /\ \A x \in Task : pc[x] = "start_push" => sessions[sid[x]] = "Pending"
        BY DEF SystemInv, TameParts, PushedIsPending
      <3> QED
        BY <2>1, <3>1, ActiveIsQueued DEF HasActiveSession
    <2> QED
      BY <1>3, <2>1 DEF NoneActive
  <1> QED
    BY <1>0, <1>1, <1>3, <1>4, <1>5, <1>6, HandlerKept DEF Polling

LEMMA PollSelectTame ==
    ASSUME SystemInv, TameParts, NEW t \in PollTask, PollSelect(t),
           UNCHANGED <<dvars, nvars>>
    PROVE  TameParts'
  <1>0. t \in Task
    BY PollTaskAssumption
  <1>1. /\ pc[t] = "poll_select"
        /\ UNCHANGED <<sessions, fresh, handed, stalled, did>>
        /\ UNCHANGED <<job, stage, post, late, asked, answer>>
    BY DEF PollSelect, maps, sweep, dvars, nvars
  <1>2. TypeOK /\ LocalsSet /\ QueueOwned
    BY RegistryFacts
  <1>3. did[t] \in Daemon /\ sid[t] = NoSession
    BY <1>0, <1>1, <1>2 DEF LocalsSet
  <1>4. NoneActive(did[t]) /\ asked[did[t]] = t
    BY <1>0, <1>1 DEF TameParts, Choosing, PollsAreAsked, Polling
  <1>5. \/ /\ pc' = [pc EXCEPT ![t] = "poll_reply"]
           /\ sid' = sid
        \/ /\ pc' = [pc EXCEPT ![t] = "poll_transition"]
           /\ \E i \in 1 .. Len(queue[did[t]]) :
                /\ sessions[queue[did[t]][i]] = "Pending"
                /\ sid' = [sid EXCEPT ![t] = queue[did[t]][i]]
    BY DEF PollSelect, IsFirstPending, Goto
  <1>6. \/ pc'[t] = "poll_reply" /\ sid'[t] = NoSession
        \/ /\ pc'[t] = "poll_transition"
           /\ sessions[sid'[t]] = "Pending" /\ Owner[sid'[t]] = did[t]
    <2>1. ASSUME NEW i \in 1 .. Len(queue[did[t]])
          PROVE  Owner[queue[did[t]][i]] = did[t]
      <3>1. queue[did[t]] \in Seq(Session)
        BY <1>2, <1>3 DEF TypeOK
      <3>2. queue[did[t]][i] \in Queued(did[t])
        BY <3>1 DEF Queued, Range
      <3> QED
        BY <1>2, <1>3, <3>2 DEF QueueOwned
    <2> QED
      BY <1>0, <1>2, <1>3, <1>5, <2>1 DEF TypeOK
  <1>7. \A x \in Task \ {t} : pc'[x] = pc[x] /\ sid'[x] = sid[x] /\ did'[x] = did[x]
    BY <1>0, <1>1, <1>2, <1>5 DEF TypeOK
  <1>8. PollsAreAsked' /\ AskedIsUnanswered'
    BY <1>1, <1>4, <1>7 DEF TameParts, PollsAreAsked, AskedIsUnanswered
  <1> QED
    BY <1>0, <1>1, <1>4, <1>6, <1>7, <1>8, HandlerKept DEF Polling

(* The session in hand starts; the daemon has no other that is active. *)
LEMMA PollTransitionTame ==
    ASSUME SystemInv, TameParts, NEW t \in PollTask, PollTransition(t),
           UNCHANGED <<dvars, nvars>>
    PROVE  TameParts'
  <1>0. t \in Task
    BY PollTaskAssumption
  <1>1. /\ TypeOK /\ LocalsSet
        /\ pc[t] = "poll_transition"
        /\ UNCHANGED <<fresh, handed, stalled, sid, did>>
        /\ UNCHANGED <<job, stage, post, late, asked, answer>>
        /\ pc' = [pc EXCEPT ![t] = "poll_reply"]
    BY RegistryFacts DEF PollTransition, Goto, sweep, dvars, nvars
  <1>2. PICK s \in Session : s = sid[t]
    BY <1>0, <1>1 DEF LocalsSet
  <1>3. PICK d \in Daemon : d = did[t]
    BY <1>0, <1>1 DEF LocalsSet
  <1>4. sessions[s] = "Pending" /\ Owner[s] = d
    BY <1>0, <1>1, <1>2, <1>3 DEF TameParts, Chosen
  <1>5. NoneActive(d) /\ asked[d] = t
    BY <1>0, <1>1, <1>3 DEF TameParts, Choosing, PollsAreAsked, Polling
  <1>6. s \notin handed
    BY <1>4 DEF TameParts, PendingIsNew
  <1>7. /\ sessions'[s] = "Starting"
        /\ \A x \in Session \ {s} : sessions'[x] = sessions[x]
        /\ pc'[t] = "poll_reply"
        /\ \A x \in Task \ {t} : pc'[x] = pc[x]
    BY <1>0, <1>1, <1>2, <1>4 DEF TypeOK, PollTransition
  <1>8. \A x \in Task \ {t} : pc[x] \in Polling => did[x] # d /\ asked[did[x]] = x
    BY <1>5 DEF TameParts, PollsAreAsked
  <1>9. PollsAreAsked' /\ AskedIsUnanswered' /\ NothingCancelled'
    BY <1>1, <1>3, <1>5, <1>7
       DEF TameParts, PollsAreAsked, AskedIsUnanswered, NothingCancelled
  <1>10. Choosing'
    <2>1. ASSUME NEW x \in Task, pc'[x] \in {"poll_select", "poll_transition"}
          PROVE  NoneActive(did[x])'
      <3>1. x # t /\ pc[x] \in {"poll_select", "poll_transition"}
        BY <1>7, <2>1
      <3>2. NoneActive(did[x]) /\ did[x] # d
        BY <1>8, <3>1 DEF TameParts, Choosing, Polling
      <3> QED
        BY <1>1, <1>4, <1>7, <3>2 DEF NoneActive
    <2> QED
      BY <2>1 DEF Choosing
  <1>11. Chosen'
    <2>1. ASSUME NEW x \in Task, pc'[x] = "poll_transition"
          PROVE  sessions'[sid[x]] = "Pending" /\ Owner[sid[x]] = did[x]
      <3>1. x # t /\ pc[x] = "poll_transition"
        BY <1>7, <2>1
      <3>2. sessions[sid[x]] = "Pending" /\ Owner[sid[x]] = did[x] /\ did[x] # d
        BY <1>8, <3>1 DEF TameParts, Chosen, Polling
      <3>3. sid[x] \in Session \ {s}
        BY <1>1, <1>4, <3>1, <3>2 DEF LocalsSet
      <3> QED
        BY <1>7, <3>2, <3>3
    <2> QED
      BY <1>1, <2>1 DEF Chosen
  <1>12. Replying'
    <2>1. Free(d)
      BY <1>5, BusyIsActive DEF TameParts, NoneActive, Free
    <2>2. ASSUME NEW x \in Task, x # t, pc[x] = "poll_reply", sid[x] # NoSession
          PROVE  sessions'[sid[x]] = "Starting"
      <3>1. sessions[sid[x]] = "Starting"
        BY <2>2 DEF TameParts, Replying
      <3>2. sid[x] \in Session \ {s}
        BY <1>1, <1>4, <2>2, <3>1 DEF TypeOK
      <3> QED
        BY <1>7, <3>1, <3>2
    <2>3. ASSUME NEW x \in Task, pc'[x] = "poll_reply", sid'[x] # NoSession
          PROVE  /\ sessions'[sid'[x]] = "Starting"
                 /\ Owner[sid'[x]] = did'[x]
                 /\ sid'[x] \notin handed'
                 /\ Free(did[x])
      <3>1. CASE x = t
        BY <1>1, <1>2, <1>3, <1>4, <1>6, <1>7, <2>1, <3>1
      <3>2. CASE x # t
        <4>1. pc[x] = "poll_reply" /\ sid[x] # NoSession
          BY <1>1, <1>7, <2>3, <3>2
        <4> QED
          BY <1>1, <2>2, <3>2, <4>1 DEF TameParts, Replying
      <3> QED
        BY <3>1, <3>2
    <2> QED
      BY <1>1, <2>3 DEF Replying, Free
  <1>13. Answered'
    <2>1. \A e \in Daemon : answer[e] # NoAnswer /\ answer[e].work # NoSession =>
              sessions'[answer[e].work] = sessions[answer[e].work]
      BY <1>6, <1>7, WorkFacts
    <2> QED
      BY <1>1, <2>1 DEF TameParts, Answered, Free
  <1>14. Tasks'
    <2>1. \A e \in Daemon : job[e] # NoSession => sessions'[job[e]] = sessions[job[e]]
      BY <1>6, <1>7, WorkFacts
    <2> QED
      BY <1>1, <2>1 DEF TameParts, Tasks, Working, Resting
  <1>15. StalledWasSeen'
    BY <1>1 DEF TameParts, StalledWasSeen
  <1>16. PushedIsPending'
    <2>1. ASSUME NEW x \in Task, pc'[x] = "start_push"
          PROVE  sessions'[sid[x]] = "Pending"
      <3>1. x # t /\ pc[x] = "start_push"
        BY <1>7, <2>1
      <3>2. sessions[sid[x]] = "Pending" /\ sid[x] \in Session
        BY <1>1, <3>1 DEF TameParts, PushedIsPending, LocalsSet
      <3>3. sid[x] # s
        BY <1>0, <1>1, <1>2, <3>1, RegistryFacts DEF StartIsPrivate
      <3> QED
        BY <1>7, <3>2, <3>3
    <2> QED
      BY <1>1, <2>1 DEF PushedIsPending
  <1>17. PendingIsNew'
    BY <1>1, <1>7 DEF TameParts, PendingIsNew
  <1>18. OneActive'
    <2>1. ASSUME NEW x \in Session, NEW y \in Session,
                 sessions'[x] \in Active, sessions'[y] \in Active, Owner[x] = Owner[y]
          PROVE  x = y
      <3>1. x # s => sessions[x] \in Active /\ Owner[x] # d
        BY <1>5, <1>7, <2>1 DEF NoneActive
      <3>2. y # s => sessions[y] \in Active /\ Owner[y] # d
        BY <1>5, <1>7, <2>1 DEF NoneActive
      <3> QED
        BY <1>4, <2>1, <3>1, <3>2 DEF TameParts, OneActive
    <2> QED
      BY <2>1 DEF OneActive
  <1> QED
    BY <1>9, <1>10, <1>11, <1>12, <1>13, <1>14, <1>15, <1>16, <1>17, <1>18 DEF TameParts

(* The answer leaves: its work is handed out, to a daemon that is free. *)
LEMMA AnswerTame ==
    ASSUME SystemInv, TameParts, NEW t \in PollTask, Answer(t)
    PROVE  TameParts'
  <1>0. t \in Task
    BY PollTaskAssumption
  <1>1. /\ TypeOK /\ LocalsSet
        /\ answer \in [Daemon -> Answers \cup {NoAnswer}]
        /\ asked \in [Daemon -> Task \cup {NoTask}]
    BY RegistryFacts
  <1>2. /\ pc[t] = "poll_reply"
        /\ handed' = handed \cup ({sid[t]} \ {NoSession})
        /\ pc' = [pc EXCEPT ![t] = "idle"]
        /\ sid' = [sid EXCEPT ![t] = NoSession]
        /\ did' = [did EXCEPT ![t] = NoDaemon]
        /\ UNCHANGED <<sessions, fresh, stalled>>
        /\ UNCHANGED <<job, stage, post, late>>
    BY DEF Answer, PollReply, Return, sweep, dvars
  <1>3. PICK d \in Daemon : d = did[t]
    BY <1>0, <1>1, <1>2 DEF LocalsSet
  <1>4. asked[d] = t
    BY <1>0, <1>2, <1>3 DEF TameParts, PollsAreAsked, Polling
  <1> DEFINE new == [work |-> sid[t], flagged |-> cancelFlag[d]]
  <1>5. /\ asked' = [asked EXCEPT ![d] = NoTask]
        /\ answer' = [answer EXCEPT ![d] = new]
    BY <1>3, <1>4 DEF Answer
  <1>6. /\ answer'[d].work = sid[t] /\ asked'[d] = NoTask
        /\ \A e \in Daemon \ {d} : answer'[e] = answer[e] /\ asked'[e] = asked[e]
    BY <1>1, <1>5
  <1>7. /\ pc'[t] = "idle"
        /\ \A x \in Task \ {t} : pc'[x] = pc[x] /\ sid'[x] = sid[x] /\ did'[x] = did[x]
    BY <1>0, <1>1, <1>2 DEF TypeOK
  <1> HIDE DEF new
  <1>8. sid[t] # NoSession =>
          /\ sid[t] \in Session /\ sid[t] \notin handed
          /\ sessions[sid[t]] = "Starting" /\ Owner[sid[t]] = d /\ Free(d)
    BY <1>0, <1>1, <1>2, <1>3 DEF TameParts, Replying, TypeOK
  <1>9. \A x \in Task \ {t} : pc[x] \in Polling =>
            did[x] \in Daemon /\ did[x] # d /\ asked[did[x]] = x
    BY <1>1, <1>4 DEF TameParts, PollsAreAsked, LocalsSet, Polling
  <1>10. PollsAreAsked'
    BY <1>6, <1>7, <1>9 DEF PollsAreAsked, Polling
  <1>11. AskedIsUnanswered'
    BY <1>6 DEF TameParts, AskedIsUnanswered
  <1>12. NothingCancelled'
    BY <1>2, <1>7 DEF TameParts, NothingCancelled
  <1>13. Choosing' /\ Chosen'
    BY <1>2, <1>7 DEF TameParts, Choosing, Chosen, NoneActive
  <1>14. Replying'
    <2>1. ASSUME NEW x \in Task, pc'[x] = "poll_reply", sid'[x] # NoSession
          PROVE  /\ sessions[sid[x]] = "Starting" /\ Owner[sid[x]] = did[x]
                 /\ sid[x] \notin handed' /\ Free(did[x]) /\ x # t
      <3>1. x # t /\ pc[x] = "poll_reply" /\ sid[x] # NoSession
        BY <1>7, <2>1
      <3>2. /\ sessions[sid[x]] = "Starting" /\ Owner[sid[x]] = did[x]
            /\ sid[x] \notin handed /\ Free(did[x])
        BY <3>1 DEF TameParts, Replying
      <3>3. did[x] # d
        BY <1>9, <3>1 DEF Polling
      <3>4. sid[x] # sid[t]
        BY <1>8, <3>1, <3>2, <3>3
      <3> QED
        BY <1>2, <3>1, <3>2, <3>4
    <2> QED
      BY <1>2, <1>7, <2>1 DEF Replying, Free
  <1>15. Answered'
    <2>1. ASSUME NEW e \in Daemon, answer'[e] # NoAnswer, answer'[e].work # NoSession
          PROVE  /\ sessions[answer'[e].work] = "Starting"
                 /\ Owner[answer'[e].work] = e
                 /\ fresh[answer'[e].work] = "unseen"
                 /\ Free(e)
      <3>1. CASE e = d
        <4>1. sid[t] # NoSession
          BY <1>6, <2>1, <3>1
        <4>2. fresh[sid[t]] = "unseen"
          BY <1>8, <4>1, RegistryFacts DEF TimedWasHanded
        <4> QED
          BY <1>6, <1>8, <3>1, <4>1, <4>2
      <3>2. CASE e # d
        BY <1>6, <2>1, <3>2 DEF TameParts, Answered
      <3> QED
        BY <3>1, <3>2
    <2> QED
      BY <1>2, <2>1 DEF Answered, Free
  <1>16. Tasks'
    BY <1>2 DEF TameParts, Tasks, Working, Resting
  <1>17. StalledWasSeen'
    BY <1>2 DEF TameParts, StalledWasSeen
  <1>18. PushedIsPending' /\ OneActive'
    BY <1>2, <1>7 DEF TameParts, PushedIsPending, OneActive
  <1>19. PendingIsNew'
    BY <1>2, <1>8 DEF TameParts, PendingIsNew
  <1> QED
    BY <1>10, <1>11, <1>12, <1>13, <1>14, <1>15, <1>16, <1>17, <1>18, <1>19 DEF TameParts

(* What an update does: it is of the daemon's session, which is active,    *)
(* and changes no other.                                                   *)
LEMMA DeliverIs ==
    ASSUME SystemInv, TameParts, NEW d \in Daemon, Deliver(d)
    PROVE  /\ job[d] \in Session /\ job[d] # NoSession /\ job[d] \in handed
           /\ Owner[job[d]] = d
           /\ sessions[job[d]] \in Active
           /\ ~Free(d)
           /\ \/ stage[d] = "scanning" /\ sessions'[job[d]] \in Reported
              \/ stage[d] = "ending" /\ sessions'[job[d]] = "none"
           /\ \A x \in Session \ {job[d]} :
                  sessions'[x] = sessions[x] /\ fresh'[x] = fresh[x]
           /\ fresh'[job[d]] = "recent"
           /\ UNCHANGED <<handed, pc, sid, did, stalled>>
           /\ UNCHANGED <<job, stage, late, asked, answer>>
           /\ post'[d] = Acked
           /\ \A e \in Daemon \ {d} : post'[e] = post[e]
  <1>0. /\ TypeOK
        /\ post \in [Daemon -> Updates \cup {NoPost, Acked}]
        /\ stage \in [Daemon -> {"idle", "preparing", "scanning", "ending"}]
    BY RegistryFacts DEF SystemInv, WireTypeOK, RunnerTypeOK
  <1>1. /\ post[d] \in Updates /\ Apply(post[d])
        /\ post' = [post EXCEPT ![d] = Acked]
        /\ UNCHANGED <<job, stage, late, asked, answer>>
    BY DEF Deliver, nvars
  <1>2. post[d] # NoPost /\ post[d] # Acked
    BY <1>1, PostAssumption
  <1>3. job[d] # NoSession /\ Working(d)
    BY <1>2 DEF TameParts, Tasks, Resting
  <1>4. PICK s \in Session : s = job[d] /\ s \in handed /\ Owner[s] = d
    BY <1>3, BusyIsActive DEF TameParts
  <1>5. ~Free(d)
    BY <1>2, <1>3 DEF Free
  <1>6. sessions[s] \in Active
    BY <1>3, <1>4, <1>5, BusyIsActive DEF TameParts
  <1>7. /\ post[d].session = s
        /\ \/ stage[d] = "scanning" /\ post[d].phase \in Reported
           \/ stage[d] = "ending" /\ post[d].phase = "Ended"
    BY <1>0, <1>1, <1>2, <1>3, <1>4 DEF Working
  <1>8. ~Redundant(s)
    BY <1>6 DEF Redundant, Tracked, Active, Reported
  <1>9. fresh' = [fresh EXCEPT ![s] = "recent"] /\ UNCHANGED <<handed, pc, sid, did, stalled>>
    BY <1>1, <1>7 DEF Apply, UpdateTerminal, UpdateRedundant, UpdateProgress, task, sweep
  <1>10. /\ fresh'[s] = "recent"
         /\ \A x \in Session \ {s} : fresh'[x] = fresh[x]
         /\ post'[d] = Acked
         /\ \A e \in Daemon \ {d} : post'[e] = post[e]
    BY <1>0, <1>1, <1>9 DEF TypeOK
  <1>11. CASE post[d].phase \in Reported
    <2>1. sessions' = [sessions EXCEPT ![s] = post[d].phase]
      BY <1>1, <1>7, <1>11 DEF Apply, UpdateProgress, Reported
    <2>2. stage[d] = "scanning"
      BY <1>7, <1>11 DEF Reported
    <2>3. /\ sessions'[s] \in Reported
          /\ \A x \in Session \ {s} : sessions'[x] = sessions[x]
      BY <1>0, <1>11, <2>1 DEF TypeOK
    <2> QED
      BY <1>1, <1>3, <1>4, <1>5, <1>6, <1>9, <1>10, <2>2, <2>3
  <1>12. CASE post[d].phase = "Ended"
    <2>1. UpdateTerminal(s)
      BY <1>1, <1>7, <1>8, <1>12 DEF Apply, UpdateRedundant
    <2>2. stage[d] = "ending"
      BY <1>7, <1>12 DEF Reported
    <2>3. /\ sessions'[s] = "none"
          /\ \A x \in Session \ {s} : sessions'[x] = sessions[x]
      <3>1. \A x \in Session \ {s} : Owner[x] = Owner[s] => sessions[x] \notin Active
        BY <1>6 DEF TameParts, OneActive
      <3>2. IInv /\ Tracked(s)
        BY <1>6 DEF SystemInv, Tracked, Active, Reported
      <3> QED
        BY <2>1, <3>1, <3>2, TerminalIsLocal
    <2> QED
      BY <1>1, <1>3, <1>4, <1>5, <1>6, <1>9, <1>10, <2>2, <2>3
  <1> QED
    BY <1>7, <1>11, <1>12

LEMMA DeliverTame ==
    ASSUME SystemInv, TameParts, NEW d \in Daemon, Deliver(d)
    PROVE  TameParts'
  <1>1. PICK s \in Session :
          /\ s = job[d] /\ job[d] # NoSession /\ s \in handed /\ Owner[s] = d
          /\ sessions[s] \in Active /\ ~Free(d)
          /\ \/ stage[d] = "scanning" /\ sessions'[s] \in Reported
             \/ stage[d] = "ending" /\ sessions'[s] = "none"
          /\ \A x \in Session \ {s} : sessions'[x] = sessions[x] /\ fresh'[x] = fresh[x]
          /\ fresh'[s] = "recent"
    BY DeliverIs
  <1>2. /\ UNCHANGED <<handed, pc, sid, did, stalled>>
        /\ UNCHANGED <<job, stage, late, asked, answer>>
        /\ post'[d] = Acked
        /\ \A e \in Daemon \ {d} : post'[e] = post[e]
    BY DeliverIs
  <1>3. TypeOK /\ LocalsSet
    BY RegistryFacts
  <1>4. /\ \A x \in Session : sessions'[x] \in Active => sessions[x] \in Active
        /\ sessions'[s] # "Pending" /\ sessions[s] # "Pending"
    BY <1>1 DEF Active, Reported
  <1>5. \A e \in Daemon : Free(e) => e # d /\ Free(e)'
    BY <1>1, <1>2 DEF Free
  <1>6. PollsAreAsked' /\ AskedIsUnanswered' /\ NothingCancelled'
    BY <1>2 DEF TameParts, PollsAreAsked, AskedIsUnanswered, NothingCancelled
  <1>7. Choosing'
    BY <1>2, <1>4 DEF TameParts, Choosing, NoneActive
  <1>8. Chosen'
    <2>1. \A x \in Task : pc[x] = "poll_transition" =>
              sid[x] \in Session \ {s} /\ sessions[sid[x]] = "Pending"
      BY <1>3, <1>4 DEF TameParts, Chosen, LocalsSet
    <2> QED
      BY <1>1, <1>2, <2>1 DEF TameParts, Chosen
  <1>9. Replying'
    <2>1. ASSUME NEW x \in Task, pc[x] = "poll_reply", sid[x] # NoSession
          PROVE  /\ sessions'[sid[x]] = "Starting" /\ Owner[sid[x]] = did[x]
                 /\ sid[x] \notin handed /\ Free(did[x])'
      <3>1. /\ sessions[sid[x]] = "Starting" /\ Owner[sid[x]] = did[x]
            /\ sid[x] \notin handed /\ Free(did[x])
        BY <2>1 DEF TameParts, Replying
      <3>2. sid[x] \in Session \ {s}
        BY <1>1, <1>3, <2>1, <3>1 DEF TypeOK
      <3>3. PICK e \in Daemon : e = did[x] /\ Free(e) /\ did'[x] = e
        BY <1>2, <1>3, <2>1, <3>1 DEF LocalsSet, Free
      <3>4. Free(e)'
        BY <1>5, <3>3
      <3> QED
        BY <1>1, <3>1, <3>2, <3>3, <3>4 DEF Free
    <2> QED
      BY <1>2, <2>1 DEF Replying
  <1>10. Answered'
    <2>1. ASSUME NEW e \in Daemon, answer[e] # NoAnswer, answer[e].work # NoSession
          PROVE  /\ sessions'[answer[e].work] = "Starting"
                 /\ Owner[answer[e].work] = e
                 /\ fresh'[answer[e].work] = "unseen"
                 /\ Free(e)'
      <3>1. /\ sessions[answer[e].work] = "Starting" /\ Owner[answer[e].work] = e
            /\ fresh[answer[e].work] = "unseen"
            /\ Free(e)
        BY <2>1 DEF TameParts, Answered
      <3>2. e # d /\ Free(e)'
        BY <1>5, <3>1
      <3>3. answer[e].work \in Session \ {s}
        BY <1>1, <2>1, <3>1, <3>2, WorkFacts
      <3> QED
        BY <1>1, <3>1, <3>2, <3>3
    <2> QED
      BY <1>2, <2>1 DEF Answered
  <1>11. Tasks'
    <2>1. Working(d)'
      <3>1. Working(d)
        BY <1>1 DEF TameParts, Tasks
      <3> QED
        BY <1>1, <1>2, <3>1, PostAssumption DEF Working, Active
    <2>2. ASSUME NEW e \in Daemon, e # d, job[e] # NoSession
          PROVE  Working(e)'
      <3>1. Working(e) /\ job[e] \in Session \ {s}
        BY <1>1, <2>2, BusyIsActive DEF TameParts, Tasks
      <3> QED
        BY <1>1, <1>2, <2>2, <3>1 DEF Working
    <2>3. ASSUME NEW e \in Daemon, e # d, job[e] = NoSession
          PROVE  Resting(e)'
      BY <1>2, <2>3 DEF TameParts, Tasks, Resting
    <2> QED
      BY <1>1, <1>2, <2>1, <2>2, <2>3 DEF Tasks
  <1>12. StalledWasSeen'
    BY <1>1, <1>2, <1>3 DEF TameParts, StalledWasSeen, TypeOK
  <1>13. PushedIsPending'
    <2>1. \A x \in Task : pc[x] = "start_push" => sid[x] \in Session \ {s}
      BY <1>3, <1>4 DEF TameParts, PushedIsPending, LocalsSet
    <2> QED
      BY <1>1, <1>2, <2>1 DEF TameParts, PushedIsPending
  <1>14. PendingIsNew'
    BY <1>1, <1>2, <1>4 DEF TameParts, PendingIsNew
  <1>15. OneActive'
    BY <1>4 DEF TameParts, OneActive
  <1> QED
    BY <1>6, <1>7, <1>8, <1>9, <1>10, <1>11, <1>12, <1>13, <1>14, <1>15 DEF TameParts

(***************************************************************************)
(* Time and the cleanup task touch no session that a daemon works on or is *)
(* about to be given: what they remove is stalled, and so was seen.        *)
(***************************************************************************)
LEMMA CleanupKept ==
    ASSUME SystemInv, TameParts,
           UNCHANGED <<handed, pc, sid, did>>,
           UNCHANGED <<job, stage, post, late, asked, answer>>,
           \A s \in Session : \/ sessions'[s] = sessions[s]
                              \/ s \in stalled /\ sessions'[s] = "none",
           \A s \in Session : fresh[s] = "unseen" => fresh'[s] = "unseen",
           \A d \in Daemon : job[d] # NoSession =>
               (job[d] \notin stalled' /\ fresh'[job[d]] # "old"),
           StalledWasSeen'
    PROVE  TameParts'
  <1>1. TypeOK /\ LocalsSet /\ stalled \subseteq handed
    BY RegistryFacts DEF TimedWasHanded
  <1>2. \A s \in Session : s \notin handed => sessions'[s] = sessions[s]
    BY <1>1
  <1>3. \A s \in Session : sessions'[s] # "none" => sessions'[s] = sessions[s]
    OBVIOUS
  <1>4. \A s \in Session : sessions'[s] \in Active => sessions[s] \in Active
    BY <1>3 DEF Active, Reported
  <1>5. PollsAreAsked' /\ AskedIsUnanswered' /\ NothingCancelled'
    BY DEF TameParts, PollsAreAsked, AskedIsUnanswered, NothingCancelled
  <1>6. Choosing'
    BY <1>4 DEF TameParts, Choosing, NoneActive
  <1>7. Chosen'
    <2>1. \A t \in Task : pc[t] = "poll_transition" =>
              sid[t] \in Session /\ sid[t] \notin handed
      BY <1>1 DEF TameParts, Chosen, LocalsSet, PendingIsNew
    <2> QED
      BY <1>2, <2>1 DEF TameParts, Chosen
  <1>8. Replying'
    <2>1. \A t \in Task : sid[t] # NoSession => sid[t] \in Session
      BY <1>1 DEF TypeOK
    <2> QED
      BY <1>2, <2>1 DEF TameParts, Replying, Free
  <1>9. Answered'
    <2>1. ASSUME NEW d \in Daemon, answer[d] # NoAnswer, answer[d].work # NoSession
          PROVE  /\ sessions'[answer[d].work] = "Starting"
                 /\ Owner[answer[d].work] = d
                 /\ fresh'[answer[d].work] = "unseen"
                 /\ Free(d)'
      <3>1. /\ sessions[answer[d].work] = "Starting" /\ Owner[answer[d].work] = d
            /\ fresh[answer[d].work] = "unseen"
            /\ Free(d)
        BY <2>1 DEF TameParts, Answered
      <3>2. answer[d].work \in Session /\ answer[d].work \notin stalled
        BY <2>1, <3>1, WorkFacts DEF TameParts, StalledWasSeen
      <3>3. Free(d)'
        BY <3>1 DEF Free
      <3> QED
        BY <3>1, <3>2, <3>3
    <2> QED
      BY <2>1 DEF Answered
  <1>10. Tasks'
    <2>1. ASSUME NEW d \in Daemon, job[d] # NoSession
          PROVE  Working(d)'
      <3>1. Working(d) /\ job[d] \in Session
        BY <2>1, WorkFacts DEF TameParts, Tasks
      <3>2. sessions'[job[d]] = sessions[job[d]]
        BY <3>1 DEF Working
      <3> QED
        BY <2>1, <3>1, <3>2 DEF Working
    <2>2. ASSUME NEW d \in Daemon, job[d] = NoSession
          PROVE  Resting(d)'
      BY <2>2 DEF TameParts, Tasks, Resting
    <2> QED
      BY <2>1, <2>2 DEF Tasks
  <1>11. PushedIsPending'
    <2>1. \A t \in Task : pc[t] = "start_push" =>
              sid[t] \in Session /\ sid[t] \notin handed
      BY <1>1 DEF TameParts, PushedIsPending, LocalsSet, PendingIsNew
    <2> QED
      BY <1>2, <2>1 DEF TameParts, PushedIsPending
  <1>12. PendingIsNew' /\ OneActive'
    BY <1>3, <1>4 DEF TameParts, PendingIsNew, OneActive
  <1> QED
    BY <1>5, <1>6, <1>7, <1>8, <1>9, <1>10, <1>11, <1>12 DEF TameParts

LEMMA ElapseTame ==
    ASSUME SystemInv, TameParts, Tame, NEW s \in Session, Elapse(s)
    PROVE  TameParts'
  <1>1. /\ \A d \in Daemon : job[d] # s
        /\ fresh[s] = "recent"
        /\ fresh' = [fresh EXCEPT ![s] = "old"]
        /\ UNCHANGED <<sessions, handed, pc, sid, did, stalled>>
        /\ UNCHANGED <<job, stage, post, late, asked, answer>>
    BY DEF Elapse, Silent, Tame, Age, task, sweep, dvars, nvars
  <1>2. fresh'[s] = "old" /\ \A x \in Session \ {s} : fresh'[x] = fresh[x]
    BY <1>1, RegistryFacts DEF TypeOK
  <1>3. \A d \in Daemon : job[d] # NoSession =>
            job[d] \notin stalled' /\ fresh'[job[d]] # "old"
    <2>1. \A d \in Daemon : job[d] # NoSession => job[d] \in Session \ {s}
      BY <1>1, WorkFacts
    <2> QED
      BY <1>1, <1>2, <2>1 DEF TameParts, Tasks, Working
  <1>4. StalledWasSeen'
    <2>1. stalled \subseteq Session
      BY RegistryFacts DEF TypeOK
    <2> QED
      BY <1>1, <1>2, <2>1 DEF TameParts, StalledWasSeen
  <1> QED
    BY <1>1, <1>2, <1>3, <1>4, CleanupKept

LEMMA CleanupTame ==
    ASSUME SystemInv, TameParts, CleanupStep
    PROVE  TameParts'
  <1>1. /\ UNCHANGED <<sessions, fresh, handed, pc, sid, did>>
        /\ UNCHANGED <<job, stage, post, late, asked, answer>>
    BY DEF CleanupStep, Cleanup, CleanupScan, CleanupLock, CleanupRequest, maps, task,
           dvars, nvars
  <1>2. stalled' = stalled \/ stalled' = {s \in Session : IsStalled(s)}
    BY DEF CleanupStep, Cleanup, CleanupScan, CleanupLock, CleanupRequest
  <1>3. \A s \in stalled' : s \in stalled \/ fresh[s] = "old"
    BY <1>2 DEF IsStalled
  <1>4. \A d \in Daemon : job[d] # NoSession =>
            job[d] \notin stalled' /\ fresh'[job[d]] # "old"
    BY <1>1, <1>3 DEF TameParts, Tasks, Working
  <1>5. StalledWasSeen'
    BY <1>1, <1>3 DEF TameParts, StalledWasSeen
  <1> QED
    BY <1>1, <1>4, <1>5, CleanupKept

LEMMA SweepTame ==
    ASSUME SystemInv, TameParts, SweepStep
    PROVE  TameParts'
  <1>0. TypeOK /\ stalled \subseteq Session
    BY RegistryFacts DEF TypeOK
  <1>1. /\ UNCHANGED <<handed, pc, sid, did>>
        /\ UNCHANGED <<job, stage, post, late, asked, answer>>
    BY DEF SweepStep, Sweep, CleanupSweep, CleanupEvict, maps, task, dvars, nvars
  <1>2. \A d \in Daemon : job[d] # NoSession =>
            job[d] \in Session /\ job[d] \notin stalled /\ fresh[job[d]] # "old"
    BY WorkFacts DEF TameParts, Tasks, Working
  <1>3. ASSUME NEW s \in Session, CleanupSweep(s)
        PROVE  TameParts'
    <2>1. s \in stalled /\ stalled' = stalled \ {s}
      BY <1>3 DEF CleanupSweep
    <2>2. \/ sessions' = sessions /\ fresh' = fresh
          \/ /\ sessions' = [sessions EXCEPT ![s] = "none"]
             /\ fresh' = [fresh EXCEPT ![s] = "unseen"]
      BY <1>3 DEF CleanupSweep, maps
    <2>3. \A x \in Session : x # s => sessions'[x] = sessions[x] /\ fresh'[x] = fresh[x]
      BY <1>0, <2>2 DEF TypeOK
    <2>4. /\ sessions'[s] = sessions[s] \/ sessions'[s] = "none"
          /\ fresh'[s] = fresh[s] \/ fresh'[s] = "unseen"
      BY <1>0, <2>2 DEF TypeOK
    <2>5. StalledWasSeen'
      BY <1>0, <2>1, <2>3 DEF TameParts, StalledWasSeen
    <2>6. \A d \in Daemon : job[d] # NoSession =>
              job[d] \notin stalled' /\ fresh'[job[d]] # "old"
      BY <1>2, <2>1, <2>3
    <2> QED
      BY <1>1, <2>1, <2>3, <2>4, <2>5, <2>6, CleanupKept
  <1>4. ASSUME CleanupEvict
        PROVE  TameParts'
    <2>1. /\ stalled = {} /\ stalled' = {} /\ sessions' = sessions
          /\ fresh' = [s \in Session |-> IF ~Tracked(s) /\ fresh[s] = "old"
                                         THEN "unseen" ELSE fresh[s]]
      BY <1>4 DEF CleanupEvict
    <2>2. \A s \in Session : fresh'[s] \in {fresh[s], "unseen"}
      BY <2>1
    <2>3. StalledWasSeen'
      BY <2>1 DEF StalledWasSeen
    <2>4. \A d \in Daemon : job[d] # NoSession =>
              job[d] \notin stalled' /\ fresh'[job[d]] # "old"
      BY <1>2, <2>1, <2>2
    <2> QED
      BY <1>1, <2>1, <2>2, <2>3, <2>4, CleanupKept
  <1> QED
    BY <1>3, <1>4 DEF SweepStep, Sweep

LEMMA TameStep ==
    ASSUME TameInv, Tame, [Next]_vars
    PROVE  TameInv'
  <1>1. SystemInv /\ TameParts
    BY DEF TameInv
  <1>2. SystemInv'
    BY <1>1, SystemInvStep
  <1>3. CASE UNCHANGED vars
    <2>1. /\ UNCHANGED <<sessions, fresh, handed, pc, sid, did, stalled>>
          /\ UNCHANGED <<job, stage, post, late, asked, answer>>
      BY <1>3 DEF vars, svars, maps, task, sweep, dvars, nvars
    <2>2. \A d \in Daemon : job[d] # NoSession =>
              job[d] \notin stalled' /\ fresh'[job[d]] # "old"
      BY <1>1, <2>1 DEF TameParts, Tasks, Working
    <2>3. StalledWasSeen'
      BY <1>1, <2>1 DEF TameParts, StalledWasSeen
    <2> QED
      BY <1>1, <1>2, <2>1, <2>2, <2>3, CleanupKept DEF TameInv
  <1>4. CASE SweepStep
    BY <1>1, <1>2, <1>4, SweepTame DEF TameInv
  <1>5. ~ServerRestart
    BY DEF ServerRestart, Tame
  <1>6. CASE Running
    <2>1. ASSUME NEW t \in UserTask, NEW s \in Session, UserStart(t, s) \/ UserCancel(t, s)
          PROVE  TameParts'
      BY <1>1, <2>1, UserStartTame DEF UserCancel, Tame
    <2>2. ASSUME NEW t \in UserTask, UserStep(t)
          PROVE  TameParts'
      BY <1>1, <2>2, StartPushTame
    <2>3. ASSUME NEW t \in PollTask, NEW d \in Daemon, AskForWork(t, d)
          PROVE  TameParts'
      BY <1>1, <2>3, AskForWorkTame
    <2>4. ASSUME NEW t \in PollTask, PollStep(t) \/ Answer(t)
          PROVE  TameParts'
      <3>1. CASE PollSelect(t) /\ UNCHANGED <<dvars, nvars>>
        BY <1>1, <3>1, PollSelectTame
      <3>2. CASE PollTransition(t) /\ UNCHANGED <<dvars, nvars>>
        BY <1>1, <3>2, PollTransitionTame
      <3>3. CASE Answer(t)
        BY <1>1, <3>3, AnswerTame
      <3> QED
        BY <2>4, <3>1, <3>2, <3>3 DEF PollStep
    <2>5. ASSUME NEW d \in Daemon,
                 \/ AnswerLost(d) \/ PollTimeout(d) \/ TakeAnswer(d)
                 \/ RunTask(d) \/ FinishTask(d) \/ FailToPrepare(d) \/ AbortScan(d)
                 \/ Deliver(d) \/ Respond(d) \/ PostLost(d) \/ PostLate(d)
                 \/ RunnerRestart(d)
          PROVE  TameParts'
      <3>1. ~PollTimeout(d) /\ ~PostLate(d) /\ ~RunnerRestart(d)
        BY DEF PollTimeout, PostLate, RunnerRestart, Tame
      <3>2. CASE TakeAnswer(d)
        BY <1>1, <3>2, TakeAnswerTame
      <3>3. CASE Deliver(d)
        BY <1>1, <3>3, DeliverTame
      <3>4. CASE \/ AnswerLost(d) \/ RunTask(d) \/ FinishTask(d) \/ FailToPrepare(d)
                 \/ AbortScan(d) \/ Respond(d) \/ PostLost(d)
        BY <1>1, <3>4, RunnerTame
      <3> QED
        BY <2>5, <3>1, <3>2, <3>3, <3>4
    <2>6. late = {}
      BY <1>1 DEF TameParts, NothingCancelled
    <2>7. ASSUME NEW s \in Session, Elapse(s)
          PROVE  TameParts'
      BY <1>1, <2>7, ElapseTame
    <2>8. ASSUME CleanupStep
          PROVE  TameParts'
      BY <1>1, <2>8, CleanupTame
    <2>9. TameParts'
      BY <1>6, <2>1, <2>2, <2>3, <2>4, <2>5, <2>6, <2>7, <2>8 DEF Running
    <2> QED
      BY <1>2, <2>9 DEF TameInv
  <1> QED
    BY <1>3, <1>4, <1>5, <1>6 DEF Next

LEMMA TameInit == Init => TameInv
  <1> SUFFICES ASSUME Init PROVE TameInv
    OBVIOUS
  <1>1. SystemInv
    BY SystemInvInit
  <1>2. /\ sessions = [s \in Session |-> "none"] /\ pc = [t \in Task |-> "idle"]
        /\ stalled = {}
    BY DEF Init, SInit
  <1>3. /\ job = [d \in Daemon |-> NoSession] /\ stage = [d \in Daemon |-> "idle"]
        /\ post = [d \in Daemon |-> NoPost] /\ late = {}
        /\ asked = [d \in Daemon |-> NoTask] /\ answer = [d \in Daemon |-> NoAnswer]
    BY DEF Init, RunnerInit
  <1>4. /\ PollsAreAsked /\ NothingCancelled /\ Choosing /\ Chosen /\ Replying
        /\ PushedIsPending /\ StalledWasSeen
    BY <1>2, <1>3 DEF PollsAreAsked, Polling, NothingCancelled, Choosing, Chosen,
                      Replying, PushedIsPending, StalledWasSeen
  <1>5. AskedIsUnanswered /\ Answered /\ Tasks
    BY <1>3 DEF AskedIsUnanswered, Answered, Tasks, Resting
  <1>6. PendingIsNew /\ OneActive
    BY <1>2, <1>3 DEF PendingIsNew, OneActive, Active, Reported
  <1> QED
    BY <1>1, <1>4, <1>5, <1>6 DEF TameInv, TameParts

(* The system, spared what Tame excludes, keeps the invariant above. *)
THEOREM TameInvariance ==
    ASSUME Tame
    PROVE  Spec => []TameInv
  <1>1. TameInv /\ [Next]_vars => TameInv'
    BY TameStep
  <1> QED
    BY <1>1, TameInit, PTL DEF Spec

(***************************************************************************)
(* One session of a daemon is active at a time: the check, the selection   *)
(* and the transition of get_pending_work need no common lock, since the   *)
(* daemon asks one question at a time and update_session finds no other    *)
(* active session to put back.                                             *)
(***************************************************************************)
THEOREM OneActiveSession ==
    ASSUME Tame
    PROVE  Spec => []OneActive
  <1>1. TameInv => OneActive
    BY DEF TameInv, TameParts
  <1> QED
    BY <1>1, TameInvariance, PTL

-----------------------------------------------------------------------------
(* Polls that time out and daemons that restart: several sessions of a     *)
(* daemon may be active then, and still none is scanned twice              *)

(***************************************************************************)
(* An update that is applied late, a session swept while it is scanned, a  *)
(* server that has forgotten its sessions and a cancellation that races    *)
(* with the dispatch each lead to a second scan.                           *)
(***************************************************************************)
Mild ==
    /\ Faults \cap {"post_late", "slow_scan", "server_restart"} = {}
    /\ ~MayCancel

(* A session of d that d may be given. *)
Fits(d, s, phases) == Owner[s] = d /\ scans[s] = 0 /\ sessions[s] \in phases

(* The daemon waits for a handler that may bring it work, or for the work. *)
Dispatching(d) ==
    \/ /\ asked[d] # NoTask
       /\ pc[asked[d]] \in {"poll_select", "poll_transition"} \/ sid[asked[d]] # NoSession
    \/ answer[d] # NoAnswer /\ answer[d].work # NoSession

(* No session of d that has been scanned is tracked, but the one it has. *)
Settled(d) ==
    \A s \in Session : Owner[s] = d /\ scans[s] # 0 /\ Tracked(s) => s = job[d]

(* The handler a daemon waits for.  Those it has given up go on as well,   *)
(* but nobody reads their answers.                                         *)
AskAt(d) ==
    asked[d] # NoTask =>
        LET t == asked[d]
        IN  /\ did[t] = d /\ pc[t] \in Polling /\ answer[d] = NoAnswer
            /\ pc[t] = "poll_transition" => Fits(d, sid[t], {"Pending", "Starting"})
            /\ pc[t] = "poll_reply" /\ sid[t] # NoSession => Fits(d, sid[t], {"Starting"})

AnswerAt(d) ==
    answer[d] # NoAnswer /\ answer[d].work # NoSession =>
        Fits(d, answer[d].work, {"Starting"})

QuietAt(d) ==
    /\ Dispatching(d) => Free(d)
    /\ Dispatching(d) \/ ~Free(d) => Settled(d)

(* The life of a task, and how often its session was scanned. *)
JobAt(d) ==
    /\ job[d] = NoSession => stage[d] = "idle" /\ post[d] = NoPost
    /\ job[d] # NoSession =>
         /\ stage[d] # "idle" /\ Owner[job[d]] = d
         /\ job[d] \notin stalled /\ fresh[job[d]] # "old"
         /\ stage[d] = "preparing" =>
                sessions[job[d]] = "Starting" /\ scans[job[d]] = 0 /\ post[d] = NoPost
         /\ stage[d] = "scanning" =>
                /\ sessions[job[d]] \in Active /\ scans[job[d]] = 1
                /\ post[d] \in Updates =>
                       post[d].session = job[d] /\ post[d].phase \in Reported
         /\ stage[d] = "ending" =>
                /\ scans[job[d]] = 1
                /\ \/ /\ post[d] \in Updates /\ sessions[job[d]] \in Active
                      /\ post[d].session = job[d] /\ post[d].phase = "Ended"
                   \/ post[d] = Acked /\ sessions[job[d]] = "none"

OnceAt(d) == AskAt(d) /\ AnswerAt(d) /\ QuietAt(d) /\ JobAt(d)

(* A session that has been scanned does not wait again, and only one that  *)
(* has been scanned has reported and can be found stalled.                 *)
OnceRegistry ==
    /\ NothingCancelled
    /\ PushedIsPending
    /\ \A s \in Session : scans[s] # 0 => sessions[s] # "Pending" /\ s \in handed
    /\ \A s \in Session : scans[s] = 0 => fresh[s] = "unseen" /\ s \notin stalled
    /\ ScannedOnce

OnceParts == OnceRegistry /\ \A d \in Daemon : OnceAt(d)

OnceInv == SystemInv /\ OnceParts

LEMMA WireFacts ==
    ASSUME SystemInv
    PROVE  /\ job \in [Daemon -> Session \cup {NoSession}]
           /\ stage \in [Daemon -> {"idle", "preparing", "scanning", "ending"}]
           /\ post \in [Daemon -> Updates \cup {NoPost, Acked}]
           /\ scans \in [Session -> {0, 1, 2}]
           /\ asked \in [Daemon -> Task \cup {NoTask}]
           /\ answer \in [Daemon -> Answers \cup {NoAnswer}]
           /\ \A d \in Daemon : stage[d] # "idle" => job[d] \in Session
  BY DEF SystemInv, WireTypeOK, RunnerTypeOK, TasksHaveSessions

(* The step leaves daemon e and the handler it waits for where they are. *)
SameAt(e) ==
    /\ asked'[e] = asked[e] /\ answer'[e] = answer[e]
    /\ job'[e] = job[e] /\ stage'[e] = stage[e] /\ post'[e] = post[e]
    /\ asked[e] # NoTask =>
           /\ pc'[asked[e]] = pc[asked[e]] /\ sid'[asked[e]] = sid[asked[e]]
           /\ did'[asked[e]] = did[asked[e]]

(* The step spares the daemon's session, starts sessions that have not     *)
(* been scanned at most, and brings none back that has.                    *)
SparedAt(e) ==
    \A s \in Session : Owner[s] = e =>
        /\ scans'[s] = scans[s]
        /\ scans[s] = 0 /\ sessions[s] \in {"Pending", "Starting"} =>
               sessions'[s] \in {sessions[s], "Starting"}
        /\ scans[s] # 0 /\ sessions'[s] # "none" => sessions[s] # "none"
        /\ s = job[e] => /\ sessions'[s] = sessions[s]
                         /\ s \notin stalled' /\ fresh'[s] # "old"

(* The task of e goes on, and so does what e waits for, or ends. *)
LEMMA MovedOnce ==
    ASSUME SystemInv, NEW e \in Daemon, OnceAt(e), SparedAt(e),
           job'[e] = job[e] /\ stage'[e] = stage[e] /\ post'[e] = post[e],
           AskAt(e)', AnswerAt(e)', Dispatching(e)' => Dispatching(e)
    PROVE  OnceAt(e)'
  <1>1. QuietAt(e)'
    <2>1. Free(e)' <=> Free(e)
      BY DEF Free
    <2>2. Settled(e) => Settled(e)'
      BY DEF Settled, SparedAt, Tracked
    <2> QED
      BY <2>1, <2>2 DEF OnceAt, QuietAt
  <1>2. JobAt(e)'
    <2>1. CASE job[e] = NoSession
      BY <2>1 DEF OnceAt, JobAt
    <2>2. CASE job[e] # NoSession
      <3>1. job[e] \in Session /\ Owner[job[e]] = e
        BY <2>2, WorkFacts DEF OnceAt, JobAt
      <3>2. /\ sessions'[job[e]] = sessions[job[e]] /\ scans'[job[e]] = scans[job[e]]
            /\ job[e] \notin stalled' /\ fresh'[job[e]] # "old"
        BY <3>1 DEF SparedAt
      <3> QED
        BY <2>2, <3>2 DEF OnceAt, JobAt
    <2> QED
      BY <2>1, <2>2
  <1> QED
    BY <1>1, <1>2 DEF OnceAt

LEMMA OnceKept ==
    ASSUME SystemInv, NEW e \in Daemon, OnceAt(e), SameAt(e), SparedAt(e)
    PROVE  OnceAt(e)'
  <1>0. TypeOK /\ LocalsSet
    BY RegistryFacts
  <1>1. ASSUME NEW s \in Session, Fits(e, s, {"Starting"})
        PROVE  Fits(e, s, {"Starting"})'
    BY <1>1 DEF Fits, SparedAt
  <1>2. ASSUME NEW s \in Session, Fits(e, s, {"Pending", "Starting"})
        PROVE  Fits(e, s, {"Pending", "Starting"})'
    BY <1>2 DEF Fits, SparedAt
  <1>3. AskAt(e)'
    <2> SUFFICES ASSUME asked[e] # NoTask
                 PROVE  AskAt(e)'
      BY DEF AskAt, SameAt
    <2> DEFINE t == asked[e]
    <2>1. t \in Task
      BY WireFacts
    <2>2. pc[t] = "poll_transition" => sid[t] \in Session
      BY <1>0, <2>1 DEF LocalsSet
    <2>3. sid[t] \in Session \cup {NoSession}
      BY <1>0, <2>1 DEF TypeOK
    <2>4. pc[t] = "poll_transition" => Fits(e, sid[t], {"Pending", "Starting"})'
      BY <1>2, <2>2 DEF OnceAt, AskAt, SameAt
    <2>5. pc[t] = "poll_reply" /\ sid[t] # NoSession => Fits(e, sid[t], {"Starting"})'
      BY <1>1, <2>3 DEF OnceAt, AskAt, SameAt
    <2>6. asked'[e] = t /\ pc'[t] = pc[t] /\ sid'[t] = sid[t] /\ did'[t] = did[t]
      BY DEF SameAt
    <2> QED
      BY <2>4, <2>5, <2>6 DEF OnceAt, AskAt, SameAt, Fits
  <1>4. AnswerAt(e)'
    <2>1. answer[e] # NoAnswer /\ answer[e].work # NoSession => answer[e].work \in Session
      BY WorkFacts
    <2> QED
      BY <1>1, <2>1 DEF OnceAt, AnswerAt, SameAt, Fits
  <1>5. Dispatching(e)' => Dispatching(e)
    BY DEF Dispatching, SameAt
  <1> QED
    BY <1>3, <1>4, <1>5, MovedOnce DEF SameAt

(* A step of the registry that changes no scan and no daemon. *)
LEMMA RegistryOnce ==
    ASSUME SystemInv, OnceParts, OnceRegistry',
           \A e \in Daemon : OnceAt(e)' \/ (SameAt(e) /\ SparedAt(e))
    PROVE  OnceParts'
  BY OnceKept DEF OnceParts

(* A step of daemon d that leaves the registry alone. *)
LEMMA DaemonOnce ==
    ASSUME SystemInv, OnceParts, NEW d \in Daemon, UNCHANGED <<svars, late>>,
           \A e \in Daemon \ {d} :
               /\ asked'[e] = asked[e] /\ answer'[e] = answer[e]
               /\ job'[e] = job[e] /\ stage'[e] = stage[e] /\ post'[e] = post[e],
           \/ scans' = scans
           \/ /\ job[d] # NoSession /\ scans'[job[d]] = 1
              /\ sessions[job[d]] # "Pending"
              /\ \A s \in Session \ {job[d]} : scans'[s] = scans[s],
           OnceAt(d)'
    PROVE  OnceParts'
  <1>1. UNCHANGED <<sessions, fresh, handed, pc, sid, did, stalled>>
    BY DEF svars, maps, task, sweep
  <1>2. job[d] # NoSession => job[d] \in Session /\ job[d] \in handed /\ Owner[job[d]] = d
    BY WorkFacts DEF OnceParts, OnceAt, JobAt
  <1>3. \A s \in Session : scans'[s] # scans[s] =>
            s \in handed /\ sessions[s] # "Pending" /\ Owner[s] = d /\ scans'[s] = 1
    BY <1>2
  <1>4. NothingCancelled' /\ PushedIsPending'
    BY <1>1 DEF OnceParts, OnceRegistry, NothingCancelled, PushedIsPending
  <1>5. OnceRegistry'
    BY <1>1, <1>3, <1>4 DEF OnceParts, OnceRegistry, ScannedOnce
  <1>6. ASSUME NEW e \in Daemon, e # d
        PROVE  SameAt(e) /\ SparedAt(e)
    <2>1. SameAt(e)
      BY <1>1, <1>6 DEF SameAt
    <2>2. JobAt(e)
      BY DEF OnceParts, OnceAt
    <2>3. ASSUME NEW s \in Session, s = job[e]
          PROVE  s \notin stalled' /\ fresh'[s] # "old"
      <3>1. s # NoSession
        BY <2>3, NullAssumption
      <3> QED
        BY <1>1, <2>2, <2>3, <3>1 DEF JobAt
    <2>4. SparedAt(e)
      BY <1>1, <1>3, <1>6, <2>3 DEF SparedAt
    <2> QED
      BY <2>1, <2>4
  <1> QED
    BY <1>5, <1>6, RegistryOnce


(* What the handler of a daemon's request and the daemon's session are. *)
LEMMA AskedFacts ==
    ASSUME SystemInv, OnceParts, NEW e \in Daemon
    PROVE  /\ asked[e] # NoTask =>
                  asked[e] \in Task /\ pc[asked[e]] \in Polling /\ did[asked[e]] = e
           /\ job[e] # NoSession => /\ sessions[job[e]] # "Pending"
                                    /\ job[e] \notin stalled /\ fresh[job[e]] # "old"
  <1>1. AskAt(e) /\ JobAt(e)
    BY DEF OnceParts, OnceAt
  <1>2. stage[e] \in {"idle", "preparing", "scanning", "ending"}
    BY WireFacts
  <1>3. job[e] # NoSession => sessions[job[e]] # "Pending"
    BY <1>1, <1>2 DEF JobAt, Active, Reported
  <1> QED
    BY <1>1, <1>3, WireFacts DEF AskAt, JobAt

LEMMA UserStartOnce ==
    ASSUME SystemInv, OnceParts, NEW t \in UserTask, NEW s \in Session, UserStart(t, s)
    PROVE  OnceParts'
  <1>0. t \in Task
    BY DEF UserTask
  <1>1. /\ pc[t] = "idle" /\ s \notin issued
        /\ sessions' = [sessions EXCEPT ![s] = "Pending"]
        /\ sid' = [sid EXCEPT ![t] = s]
        /\ pc' = [pc EXCEPT ![t] = "start_push"]
        /\ UNCHANGED <<fresh, handed, did, stalled>>
        /\ UNCHANGED <<job, stage, post, late, scans, asked, answer>>
    BY DEF UserStart, StartInsert, Goto, sweep, dvars, nvars
  <1>2. TypeOK /\ LocalsSet /\ s \notin handed /\ sessions[s] = "none"
    BY <1>1, RegistryFacts
  <1>3. /\ sessions'[s] = "Pending"
        /\ \A x \in Session \ {s} : sessions'[x] = sessions[x]
        /\ pc'[t] = "start_push" /\ sid'[t] = s
        /\ \A x \in Task \ {t} : pc'[x] = pc[x] /\ sid'[x] = sid[x]
    BY <1>0, <1>1, <1>2 DEF TypeOK
  <1>4. \A x \in Task : sid[x] # s
    BY <1>1, RegistryFacts, NullAssumption
  <1>5. scans[s] = 0
    BY <1>2 DEF OnceParts, OnceRegistry
  <1>6. OnceRegistry'
    <2>1. \A x \in Task : pc[x] = "start_push" => sid[x] \in Session \ {s}
      BY <1>2, <1>4 DEF LocalsSet
    <2>2. NothingCancelled' /\ PushedIsPending'
      BY <1>1, <1>3, <2>1 DEF OnceParts, OnceRegistry, NothingCancelled, PushedIsPending
    <2> QED
      BY <1>1, <1>3, <1>5, <2>2 DEF OnceParts, OnceRegistry, ScannedOnce
  <1>7. ASSUME NEW e \in Daemon
        PROVE  SameAt(e) /\ SparedAt(e)
    <2>1. SameAt(e)
      BY <1>1, <1>3, AskedFacts DEF SameAt, Polling
    <2>2. ASSUME NEW x \in Session, x = job[e]
          PROVE  x # s /\ x \notin stalled' /\ fresh'[x] # "old"
      <3>1. x # NoSession
        BY NullAssumption
      <3> QED
        BY <1>1, <1>2, <2>2, <3>1, AskedFacts, WorkFacts
    <2>3. SparedAt(e)
      BY <1>1, <1>2, <1>3, <1>5, <2>2 DEF SparedAt
    <2> QED
      BY <2>1, <2>3
  <1> QED
    BY <1>6, <1>7, RegistryOnce

(***************************************************************************)
(* A handler moves on, and starts a session that nobody is about to push   *)
(* at most.  A daemon that waits for this handler is told what fits.       *)
(***************************************************************************)
LEMMA HandlerOnce ==
    ASSUME SystemInv, OnceParts, NEW t \in Task, handed \subseteq handed',
           UNCHANGED <<fresh, stalled, job, stage, post, late, scans>>,
           \A x \in Task \ {t} : pc'[x] = pc[x] /\ sid'[x] = sid[x] /\ did'[x] = did[x],
           pc'[t] \in {"idle"} \cup Polling,
           \A s \in Session :
               \/ sessions'[s] = sessions[s]
               \/ /\ sessions[s] = "Pending" /\ sessions'[s] = "Starting"
                  /\ \A x \in Task \ {t} : pc[x] = "start_push" => sid[x] # s,
           \A e \in Daemon :
               \/ asked[e] # t /\ asked'[e] = asked[e] /\ answer'[e] = answer[e]
               \/ AskAt(e)' /\ AnswerAt(e)' /\ (Dispatching(e)' => Dispatching(e))
               \/ OnceAt(e)'
    PROVE  OnceParts'
  <1>1. LocalsSet
    BY RegistryFacts
  <1>2. OnceRegistry'
    <2>1. ASSUME NEW x \in Task, pc'[x] = "start_push"
          PROVE  sessions'[sid'[x]] = "Pending"
      <3>1. x # t /\ pc[x] = "start_push" /\ sid'[x] = sid[x]
        BY <2>1 DEF Polling
      <3>2. sid[x] \in Session /\ sessions[sid[x]] = "Pending"
        BY <1>1, <3>1 DEF OnceParts, OnceRegistry, PushedIsPending, LocalsSet
      <3> QED
        BY <3>1, <3>2
    <2>2. NothingCancelled'
      BY DEF OnceParts, OnceRegistry, NothingCancelled, Polling
    <2>3. PushedIsPending'
      BY <2>1 DEF PushedIsPending
    <2> QED
      BY <2>2, <2>3 DEF OnceParts, OnceRegistry, ScannedOnce
  <1>3. ASSUME NEW e \in Daemon
        PROVE  OnceAt(e)' \/ (SameAt(e) /\ SparedAt(e))
    <2>1. ASSUME NEW s \in Session, s = job[e]
          PROVE  sessions[s] # "Pending" /\ s \notin stalled' /\ fresh'[s] # "old"
      <3>1. s # NoSession
        BY NullAssumption
      <3> QED
        BY <2>1, <3>1, AskedFacts
    <2>2. SparedAt(e)
      BY <2>1 DEF SparedAt, OnceParts, OnceRegistry
    <2>3. CASE asked[e] # t /\ asked'[e] = asked[e] /\ answer'[e] = answer[e]
      BY <2>2, <2>3, AskedFacts DEF SameAt
    <2>4. CASE AskAt(e)' /\ AnswerAt(e)' /\ (Dispatching(e)' => Dispatching(e))
      BY <2>2, <2>4, MovedOnce DEF OnceParts
    <2> QED
      BY <2>3, <2>4
  <1> QED
    BY <1>2, <1>3, RegistryOnce

LEMMA StartPushOnce ==
    ASSUME SystemInv, OnceParts, NEW t \in UserTask, UserStep(t)
    PROVE  OnceParts'
  <1>0. t \in Task
    BY DEF UserTask
  <1>1. StartPush(t) /\ UNCHANGED <<dvars, nvars>>
    BY <1>0 DEF UserStep, CancelPending, CancelFlag, OnceParts, OnceRegistry,
                NothingCancelled
  <1>2. /\ pc[t] = "start_push"
        /\ pc' = [pc EXCEPT ![t] = "idle"]
        /\ sid' = [sid EXCEPT ![t] = NoSession]
        /\ did' = [did EXCEPT ![t] = NoDaemon]
        /\ UNCHANGED <<sessions, fresh, handed, stalled>>
        /\ UNCHANGED <<job, stage, post, late, scans, asked, answer>>
    BY <1>1 DEF StartPush, Return, sweep, dvars, nvars
  <1>3. /\ pc'[t] = "idle"
        /\ \A x \in Task \ {t} : pc'[x] = pc[x] /\ sid'[x] = sid[x] /\ did'[x] = did[x]
    BY <1>0, <1>2, RegistryFacts DEF TypeOK
  <1>4. \A e \in Daemon : asked[e] # t
    BY <1>0, <1>2, AskedFacts, NoneAssumption DEF Polling
  <1> QED
    BY <1>0, <1>2, <1>3, <1>4, HandlerOnce

(* No active session: the daemon is free, and none of its sessions that    *)
(* were scanned is left.                                                   *)
LEMMA InactiveOnce ==
    ASSUME SystemInv, OnceParts, NEW d \in Daemon, ~HasActiveSession(d)
    PROVE  Free(d) /\ Settled(d)
  <1>1. ASSUME NEW s \in Session, Owner[s] = d
        PROVE  sessions[s] \notin Active
    <2>1. IInv /\ \A x \in Task : pc[x] = "start_push" => sessions[sid[x]] = "Pending"
      BY DEF SystemInv, OnceParts, OnceRegistry, PushedIsPending
    <2> QED
      BY <1>1, <2>1, ActiveIsQueued DEF HasActiveSession
  <1>2. Free(d)
    <2>1. JobAt(d) /\ stage[d] \in {"idle", "preparing", "scanning", "ending"}
      BY WireFacts DEF OnceParts, OnceAt
    <2>2. job[d] # NoSession => sessions[job[d]] \notin Active
      BY <1>1, <2>1, WorkFacts DEF JobAt
    <2> QED
      BY <2>1, <2>2 DEF JobAt, Free, Active
  <1>3. Settled(d)
    <2>1. ASSUME NEW s \in Session, Owner[s] = d, scans[s] # 0
          PROVE  sessions[s] = "none"
      <3>1. sessions[s] # "Pending" /\ sessions[s] \notin Active
        BY <1>1, <2>1 DEF OnceParts, OnceRegistry
      <3>2. sessions[s] \in {"none", "Pending"} \cup Active
        BY RegistryFacts DEF TypeOK
      <3> QED
        BY <3>1, <3>2
    <2> QED
      BY <2>1 DEF Settled, Tracked
  <1> QED
    BY <1>2, <1>3

LEMMA AskForWorkOnce ==
    ASSUME SystemInv, OnceParts, NEW t \in PollTask, NEW d \in Daemon, AskForWork(t, d)
    PROVE  OnceParts'
  <1>0. t \in Task
    BY PollTaskAssumption
  <1>1. /\ asked[d] = NoTask /\ answer[d] = NoAnswer
        /\ pc[t] = "idle"
        /\ did' = [did EXCEPT ![t] = d]
        /\ pc' = [pc EXCEPT ![t] = IF HasActiveSession(d) THEN "poll_reply"
                                   ELSE "poll_select"]
        /\ asked' = [asked EXCEPT ![d] = t]
        /\ UNCHANGED <<sessions, fresh, handed, stalled, sid>>
        /\ UNCHANGED <<job, stage, post, late, scans, answer>>
    BY DEF AskForWork, PollCheckActive, Goto, maps, sweep, dvars
  <1>2. /\ did'[t] = d /\ asked'[d] = t
        /\ sid'[t] = NoSession
        /\ pc'[t] \in {"poll_reply", "poll_select"}
        /\ pc'[t] = "poll_select" => ~HasActiveSession(d)
        /\ \A x \in Task \ {t} : pc'[x] = pc[x] /\ sid'[x] = sid[x] /\ did'[x] = did[x]
        /\ \A e \in Daemon \ {d} : asked'[e] = asked[e]
    BY <1>0, <1>1, RegistryFacts DEF TypeOK, LocalsSet
  <1>3. \A e \in Daemon : asked[e] # t
    BY <1>0, <1>1, AskedFacts, NoneAssumption DEF Polling
  <1>4. OnceAt(d)'
    <2>1. AskAt(d)' /\ AnswerAt(d)'
      BY <1>1, <1>2 DEF AskAt, AnswerAt, Polling
    <2>2. Dispatching(d)' => Free(d) /\ Settled(d)
      BY <1>1, <1>2, InactiveOnce DEF Dispatching
    <2>3. QuietAt(d) /\ JobAt(d)
      BY DEF OnceParts, OnceAt
    <2>4. (Free(d)' <=> Free(d)) /\ (Settled(d)' <=> Settled(d)) /\ (JobAt(d)' <=> JobAt(d))
      BY <1>1 DEF Free, Settled, Tracked, JobAt
    <2> QED
      BY <2>1, <2>2, <2>3, <2>4 DEF OnceAt, QuietAt
  <1>5. ASSUME NEW e \in Daemon
        PROVE  \/ asked[e] # t /\ asked'[e] = asked[e] /\ answer'[e] = answer[e]
               \/ OnceAt(e)'
    BY <1>1, <1>2, <1>3, <1>4
  <1> QED
    BY <1>0, <1>1, <1>2, <1>5, HandlerOnce DEF Polling

LEMMA PollSelectOnce ==
    ASSUME SystemInv, OnceParts, NEW t \in PollTask, PollSelect(t),
           UNCHANGED <<dvars, nvars>>
    PROVE  OnceParts'
  <1>0. t \in Task
    BY PollTaskAssumption
  <1>1. /\ pc[t] = "poll_select"
        /\ UNCHANGED <<sessions, fresh, handed, stalled, did>>
        /\ UNCHANGED <<job, stage, post, late, scans, asked, answer>>
    BY DEF PollSelect, maps, sweep, dvars, nvars
  <1>2. TypeOK /\ LocalsSet /\ QueueOwned
    BY RegistryFacts
  <1>3. did[t] \in Daemon /\ sid[t] = NoSession
    BY <1>0, <1>1, <1>2 DEF LocalsSet
  <1>4. \/ /\ pc' = [pc EXCEPT ![t] = "poll_reply"]
           /\ sid' = sid
        \/ /\ pc' = [pc EXCEPT ![t] = "poll_transition"]
           /\ \E i \in 1 .. Len(queue[did[t]]) :
                /\ sessions[queue[did[t]][i]] = "Pending"
                /\ sid' = [sid EXCEPT ![t] = queue[did[t]][i]]
    BY DEF PollSelect, IsFirstPending, Goto
  <1>5. \/ pc'[t] = "poll_reply" /\ sid'[t] = NoSession
        \/ /\ pc'[t] = "poll_transition"
           /\ sid'[t] \in Session
           /\ sessions[sid'[t]] = "Pending" /\ Owner[sid'[t]] = did[t]
    <2>1. ASSUME NEW i \in 1 .. Len(queue[did[t]])
          PROVE  queue[did[t]][i] \in Session /\ Owner[queue[did[t]][i]] = did[t]
      <3>1. queue[did[t]] \in Seq(Session)
        BY <1>2, <1>3 DEF TypeOK
      <3>2. queue[did[t]][i] \in Queued(did[t]) /\ queue[did[t]][i] \in Session
        BY <3>1 DEF Queued, Range
      <3> QED
        BY <1>2, <1>3, <3>2 DEF QueueOwned
    <2> QED
      BY <1>0, <1>2, <1>3, <1>4, <2>1 DEF TypeOK
  <1>6. \A x \in Task \ {t} : pc'[x] = pc[x] /\ sid'[x] = sid[x] /\ did'[x] = did[x]
    BY <1>0, <1>1, <1>2, <1>4 DEF TypeOK
  <1>7. ASSUME NEW e \in Daemon, asked[e] = t
        PROVE  AskAt(e)' /\ AnswerAt(e)' /\ (Dispatching(e)' => Dispatching(e))
    <2>1. asked[e] # NoTask
      BY <1>0, <1>7, NoneAssumption
    <2>2. did[t] = e /\ answer[e] = NoAnswer
      BY <1>7, <2>1 DEF OnceParts, OnceAt, AskAt
    <2>3. pc'[t] = "poll_transition" =>
              Owner[sid'[t]] = e /\ scans[sid'[t]] = 0 /\ sessions[sid'[t]] = "Pending"
      BY <1>5, <2>2 DEF OnceParts, OnceRegistry
    <2>4. AskAt(e)'
      BY <1>1, <1>5, <1>7, <2>2, <2>3 DEF AskAt, Polling, Fits
    <2> QED
      BY <1>1, <1>7, <2>1, <2>2, <2>4 DEF AnswerAt, Dispatching
  <1> QED
    BY <1>0, <1>1, <1>5, <1>6, <1>7, HandlerOnce DEF Polling

LEMMA PollTransitionOnce ==
    ASSUME SystemInv, OnceParts, NEW t \in PollTask, PollTransition(t),
           UNCHANGED <<dvars, nvars>>
    PROVE  OnceParts'
  <1>0. t \in Task
    BY PollTaskAssumption
  <1>1. /\ TypeOK /\ LocalsSet
        /\ pc[t] = "poll_transition"
        /\ UNCHANGED <<fresh, handed, stalled, sid, did>>
        /\ UNCHANGED <<job, stage, post, late, scans, asked, answer>>
        /\ pc' = [pc EXCEPT ![t] = "poll_reply"]
    BY RegistryFacts DEF PollTransition, Goto, sweep, dvars, nvars
  <1>2. PICK s \in Session : s = sid[t]
    BY <1>0, <1>1 DEF LocalsSet
  <1>3. /\ sessions'[s] = IF sessions[s] = "Pending" THEN "Starting" ELSE sessions[s]
        /\ \A x \in Session \ {s} : sessions'[x] = sessions[x]
        /\ pc'[t] = "poll_reply"
        /\ \A x \in Task \ {t} : pc'[x] = pc[x]
    BY <1>0, <1>1, <1>2 DEF TypeOK, PollTransition
  <1>4. \A x \in Task \ {t} : pc[x] = "start_push" => sid[x] # s
    BY <1>0, <1>1, <1>2, RegistryFacts DEF StartIsPrivate
  <1>5. ASSUME NEW e \in Daemon, asked[e] = t
        PROVE  AskAt(e)' /\ AnswerAt(e)' /\ (Dispatching(e)' => Dispatching(e))
    <2>1. asked[e] # NoTask
      BY <1>0, <1>5, NoneAssumption
    <2>2. /\ did[t] = e /\ answer[e] = NoAnswer
          /\ Owner[s] = e /\ scans[s] = 0 /\ sessions[s] \in {"Pending", "Starting"}
      BY <1>1, <1>2, <1>5, <2>1 DEF OnceParts, OnceAt, AskAt, Fits
    <2>3. sessions'[s] = "Starting"
      BY <1>3, <2>2
    <2>4. AskAt(e)'
      BY <1>1, <1>2, <1>3, <1>5, <2>2, <2>3 DEF AskAt, Polling, Fits
    <2> QED
      BY <1>1, <1>5, <2>1, <2>2, <2>4 DEF AnswerAt, Dispatching
  <1> QED
    BY <1>0, <1>1, <1>3, <1>4, <1>5, HandlerOnce DEF Polling

(* The answer of a handler that the daemon has given up reaches nobody. *)
LEMMA AnswerOnce ==
    ASSUME SystemInv, OnceParts, NEW t \in PollTask, Answer(t)
    PROVE  OnceParts'
  <1>0. t \in Task
    BY PollTaskAssumption
  <1>1. /\ TypeOK /\ LocalsSet
        /\ answer \in [Daemon -> Answers \cup {NoAnswer}]
        /\ asked \in [Daemon -> Task \cup {NoTask}]
    BY RegistryFacts
  <1>2. /\ pc[t] = "poll_reply"
        /\ handed \subseteq handed'
        /\ pc' = [pc EXCEPT ![t] = "idle"]
        /\ sid' = [sid EXCEPT ![t] = NoSession]
        /\ did' = [did EXCEPT ![t] = NoDaemon]
        /\ UNCHANGED <<sessions, fresh, stalled>>
        /\ UNCHANGED <<job, stage, post, late, scans>>
    BY DEF Answer, PollReply, Return, sweep, dvars
  <1>3. PICK d \in Daemon : d = did[t]
    BY <1>0, <1>1, <1>2 DEF LocalsSet
  <1>4. /\ pc'[t] = "idle"
        /\ \A x \in Task \ {t} : pc'[x] = pc[x] /\ sid'[x] = sid[x] /\ did'[x] = did[x]
    BY <1>0, <1>1, <1>2 DEF TypeOK
  <1>5. \A e \in Daemon \ {d} : asked[e] # t
    BY <1>0, <1>3, AskedFacts, NoneAssumption
  <1>6. CASE asked[d] = t
    <2> DEFINE new == [work |-> sid[t], flagged |-> cancelFlag[d]]
    <2>1. /\ asked' = [asked EXCEPT ![d] = NoTask]
          /\ answer' = [answer EXCEPT ![d] = new]
      BY <1>3, <1>6 DEF Answer
    <2>2. /\ answer'[d].work = sid[t] /\ asked'[d] = NoTask
          /\ \A e \in Daemon \ {d} : answer'[e] = answer[e] /\ asked'[e] = asked[e]
      BY <1>1, <2>1
    <2> HIDE DEF new
    <2>3. asked[d] # NoTask
      BY <1>0, <1>6, NoneAssumption
    <2>4. sid[t] # NoSession => Fits(d, sid[t], {"Starting"})
      BY <1>2, <1>6, <2>3 DEF OnceParts, OnceAt, AskAt
    <2>5. AskAt(d)' /\ AnswerAt(d)'
      BY <1>2, <2>2, <2>4 DEF AskAt, AnswerAt, Fits
    <2>6. Dispatching(d)' => Dispatching(d)
      BY <1>6, <2>2, <2>3 DEF Dispatching
    <2> QED
      BY <1>0, <1>2, <1>4, <1>5, <2>2, <2>5, <2>6, HandlerOnce
  <1>7. CASE asked[d] # t
    <2>1. UNCHANGED nvars
      BY <1>3, <1>7 DEF Answer
    <2> QED
      BY <1>0, <1>2, <1>4, <1>5, <1>7, <2>1, HandlerOnce DEF nvars
  <1> QED
    BY <1>6, <1>7

(* What the daemon waits for comes to nothing. *)
LEMMA WaitOnce ==
    ASSUME SystemInv, OnceParts, NEW d \in Daemon, AnswerLost(d) \/ PollTimeout(d)
    PROVE  OnceParts'
  <1>1. /\ UNCHANGED <<svars, dvars>>
        /\ \/ asked' = asked /\ answer' = [answer EXCEPT ![d] = NoAnswer]
           \/ answer' = answer /\ asked' = [asked EXCEPT ![d] = NoTask]
    BY DEF AnswerLost, PollTimeout
  <1>2. UNCHANGED <<sessions, fresh, pc, sid, did, stalled, job, stage, post, late, scans>>
    BY <1>1 DEF svars, maps, task, sweep, dvars
  <1>3. /\ \/ asked'[d] = asked[d] /\ answer'[d] = NoAnswer
           \/ answer'[d] = answer[d] /\ asked'[d] = NoTask
        /\ \A e \in Daemon \ {d} : asked'[e] = asked[e] /\ answer'[e] = answer[e]
    BY <1>1, WireFacts
  <1>4. OnceAt(d)
    BY DEF OnceParts
  <1>5. AskAt(d)' /\ AnswerAt(d)'
    BY <1>2, <1>3, <1>4 DEF OnceAt, AskAt, AnswerAt, Fits
  <1>6. Dispatching(d)' => Dispatching(d)
    BY <1>2, <1>3 DEF Dispatching
  <1>7. SparedAt(d)
    <2>1. ASSUME NEW s \in Session, s = job[d]
          PROVE  s \notin stalled /\ fresh[s] # "old"
      <3>1. s # NoSession
        BY NullAssumption
      <3> QED
        BY <2>1, <3>1, AskedFacts
    <2> QED
      BY <1>2, <2>1 DEF SparedAt
  <1>8. OnceAt(d)'
    BY <1>2, <1>4, <1>5, <1>6, <1>7, MovedOnce
  <1> QED
    BY <1>1, <1>2, <1>3, <1>8, DaemonOnce

(* Work is taken by a daemon without a task, and dropped by one whose task *)
(* the server has seen the end of.                                         *)
LEMMA TakeAnswerOnce ==
    ASSUME SystemInv, OnceParts, NEW d \in Daemon, TakeAnswer(d)
    PROVE  OnceParts'
  <1>1. /\ UNCHANGED <<svars, late, asked, post, scans>>
        /\ answer[d] # NoAnswer
        /\ answer' = [answer EXCEPT ![d] = NoAnswer]
    BY DEF TakeAnswer, ReceiveAnswer
  <1>2. UNCHANGED <<sessions, fresh, pc, sid, did, stalled>>
    BY <1>1 DEF svars, maps, task, sweep
  <1>3. answer'[d] = NoAnswer /\ \A e \in Daemon \ {d} : answer'[e] = answer[e]
    BY <1>1, WireFacts
  <1>4. AskAt(d) /\ AnswerAt(d) /\ QuietAt(d) /\ JobAt(d) /\ OnceAt(d)
    BY DEF OnceParts, OnceAt
  <1>5. asked[d] = NoTask
    BY <1>1, <1>4 DEF AskAt
  <1>6. AskAt(d)' /\ AnswerAt(d)' /\ ~Dispatching(d)'
    BY <1>1, <1>3, <1>5 DEF AskAt, AnswerAt, Dispatching
  <1> DEFINE s == answer[d].work
  <1>7. CASE s # NoSession /\ job[d] = NoSession
    <2>1. /\ job' = [job EXCEPT ![d] = s]
          /\ stage' = [stage EXCEPT ![d] = "preparing"]
      BY <1>7 DEF TakeAnswer, ReceiveAnswer, IsRunning
    <2>2. /\ job'[d] = s /\ stage'[d] = "preparing"
          /\ \A e \in Daemon \ {d} : job'[e] = job[e] /\ stage'[e] = stage[e]
      BY <2>1, WireFacts
    <2>3. s \in Session /\ sessions[s] = "Starting" /\ Owner[s] = d /\ scans[s] = 0
      BY <1>1, <1>4, <1>7, WorkFacts DEF AnswerAt, Fits
    <2>4. Settled(d)
      BY <1>1, <1>4, <1>7 DEF QuietAt, Dispatching
    <2> HIDE DEF s
    <2>5. fresh[s] = "unseen" /\ s \notin stalled
      BY <2>3 DEF OnceParts, OnceRegistry
    <2>6. JobAt(d)'
      BY <1>1, <1>2, <1>4, <1>7, <2>2, <2>3, <2>5 DEF JobAt
    <2>7. Settled(d)'
      BY <1>1, <1>2, <1>7, <2>4, NullAssumption DEF Settled, Tracked
    <2>8. OnceAt(d)'
      BY <1>6, <2>6, <2>7 DEF OnceAt, QuietAt
    <2> QED
      BY <1>1, <1>3, <2>2, <2>8, DaemonOnce
  <1>8. CASE ~(s # NoSession /\ job[d] = NoSession)
    <2>1. UNCHANGED <<job, stage>>
      BY <1>8 DEF TakeAnswer, ReceiveAnswer, IsRunning
    <2>2. SparedAt(d)
      <3>1. ASSUME NEW x \in Session, x = job[d]
            PROVE  x \notin stalled /\ fresh[x] # "old"
        <4>1. x # NoSession
          BY NullAssumption
        <4> QED
          BY <3>1, <4>1, AskedFacts
      <3> QED
        BY <1>1, <1>2, <3>1 DEF SparedAt
    <2>3. OnceAt(d)'
      BY <1>1, <1>4, <1>6, <2>1, <2>2, MovedOnce
    <2> QED
      BY <1>1, <1>3, <2>1, <2>3, DaemonOnce
  <1> QED
    BY <1>7, <1>8

(***************************************************************************)
(* A task moves on or ends.  While it can still report, nothing is on its  *)
(* way to the daemon; once the server has seen its end, its session is     *)
(* gone.                                                                   *)
(***************************************************************************)
LEMMA TaskOnce ==
    ASSUME SystemInv, OnceParts, NEW d \in Daemon,
           UNCHANGED <<svars, late, nvars>>,
           \A e \in Daemon \ {d} :
               job'[e] = job[e] /\ stage'[e] = stage[e] /\ post'[e] = post[e],
           \/ ~Free(d) /\ job'[d] = job[d]
           \/ ~Free(d) /\ job'[d] = NoSession
           \/ job'[d] = NoSession /\ sessions[job[d]] = "none" /\ scans' = scans,
           \/ scans' = scans
           \/ /\ job[d] # NoSession /\ scans'[job[d]] = 1
              /\ \A s \in Session \ {job[d]} : scans'[s] = scans[s],
           JobAt(d)'
    PROVE  OnceParts'
  <1>1. UNCHANGED <<sessions, fresh, pc, sid, did, stalled, asked, answer>>
    BY DEF svars, maps, task, sweep, nvars
  <1>2. AskAt(d) /\ AnswerAt(d) /\ QuietAt(d)
    BY DEF OnceParts, OnceAt
  <1>3. CASE ~Free(d)
    <2>1. ~Dispatching(d) /\ Settled(d)
      BY <1>2, <1>3 DEF QuietAt
    <2>2. AskAt(d)'
      BY <1>1, <1>2, <2>1 DEF AskAt, Dispatching, Polling
    <2>3. AnswerAt(d)' /\ ~Dispatching(d)'
      BY <1>1, <2>1 DEF AnswerAt, Dispatching
    <2>4. job'[d] = job[d] => Settled(d)'
      BY <1>1, <2>1 DEF Settled, Tracked
    <2>5. job'[d] = NoSession => Free(d)'
      BY DEF Free
    <2> QED
      BY <1>3, <1>1, <2>2, <2>3, <2>4, <2>5, AskedFacts, DaemonOnce DEF OnceAt, QuietAt, nvars
  <1>4. CASE Free(d)
    <2>1. job'[d] = NoSession /\ sessions[job[d]] = "none" /\ scans' = scans
      BY <1>4
    <2>2. AskAt(d)' /\ AnswerAt(d)' /\ (Dispatching(d)' <=> Dispatching(d))
      BY <1>1, <1>2, <2>1 DEF AskAt, AnswerAt, Dispatching, Fits
    <2>3. Settled(d) => Settled(d)'
      BY <1>1, <2>1 DEF Settled, Tracked
    <2>4. Free(d)'
      BY <2>1 DEF Free
    <2> QED
      BY <1>1, <1>2, <2>1, <2>2, <2>3, <2>4, DaemonOnce DEF OnceAt, QuietAt, nvars
  <1> QED
    BY <1>3, <1>4

LEMMA RunnerOnce ==
    ASSUME SystemInv, OnceParts, NEW d \in Daemon,
           \/ RunTask(d) \/ FinishTask(d) \/ FailToPrepare(d)
           \/ AbortScan(d) \/ Respond(d) \/ PostLost(d)
    PROVE  OnceParts'
  <1>0. WireTypeOK /\ TasksHaveSessions
    BY DEF SystemInv
  <1>1. UNCHANGED <<svars, late, nvars>>
    BY DEF RunTask, StartDiscovery, ReportProgress, FinishTask, FinishDiscovery,
           FailToPrepare, PrepareFails, AbortScan, AbortDiscovery, Respond, PostLost
  <1>2. UNCHANGED <<sessions, fresh, handed, stalled>>
    BY <1>1 DEF svars, maps, sweep
  <1>3. JobAt(d)
    BY DEF OnceParts, OnceAt
  <1>4. stage[d] # "idle" => job[d] # NoSession /\ job[d] \in Session
    BY <1>0, NullAssumption DEF TasksHaveSessions
  <1>5. CASE StartDiscovery(d)
    <2>1. /\ stage[d] = "preparing" /\ Post(d, "Started")
          /\ stage' = [stage EXCEPT ![d] = "scanning"]
          /\ job' = job
          /\ scans' = [scans EXCEPT ![job[d]] = IF @ < 2 THEN @ + 1 ELSE 2]
      BY <1>5 DEF StartDiscovery
    <2>2. /\ sessions[job[d]] = "Starting" /\ scans[job[d]] = 0 /\ ~Free(d)
      BY <1>3, <1>4, <2>1 DEF JobAt, Free
    <2>3. /\ post'[d] \in Updates
          /\ post'[d].session = job[d] /\ post'[d].phase = "Started"
          /\ \A e \in Daemon \ {d} : post'[e] = post[e]
      BY <1>0, <2>1, PostWire DEF Reported
    <2>4. stage'[d] = "scanning" /\ \A e \in Daemon \ {d} : stage'[e] = stage[e]
      BY <2>1, WireFacts
    <2>5. /\ scans'[job[d]] = 1
          /\ \A s \in Session \ {job[d]} : scans'[s] = scans[s]
      BY <1>4, <2>1, <2>2, WireFacts
    <2>6. JobAt(d)'
      BY <1>2, <1>3, <1>4, <2>1, <2>2, <2>3, <2>4, <2>5 DEF JobAt, Reported, Active
    <2> QED
      BY <1>1, <1>4, <2>1, <2>2, <2>3, <2>4, <2>5, <2>6, TaskOnce
  <1>6. CASE ReportProgress(d) \/ FinishDiscovery(d)
    <2>1. PICK phase \in Reported \cup {"Ended"} :
            /\ Post(d, phase)
            /\ \/ phase \in Reported /\ stage' = stage
               \/ phase = "Ended" /\ stage' = [stage EXCEPT ![d] = "ending"]
      BY <1>6 DEF ReportProgress, FinishDiscovery, Reported
    <2>2. stage[d] = "scanning" /\ UNCHANGED <<job, scans>>
      BY <1>6 DEF ReportProgress, FinishDiscovery
    <2>3. ~Free(d)
      BY <1>4, <2>2 DEF Free
    <2>4. /\ post'[d] \in Updates
          /\ post'[d].session = job[d] /\ post'[d].phase = phase
          /\ \A e \in Daemon \ {d} : post'[e] = post[e]
      BY <1>0, <2>1, <2>2, PostWire
    <2>5. /\ \/ phase \in Reported /\ stage'[d] = "scanning"
             \/ phase = "Ended" /\ stage'[d] = "ending"
          /\ \A e \in Daemon \ {d} : stage'[e] = stage[e]
      BY <2>1, <2>2, WireFacts
    <2>6. JobAt(d)'
      BY <1>2, <1>3, <1>4, <2>2, <2>4, <2>5 DEF JobAt
    <2> QED
      BY <1>1, <2>2, <2>3, <2>4, <2>5, <2>6, TaskOnce
  <1>7. CASE PrepareFails(d) \/ AbortDiscovery(d)
    <2>1. /\ EndTask(d) /\ UNCHANGED <<post, scans>>
          /\ stage[d] \in {"preparing", "scanning"}
      BY <1>7 DEF PrepareFails, AbortDiscovery
    <2>2. post[d] = NoPost /\ ~Free(d)
      BY <1>3, <1>4, <1>7 DEF PrepareFails, AbortDiscovery, JobAt, Free
    <2>3. /\ job'[d] = NoSession /\ stage'[d] = "idle"
          /\ \A e \in Daemon \ {d} : job'[e] = job[e] /\ stage'[e] = stage[e]
      BY <1>0, <2>1, EndTaskWire
    <2>4. JobAt(d)'
      BY <2>1, <2>2, <2>3 DEF JobAt
    <2> QED
      BY <1>1, <2>1, <2>2, <2>3, <2>4, TaskOnce
  <1>8. CASE Respond(d) \/ PostLost(d)
    <2>1. PostReturns(d) /\ post[d] # NoPost
      BY <1>8 DEF Respond, PostLost, PostReturns
    <2>2. /\ post'[d] = NoPost /\ scans' = scans
          /\ \A e \in Daemon \ {d} :
                 job'[e] = job[e] /\ stage'[e] = stage[e] /\ post'[e] = post[e]
      BY <1>0, <2>1, PostReturnsWire
    <2>3. job[d] # NoSession /\ stage[d] \in {"scanning", "ending"}
      BY <1>3, <2>1, WireFacts DEF JobAt
    <2>4. CASE stage[d] = "ending"
      <3>1. job'[d] = NoSession /\ stage'[d] = "idle"
        BY <1>0, <2>1, <2>4, PostReturnsWire
      <3>2. JobAt(d)'
        BY <2>2, <3>1 DEF JobAt
      <3>3. ~Free(d) \/ sessions[job[d]] = "none"
        BY <1>3, <2>3, <2>4, PostAssumption DEF JobAt, Free
      <3> QED
        BY <1>1, <2>2, <3>1, <3>2, <3>3, TaskOnce
    <2>5. CASE stage[d] = "scanning"
      <3>1. job'[d] = job[d] /\ stage'[d] = stage[d] /\ ~Free(d)
        BY <1>0, <2>1, <2>3, <2>5, PostReturnsWire DEF Free
      <3>2. JobAt(d)'
        BY <1>2, <1>3, <2>2, <2>3, <2>5, <3>1, PostAssumption DEF JobAt
      <3> QED
        BY <1>1, <2>2, <3>1, <3>2, TaskOnce
    <2> QED
      BY <2>3, <2>4, <2>5
  <1> QED
    BY <1>5, <1>6, <1>7, <1>8 DEF RunTask, FinishTask, FailToPrepare, AbortScan

(* A daemon that restarts waits for nothing. *)
LEMMA RunnerRestartOnce ==
    ASSUME SystemInv, OnceParts, NEW d \in Daemon, RunnerRestart(d)
    PROVE  OnceParts'
  <1>0. WireTypeOK
    BY DEF SystemInv
  <1>1. /\ EndTask(d)
        /\ post' = [post EXCEPT ![d] = NoPost]
        /\ asked' = [asked EXCEPT ![d] = NoTask]
        /\ answer' = [answer EXCEPT ![d] = NoAnswer]
        /\ UNCHANGED <<svars, late, scans>>
    BY DEF RunnerRestart, DaemonRestart
  <1>2. /\ job'[d] = NoSession /\ stage'[d] = "idle"
        /\ \A e \in Daemon \ {d} : job'[e] = job[e] /\ stage'[e] = stage[e]
    BY <1>0, <1>1, EndTaskWire
  <1>3. /\ post'[d] = NoPost /\ asked'[d] = NoTask /\ answer'[d] = NoAnswer
        /\ \A e \in Daemon \ {d} :
               post'[e] = post[e] /\ asked'[e] = asked[e] /\ answer'[e] = answer[e]
    BY <1>1, WireFacts
  <1>4. AskAt(d)' /\ AnswerAt(d)'
    BY <1>3 DEF AskAt, AnswerAt
  <1>5. QuietAt(d)'
    BY <1>2, <1>3 DEF QuietAt, Dispatching, Free
  <1>6. JobAt(d)'
    BY <1>2, <1>3 DEF JobAt
  <1> QED
    BY <1>1, <1>2, <1>3, <1>4, <1>5, <1>6, DaemonOnce DEF OnceAt

(***************************************************************************)
(* An update is of the daemon's own session, which is active, and the      *)
(* daemon waits for nothing.  The end of the session may put another of    *)
(* the daemon back to Pending, but none that was scanned is left.          *)
(***************************************************************************)
LEMMA DeliverOnce ==
    ASSUME SystemInv, OnceParts, NEW d \in Daemon, Deliver(d)
    PROVE  OnceParts'
  <1>0. TypeOK /\ LocalsSet /\ IInv
    BY RegistryFacts DEF SystemInv
  <1>1. /\ post[d] \in Updates /\ Apply(post[d])
        /\ post' = [post EXCEPT ![d] = Acked]
        /\ UNCHANGED <<job, stage, late, scans, asked, answer>>
    BY DEF Deliver, nvars
  <1>2. post[d] # NoPost /\ post[d] # Acked
    BY <1>1, PostAssumption
  <1>3. AskAt(d) /\ AnswerAt(d) /\ QuietAt(d) /\ JobAt(d)
    BY DEF OnceParts, OnceAt
  <1>4. job[d] # NoSession /\ ~Free(d)
    BY <1>2, <1>3 DEF JobAt, Free
  <1>5. PICK s \in Session : s = job[d]
    BY <1>4, WorkFacts
  <1>6. /\ Owner[s] = d /\ s \in handed /\ s \notin stalled
        /\ sessions[s] \in Active /\ scans[s] = 1
        /\ post[d].session = s
        /\ \/ stage[d] = "scanning" /\ post[d].phase \in Reported
           \/ stage[d] = "ending" /\ post[d].phase = "Ended"
    BY <1>1, <1>2, <1>3, <1>4, <1>5, WireFacts, WorkFacts DEF JobAt
  <1>7. Tracked(s) /\ ~Redundant(s) /\ sessions[s] # "Pending"
    BY <1>6 DEF Redundant, Tracked, Active, Reported
  <1>8. fresh' = [fresh EXCEPT ![s] = "recent"] /\ UNCHANGED <<handed, pc, sid, did, stalled>>
    BY <1>1, <1>6 DEF Apply, UpdateTerminal, UpdateRedundant, UpdateProgress, task, sweep
  <1>9. /\ fresh'[s] = "recent" /\ post'[d] = Acked
        /\ \A x \in Session \ {s} : fresh'[x] = fresh[x]
        /\ \A e \in Daemon \ {d} : post'[e] = post[e]
    BY <1>0, <1>1, <1>8, WireFacts DEF TypeOK
  <1>10. /\ \/ stage[d] = "scanning" /\ sessions'[s] \in Reported
            \/ stage[d] = "ending" /\ sessions'[s] = "none"
         /\ \A x \in Session \ {s} :
               \/ sessions'[x] = sessions[x]
               \/ Owner[x] = d /\ Tracked(x) /\ sessions'[x] = "Pending"
    <2>1. CASE post[d].phase \in Reported
      <3>1. sessions' = [sessions EXCEPT ![s] = post[d].phase]
        BY <1>1, <1>6, <2>1 DEF Apply, UpdateProgress, Reported
      <3> QED
        BY <1>0, <1>6, <2>1, <3>1 DEF TypeOK, Reported
    <2>2. CASE post[d].phase = "Ended"
      <3>1. UpdateTerminal(s)
        BY <1>1, <1>6, <1>7, <2>2 DEF Apply, UpdateRedundant
      <3> QED
        BY <1>0, <1>6, <1>7, <2>2, <3>1, TerminalTouches DEF Reported
    <2> QED
      BY <1>6, <2>1, <2>2
  <1>11. ~Dispatching(d) /\ Settled(d)
    BY <1>3, <1>4 DEF QuietAt
  <1>12. \A x \in Session \ {s} : scans[x] # 0 => sessions'[x] = sessions[x]
    BY <1>5, <1>10, <1>11 DEF Settled
  <1>13. sessions'[s] # "Pending"
    BY <1>10 DEF Reported
  <1>14. OnceRegistry'
    <2>1. ASSUME NEW x \in Task, pc[x] = "start_push"
          PROVE  sessions'[sid[x]] = "Pending"
      <3>1. sid[x] \in Session \ {s} /\ sessions[sid[x]] = "Pending"
        BY <1>0, <1>7, <2>1 DEF OnceParts, OnceRegistry, PushedIsPending, LocalsSet
      <3> QED
        BY <1>10, <3>1
    <2>2. NothingCancelled' /\ PushedIsPending'
      BY <1>1, <1>8, <2>1
         DEF OnceParts, OnceRegistry, NothingCancelled, PushedIsPending
    <2> QED
      BY <1>1, <1>6, <1>8, <1>9, <1>12, <1>13, <2>2
         DEF OnceParts, OnceRegistry, ScannedOnce
  <1>15. OnceAt(d)'
    <2>1. AskAt(d)' /\ AnswerAt(d)' /\ ~Dispatching(d)'
      BY <1>1, <1>3, <1>8, <1>11 DEF AskAt, AnswerAt, Dispatching, Polling
    <2>2. Settled(d)'
      BY <1>1, <1>5, <1>11, <1>12 DEF Settled, Tracked
    <2>3. JobAt(d)'
      BY <1>1, <1>3, <1>4, <1>5, <1>6, <1>8, <1>9, <1>10, PostAssumption DEF JobAt, Active
    <2> QED
      BY <2>1, <2>2, <2>3 DEF OnceAt, QuietAt
  <1>16. ASSUME NEW e \in Daemon, e # d
         PROVE  SameAt(e) /\ SparedAt(e)
    <2>1. SameAt(e)
      BY <1>1, <1>8, <1>9, <1>16 DEF SameAt
    <2>2. ASSUME NEW x \in Session, x = job[e]
          PROVE  x \notin stalled' /\ fresh[x] # "old"
      <3>1. x # NoSession
        BY NullAssumption
      <3> QED
        BY <1>8, <2>2, <3>1, AskedFacts
    <2>3. SparedAt(e)
      BY <1>1, <1>6, <1>9, <1>10, <1>16, <2>2 DEF SparedAt
    <2> QED
      BY <2>1, <2>3
  <1> QED
    BY <1>14, <1>15, <1>16, RegistryOnce

(* Time and the cleanup task touch only what was scanned and is no job.    *)
LEMMA CleanupOnceKept ==
    ASSUME SystemInv, OnceParts,
           UNCHANGED <<handed, pc, sid, did>>,
           UNCHANGED <<job, stage, post, late, scans, asked, answer>>,
           \A s \in Session : \/ sessions'[s] = sessions[s]
                              \/ s \in stalled /\ sessions'[s] = "none",
           \A s \in Session : fresh[s] = "unseen" => fresh'[s] = "unseen",
           \A s \in stalled' : s \in stalled \/ fresh[s] = "old",
           \A d \in Daemon : job[d] # NoSession =>
               (job[d] \notin stalled' /\ fresh'[job[d]] # "old")
    PROVE  OnceParts'
  <1>1. \A s \in Session : scans[s] = 0 =>
            /\ fresh[s] = "unseen" /\ s \notin stalled
            /\ fresh'[s] = "unseen" /\ s \notin stalled'
            /\ sessions'[s] = sessions[s]
    BY DEF OnceParts, OnceRegistry
  <1>2. OnceRegistry'
    <2>1. ASSUME NEW t \in Task, pc[t] = "start_push"
          PROVE  sessions'[sid[t]] = "Pending"
      <3>1. sid[t] \in Session /\ sessions[sid[t]] = "Pending"
        BY <2>1, RegistryFacts DEF OnceParts, OnceRegistry, PushedIsPending, LocalsSet
      <3>2. scans[sid[t]] = 0
        BY <3>1 DEF OnceParts, OnceRegistry
      <3> QED
        BY <1>1, <3>1, <3>2
    <2>2. NothingCancelled' /\ PushedIsPending'
      BY <2>1 DEF OnceParts, OnceRegistry, NothingCancelled, PushedIsPending
    <2> QED
      BY <1>1, <2>2 DEF OnceParts, OnceRegistry, ScannedOnce
  <1>3. ASSUME NEW e \in Daemon
        PROVE  SameAt(e) /\ SparedAt(e)
    <2>1. ASSUME NEW s \in Session, s = job[e]
          PROVE  s \notin stalled /\ s \notin stalled' /\ fresh'[s] # "old"
      <3>1. s # NoSession
        BY NullAssumption
      <3> QED
        BY <2>1, <3>1, AskedFacts
    <2>2. SparedAt(e)
      BY <1>1, <2>1 DEF SparedAt
    <2> QED
      BY <2>2 DEF SameAt
  <1> QED
    BY <1>2, <1>3, RegistryOnce

(* Five minutes without an update, of a session no daemon works on.        *)
LEMMA ElapseOnce ==
    ASSUME SystemInv, OnceParts, Mild, NEW s \in Session, Elapse(s)
    PROVE  OnceParts'
  <1>1. /\ \A d \in Daemon : job[d] # s
        /\ fresh[s] = "recent"
        /\ fresh' = [fresh EXCEPT ![s] = "old"]
        /\ UNCHANGED <<sessions, handed, pc, sid, did, stalled>>
        /\ UNCHANGED <<job, stage, post, late, scans, asked, answer>>
    BY DEF Elapse, Silent, Mild, Age, task, sweep, dvars, nvars
  <1>2. fresh'[s] = "old" /\ \A x \in Session \ {s} : fresh'[x] = fresh[x]
    BY <1>1, RegistryFacts DEF TypeOK
  <1>3. \A d \in Daemon : job[d] # NoSession =>
            job[d] \notin stalled' /\ fresh'[job[d]] # "old"
    <2>1. \A d \in Daemon : job[d] # NoSession => job[d] \in Session \ {s}
      BY <1>1, WorkFacts
    <2> QED
      BY <1>1, <1>2, <2>1, AskedFacts
  <1> QED
    BY <1>1, <1>2, <1>3, CleanupOnceKept

LEMMA CleanupOnce ==
    ASSUME SystemInv, OnceParts, CleanupStep
    PROVE  OnceParts'
  <1>1. /\ UNCHANGED <<sessions, fresh, handed, pc, sid, did>>
        /\ UNCHANGED <<job, stage, post, late, scans, asked, answer>>
    BY DEF CleanupStep, Cleanup, CleanupScan, CleanupLock, CleanupRequest, maps, task,
           dvars, nvars
  <1>2. stalled' = stalled \/ stalled' = {s \in Session : IsStalled(s)}
    BY DEF CleanupStep, Cleanup, CleanupScan, CleanupLock, CleanupRequest
  <1>3. \A s \in stalled' : s \in stalled \/ fresh[s] = "old"
    BY <1>2 DEF IsStalled
  <1>4. \A d \in Daemon : job[d] # NoSession =>
            job[d] \notin stalled' /\ fresh'[job[d]] # "old"
    BY <1>1, <1>3, AskedFacts
  <1> QED
    BY <1>1, <1>3, <1>4, CleanupOnceKept

LEMMA SweepOnce ==
    ASSUME SystemInv, OnceParts, SweepStep
    PROVE  OnceParts'
  <1>1. /\ UNCHANGED <<handed, pc, sid, did>>
        /\ UNCHANGED <<job, stage, post, late, scans, asked, answer>>
        /\ stalled' \subseteq stalled
    BY DEF SweepStep, Sweep, CleanupSweep, CleanupEvict, maps, task, dvars, nvars
  <1>2. \A s \in Session : /\ \/ sessions'[s] = sessions[s]
                              \/ s \in stalled /\ sessions'[s] = "none"
                           /\ fresh'[s] \in {fresh[s], "unseen"}
    <2>1. ASSUME NEW x \in Session, CleanupSweep(x)
          PROVE  /\ x \in stalled
                 /\ \/ sessions' = sessions /\ fresh' = fresh
                    \/ /\ sessions' = [sessions EXCEPT ![x] = "none"]
                       /\ fresh' = [fresh EXCEPT ![x] = "unseen"]
      BY <2>1 DEF CleanupSweep, maps
    <2>2. ASSUME CleanupEvict
          PROVE  /\ sessions' = sessions
                 /\ fresh' = [s \in Session |-> IF ~Tracked(s) /\ fresh[s] = "old"
                                                THEN "unseen" ELSE fresh[s]]
      BY <2>2 DEF CleanupEvict
    <2>3. TypeOK
      BY RegistryFacts
    <2> QED
      BY <2>1, <2>2, <2>3 DEF TypeOK, SweepStep, Sweep
  <1>3. \A d \in Daemon : job[d] # NoSession =>
            job[d] \notin stalled' /\ fresh'[job[d]] # "old"
    BY <1>1, <1>2, AskedFacts, WorkFacts
  <1> QED
    BY <1>1, <1>2, <1>3, CleanupOnceKept

LEMMA OnceStep ==
    ASSUME OnceInv, Mild, [Next]_vars
    PROVE  OnceInv'
  <1>1. SystemInv /\ OnceParts
    BY DEF OnceInv
  <1>2. SystemInv'
    BY <1>1, SystemInvStep
  <1>3. CASE UNCHANGED vars
    <2>1. /\ UNCHANGED <<sessions, fresh, handed, pc, sid, did, stalled>>
          /\ UNCHANGED <<job, stage, post, late, scans, asked, answer>>
      BY <1>3 DEF vars, svars, maps, task, sweep, dvars, nvars
    <2>2. \A d \in Daemon : job[d] # NoSession =>
              job[d] \notin stalled' /\ fresh'[job[d]] # "old"
      BY <1>1, <2>1, AskedFacts
    <2> QED
      BY <1>1, <1>2, <2>1, <2>2, CleanupOnceKept DEF OnceInv
  <1>4. CASE SweepStep
    BY <1>1, <1>2, <1>4, SweepOnce DEF OnceInv
  <1>5. ~ServerRestart
    BY DEF ServerRestart, Mild
  <1>6. CASE Running
    <2>1. ASSUME NEW t \in UserTask, NEW s \in Session, UserStart(t, s) \/ UserCancel(t, s)
          PROVE  OnceParts'
      BY <1>1, <2>1, UserStartOnce DEF UserCancel, Mild
    <2>2. ASSUME NEW t \in UserTask, UserStep(t)
          PROVE  OnceParts'
      BY <1>1, <2>2, StartPushOnce
    <2>3. ASSUME NEW t \in PollTask, NEW d \in Daemon, AskForWork(t, d)
          PROVE  OnceParts'
      BY <1>1, <2>3, AskForWorkOnce
    <2>4. ASSUME NEW t \in PollTask, PollStep(t) \/ Answer(t)
          PROVE  OnceParts'
      BY <1>1, <2>4, PollSelectOnce, PollTransitionOnce, AnswerOnce DEF PollStep
    <2>5. ASSUME NEW d \in Daemon,
                 \/ AnswerLost(d) \/ PollTimeout(d) \/ TakeAnswer(d)
                 \/ RunTask(d) \/ FinishTask(d) \/ FailToPrepare(d) \/ AbortScan(d)
                 \/ Deliver(d) \/ Respond(d) \/ PostLost(d) \/ PostLate(d)
                 \/ RunnerRestart(d)
          PROVE  OnceParts'
      <3>1. ~PostLate(d)
        BY DEF PostLate, Mild
      <3>2. CASE AnswerLost(d) \/ PollTimeout(d)
        BY <1>1, <3>2, WaitOnce
      <3>3. CASE TakeAnswer(d)
        BY <1>1, <3>3, TakeAnswerOnce
      <3>4. CASE Deliver(d)
        BY <1>1, <3>4, DeliverOnce
      <3>5. CASE \/ RunTask(d) \/ FinishTask(d) \/ FailToPrepare(d)
                 \/ AbortScan(d) \/ Respond(d) \/ PostLost(d)
        BY <1>1, <3>5, RunnerOnce
      <3>6. CASE RunnerRestart(d)
        BY <1>1, <3>6, RunnerRestartOnce
      <3> QED
        BY <2>5, <3>1, <3>2, <3>3, <3>4, <3>5, <3>6
    <2>6. late = {}
      BY <1>1 DEF OnceParts, OnceRegistry, NothingCancelled
    <2>7. ASSUME NEW s \in Session, Elapse(s)
          PROVE  OnceParts'
      BY <1>1, <2>7, ElapseOnce
    <2>8. ASSUME CleanupStep
          PROVE  OnceParts'
      BY <1>1, <2>8, CleanupOnce
    <2>9. OnceParts'
      BY <1>6, <2>1, <2>2, <2>3, <2>4, <2>5, <2>6, <2>7, <2>8 DEF Running
    <2> QED
      BY <1>2, <2>9 DEF OnceInv
  <1> QED
    BY <1>3, <1>4, <1>5, <1>6 DEF Next

LEMMA OnceInit == Init => OnceInv
  <1> SUFFICES ASSUME Init PROVE OnceInv
    OBVIOUS
  <1>1. SystemInv
    BY SystemInvInit
  <1>2. /\ pc = [t \in Task |-> "idle"] /\ stalled = {}
        /\ fresh = [s \in Session |-> "unseen"]
    BY DEF Init, SInit
  <1>3. /\ job = [d \in Daemon |-> NoSession] /\ stage = [d \in Daemon |-> "idle"]
        /\ post = [d \in Daemon |-> NoPost] /\ late = {}
        /\ scans = [s \in Session |-> 0]
        /\ asked = [d \in Daemon |-> NoTask] /\ answer = [d \in Daemon |-> NoAnswer]
    BY DEF Init, RunnerInit
  <1>4. OnceRegistry
    BY <1>2, <1>3 DEF OnceRegistry, NothingCancelled, PushedIsPending, ScannedOnce
  <1>5. \A d \in Daemon : OnceAt(d)
    BY <1>3 DEF OnceAt, AskAt, AnswerAt, QuietAt, Dispatching, Free, JobAt
  <1> QED
    BY <1>1, <1>4, <1>5 DEF OnceInv, OnceParts

(* The system, spared what Mild excludes, keeps the invariant above.       *)
THEOREM OnceInvariance ==
    ASSUME Mild
    PROVE  Spec => []OnceInv
  <1>1. OnceInv /\ [Next]_vars => OnceInv'
    BY OnceStep
  <1> QED
    BY <1>1, OnceInit, PTL DEF Spec

(***************************************************************************)
(* No session is scanned twice, whatever answers and updates are lost and  *)
(* however often a daemon gives up a request or restarts: get_pending_work *)
(* takes a session out of Pending before it returns it, and update_session *)
(* puts one back only while the daemon still works on its own session, so  *)
(* never one that was scanned.                                             *)
(***************************************************************************)
THEOREM NoSecondScan ==
    ASSUME Mild
    PROVE  Spec => []ScannedOnce
  <1>1. OnceInv => ScannedOnce
    BY DEF OnceInv, OnceParts, OnceRegistry
  <1> QED
    BY <1>1, OnceInvariance, PTL

(***************************************************************************)
(* Unless an answer overtakes the response to the task's last update, a    *)
(* daemon never drops work it was given.                                   *)
(***************************************************************************)
THEOREM NoWorkDropped ==
    ASSUME Mild, "overtaking" \notin Faults
    PROVE  Spec => WorkIsTaken
  <1>1. ASSUME OnceInv, NEW d \in Daemon, TakeAnswer(d), answer[d].work # NoSession
        PROVE  job'[d] = answer[d].work
    <2>1. answer[d] # NoAnswer /\ post[d] # Acked
      BY <1>1 DEF TakeAnswer
    <2>2. Free(d)
      BY <1>1, <2>1 DEF OnceInv, OnceParts, OnceAt, QuietAt, Dispatching
    <2>3. job[d] = NoSession
      BY <2>1, <2>2 DEF Free
    <2>4. job' = [job EXCEPT ![d] = answer[d].work]
      BY <1>1, <2>3 DEF TakeAnswer, ReceiveAnswer, IsRunning
    <2>5. job \in [Daemon -> Session \cup {NoSession}]
      BY <1>1 DEF OnceInv, SystemInv, WireTypeOK, RunnerTypeOK
    <2> QED
      BY <2>4, <2>5
  <1>2. OnceInv => [\A d \in Daemon :
                      TakeAnswer(d) /\ answer[d].work # NoSession
                          => job'[d] = answer[d].work]_vars
    BY <1>1
  <1> QED
    BY <1>2, OnceInvariance, PTL DEF WorkIsTaken
=============================================================================
