----------------------- MODULE DiscoveryServiceProofs -----------------------
(* Proofs about DiscoveryService, for every set of sessions, daemons and   *)
(* handlers.                                                               *)
EXTENDS DiscoveryService, TLAPS

-----------------------------------------------------------------------------
(* Queues: what a push and a retain do to the ids a queue holds *)

(* A push adds one id at the back. *)
LEMMA PushLemma ==
    ASSUME NEW S, NEW q \in Seq(S), NEW s \in S
    PROVE  /\ Append(q, s) \in Seq(S)
           /\ Range(Append(q, s)) = Range(q) \cup {s}
           /\ IsInjective(q) /\ s \notin Range(q) => IsInjective(Append(q, s))
<1>1. /\ Append(q, s) \in Seq(S)
      /\ DOMAIN q = 1 .. Len(q)
      /\ DOMAIN Append(q, s) = 1 .. Len(q) + 1
      /\ Len(q) \in Nat
      /\ \A i \in 1 .. Len(q) : Append(q, s)[i] = q[i]
      /\ Append(q, s)[Len(q) + 1] = s
  OBVIOUS
<1>2. Range(Append(q, s)) = Range(q) \cup {s}
  BY <1>1 DEF Range
<1>3. ASSUME IsInjective(q), s \notin Range(q)
      PROVE  IsInjective(Append(q, s))
  BY <1>1, <1>3 DEF IsInjective, Range
<1> QED  BY <1>1, <1>2, <1>3

(* A retain takes one id out, and keeps all the others. *)
LEMMA RetainLemma ==
    ASSUME NEW S, NEW q \in Seq(S), NEW s, IsInjective(q)
    PROVE  /\ Retain(q, s) \in Seq(S)
           /\ Range(Retain(q, s)) = Range(q) \ {s}
           /\ IsInjective(Retain(q, s))
<1>1. CASE s \notin Range(q)
  BY <1>1 DEF Retain
<1>2. CASE s \in Range(q)
  <2> DEFINE k == CHOOSE i \in 1 .. Len(q) : q[i] = s
             r == [i \in 1 .. Len(q) - 1 |-> IF i < k THEN q[i] ELSE q[i + 1]]
  <2>1. DOMAIN q = 1 .. Len(q) /\ Len(q) \in Nat /\ \A i \in 1 .. Len(q) : q[i] \in S
    OBVIOUS
  <2>2. k \in 1 .. Len(q) /\ q[k] = s
    BY <1>2, <2>1 DEF Range
  <2>3. Retain(q, s) = r
    BY <1>2 DEF Retain
  <2> HIDE DEF k
  <2>4. Len(q) - 1 \in Nat /\ \A i \in 1 .. Len(q) - 1 : r[i] \in S
    BY <2>1, <2>2
  <2>5. r \in Seq(S)
    BY <2>4
  <2>6. \A i, j \in 1 .. Len(q) : q[i] = q[j] => i = j
    BY <2>1 DEF IsInjective
  <2>7. Range(r) \subseteq Range(q) \ {s}
    BY <2>1, <2>2, <2>6 DEF Range
  <2>8. ASSUME NEW x \in Range(q) \ {s}
        PROVE  x \in Range(r)
    <3>1. PICK i \in 1 .. Len(q) : q[i] = x
      BY <2>1 DEF Range
    <3>2. CASE i < k
      <4>1. i \in 1 .. Len(q) - 1
        BY <2>1, <2>2, <3>1, <3>2
      <4>2. r[i] = x
        BY <3>1, <3>2, <4>1
      <4> QED  BY <4>1, <4>2 DEF Range
    <3>3. CASE i > k
      <4>1. i - 1 \in 1 .. Len(q) - 1 /\ ~(i - 1 < k) /\ (i - 1) + 1 = i
        BY <2>1, <2>2, <3>1, <3>3
      <4>2. r[i - 1] = x
        BY <3>1, <4>1
      <4> QED  BY <4>1, <4>2 DEF Range
    <3> QED  BY <2>1, <2>2, <3>1, <3>2, <3>3
  <2>9. IsInjective(r)
    BY <2>1, <2>2, <2>6 DEF IsInjective
  <2> QED  BY <2>3, <2>5, <2>7, <2>8, <2>9
<1> QED  BY <1>1, <1>2
-----------------------------------------------------------------------------
(* One lemma per action: it preserves the invariant *)

(* A drawn id is new to every map, queue and handler. *)
LEMMA StartInsertStep ==
    ASSUME IInv, NEW t \in Task, NEW s \in Session, StartInsert(t, s)
    PROVE  IInv'
<1>1. TypeOK'
  BY NullAssumption DEF IInv, StartInsert, Goto, sweep, TypeOK, Active,
     Labels
<1>2. LocalsSet'
  BY NullAssumption DEF IInv, StartInsert, Goto, sweep, TypeOK, LocalsSet
<1>3. TrackedIsQueued'
  BY NullAssumption DEF IInv, StartInsert, Goto, sweep, TypeOK, LocalsSet,
     TrackedIsQueued, Tracked, Queued
<1>4. StartIsPrivate'
  BY NullAssumption DEF IInv, StartInsert, Goto, sweep, TypeOK,
     InUseIsIssued, StartIsPrivate, Queued
<1>5. InUseIsIssued'
  BY NullAssumption DEF IInv, StartInsert, Goto, sweep, TypeOK,
     InUseIsIssued, Tracked, Queued
<1>6. GhostsStayDead'
  BY NullAssumption DEF IInv, StartInsert, Goto, sweep, TypeOK,
     GhostsStayDead, Queued, Tracked, Selecting
<1>7. ReportedIsTimed'
  BY NullAssumption DEF IInv, StartInsert, Goto, sweep, TypeOK,
     ReportedIsTimed, Reported
<1>8. QueueOwned' /\ NoDuplicates' /\ TimedWasHanded' /\ RecordedWasHanded'
  BY DEF IInv, StartInsert, Goto, sweep, QueueOwned, Queued, NoDuplicates,
     TimedWasHanded, RecordedWasHanded
<1> QED  BY <1>1, <1>2, <1>3, <1>4, <1>5, <1>6, <1>7, <1>8 DEF IInv

(* The poll has no session yet. *)
LEMMA PollCheckActiveStep ==
    ASSUME IInv, NEW t \in Task, NEW d \in Daemon, PollCheckActive(t, d)
    PROVE  IInv'
<1>1. TypeOK'
  BY NullAssumption DEF IInv, PollCheckActive, Goto, HasActiveSession, maps,
     sweep, Active, TypeOK, LocalsSet, Labels
<1>2. LocalsSet'
  BY NullAssumption DEF IInv, PollCheckActive, Goto, HasActiveSession, maps,
     sweep, Active, TypeOK, LocalsSet
<1>3. TrackedIsQueued'
  BY NullAssumption DEF IInv, PollCheckActive, Goto, HasActiveSession, maps,
     sweep, Active, TypeOK, LocalsSet, TrackedIsQueued, Tracked, Queued
<1>4. StartIsPrivate'
  BY NullAssumption DEF IInv, PollCheckActive, Goto, HasActiveSession, maps,
     sweep, Active, TypeOK, LocalsSet, StartIsPrivate, Queued
<1>5. GhostsStayDead'
  BY NullAssumption DEF IInv, PollCheckActive, Goto, HasActiveSession, maps,
     sweep, Active, TypeOK, LocalsSet, GhostsStayDead, Queued, Tracked,
     Selecting
<1>6. QueueOwned' /\ NoDuplicates' /\ InUseIsIssued' /\ TimedWasHanded' /\
      ReportedIsTimed' /\ RecordedWasHanded'
  BY DEF IInv, PollCheckActive, Goto, HasActiveSession, maps, sweep, Active,
     QueueOwned, Queued, NoDuplicates, InUseIsIssued, Tracked,
     TimedWasHanded, ReportedIsTimed, Reported, RecordedWasHanded
<1> QED  BY <1>1, <1>2, <1>3, <1>4, <1>5, <1>6 DEF IInv

(* The session stays in the map, if it is there at all. *)
LEMMA PollTransitionStep ==
    ASSUME IInv, NEW t \in Task, PollTransition(t)
    PROVE  IInv'
<1>1. TypeOK'
  BY NullAssumption DEF IInv, PollTransition, Goto, sweep, TypeOK,
     LocalsSet, Active, Labels
<1>2. LocalsSet'
  BY NullAssumption DEF IInv, PollTransition, Goto, sweep, TypeOK, LocalsSet
<1>3. TrackedIsQueued'
  BY NullAssumption DEF IInv, PollTransition, Goto, sweep, TypeOK,
     LocalsSet, TrackedIsQueued, Tracked, Queued
<1>4. StartIsPrivate'
  BY NullAssumption DEF IInv, PollTransition, Goto, sweep, TypeOK,
     LocalsSet, StartIsPrivate, Queued
<1>5. InUseIsIssued'
  BY NullAssumption DEF IInv, PollTransition, Goto, sweep, TypeOK,
     LocalsSet, InUseIsIssued, Tracked, Queued
<1>6. GhostsStayDead'
  BY NullAssumption DEF IInv, PollTransition, Goto, sweep, TypeOK,
     LocalsSet, GhostsStayDead, Queued, Tracked, Selecting
<1>7. ReportedIsTimed'
  BY NullAssumption DEF IInv, PollTransition, Goto, sweep, TypeOK,
     LocalsSet, ReportedIsTimed, Reported
<1>8. QueueOwned' /\ NoDuplicates' /\ TimedWasHanded' /\ RecordedWasHanded'
  BY DEF IInv, PollTransition, Goto, sweep, QueueOwned, Queued,
     NoDuplicates, TimedWasHanded, RecordedWasHanded
<1> QED  BY <1>1, <1>2, <1>3, <1>4, <1>5, <1>6, <1>7, <1>8 DEF IInv

(* The id handed out is not one a start_session call is about to push. *)
LEMMA PollReplyStep ==
    ASSUME IInv, NEW t \in Task, PollReply(t)
    PROVE  IInv'
<1>1. TypeOK'
  BY NullAssumption DEF IInv, PollReply, Return, sweep, TypeOK, Active,
     Labels
<1>2. LocalsSet'
  BY NullAssumption DEF IInv, PollReply, Return, sweep, TypeOK, LocalsSet
<1>3. TrackedIsQueued'
  BY NullAssumption DEF IInv, PollReply, Return, sweep, TypeOK,
     TrackedIsQueued, Tracked, Queued
<1>4. StartIsPrivate'
  <2>1. /\ pc[t] = "poll_reply" /\ pc'[t] = "idle" /\ sid'[t] = NoSession
        /\ \A u \in Task \ {t} : pc'[u] = pc[u] /\ sid'[u] = sid[u]
        /\ queue' = queue /\ handed' \subseteq handed \cup {sid[t]}
    BY DEF IInv, PollReply, Return, TypeOK
  <2> SUFFICES ASSUME NEW u \in Task, pc'[u] = "start_push"
               PROVE  /\ sid'[u] \notin handed'
                      /\ sid'[u] \notin Queued(Owner[sid[u]])'
                      /\ \A v \in Task : v # u /\ sid'[v] = sid'[u] =>
                             pc'[v] \in {"cancel_pending", "cancel_flag"}
    BY DEF StartIsPrivate
  <2>2. /\ u # t /\ pc[u] = "start_push" /\ sid'[u] = sid[u] /\ sid[u] \in Session
        /\ sid[u] # sid[t]
    BY <2>1 DEF IInv, LocalsSet, StartIsPrivate
  <2>3. ASSUME NEW v \in Task, v # u, sid'[v] = sid'[u]
        PROVE  pc'[v] \in {"cancel_pending", "cancel_flag"}
    BY <2>1, <2>2, <2>3, NullAssumption DEF IInv, StartIsPrivate
  <2> QED
    BY <2>1, <2>2, <2>3 DEF IInv, StartIsPrivate, Queued
<1>5. InUseIsIssued'
  BY NullAssumption DEF IInv, PollReply, Return, sweep, TypeOK,
     InUseIsIssued, Tracked, Queued
<1>6. GhostsStayDead'
  BY NullAssumption DEF IInv, PollReply, Return, sweep, TypeOK, LocalsSet,
     GhostsStayDead, Queued, Tracked, Selecting
<1>7. TimedWasHanded'
  BY NullAssumption DEF IInv, PollReply, Return, sweep, TypeOK,
     TimedWasHanded
<1>8. RecordedWasHanded'
  BY NullAssumption DEF IInv, PollReply, Return, sweep, TypeOK,
     RecordedWasHanded
<1>9. QueueOwned' /\ NoDuplicates' /\ ReportedIsTimed'
  BY DEF IInv, PollReply, Return, sweep, QueueOwned, Queued, NoDuplicates,
     ReportedIsTimed, Reported
<1> QED  BY <1>1, <1>2, <1>3, <1>4, <1>5, <1>6, <1>7, <1>8, <1>9 DEF IInv

(* Only the tombstone is refreshed. *)
LEMMA UpdateRedundantStep ==
    ASSUME IInv, NEW s \in Session, UpdateRedundant(s)
    PROVE  IInv'
<1>1. TypeOK'
  BY DEF IInv, UpdateRedundant, Redundant, task, sweep, Tracked, TypeOK,
     Active, Labels
<1>2. TimedWasHanded'
  BY DEF IInv, UpdateRedundant, Redundant, task, sweep, Tracked, TypeOK,
     TimedWasHanded
<1>3. ReportedIsTimed'
  BY DEF IInv, UpdateRedundant, Redundant, task, sweep, Tracked, TypeOK,
     ReportedIsTimed, Reported
<1>4. LocalsSet' /\ QueueOwned' /\ NoDuplicates' /\ TrackedIsQueued' /\
      StartIsPrivate' /\ InUseIsIssued' /\ GhostsStayDead' /\ RecordedWasHanded'
  BY DEF IInv, UpdateRedundant, Redundant, task, sweep, Tracked, LocalsSet,
     QueueOwned, Queued, NoDuplicates, TrackedIsQueued, StartIsPrivate,
     InUseIsIssued, GhostsStayDead, Selecting, RecordedWasHanded
<1> QED  BY <1>1, <1>2, <1>3, <1>4 DEF IInv

(* A cancel may share its id with the start_session call it races with. *)
LEMMA CancelReadStep ==
    ASSUME IInv, NEW t \in Task, NEW s \in Session, CancelRead(t, s)
    PROVE  IInv'
<1>1. TypeOK'
  BY NullAssumption DEF IInv, CancelRead, Reported, Goto, maps, sweep,
     TypeOK, LocalsSet, Active, Labels
<1>2. LocalsSet'
  BY NullAssumption DEF IInv, CancelRead, Reported, Goto, maps, sweep,
     TypeOK, LocalsSet
<1>3. TrackedIsQueued'
  BY NullAssumption DEF IInv, CancelRead, Reported, Goto, maps, sweep,
     TypeOK, LocalsSet, TrackedIsQueued, Tracked, Queued
<1>4. StartIsPrivate'
  BY NullAssumption DEF IInv, CancelRead, Reported, Goto, maps, sweep,
     TypeOK, LocalsSet, StartIsPrivate, Queued
<1>5. InUseIsIssued'
  BY NullAssumption DEF IInv, CancelRead, Reported, Goto, maps, sweep,
     TypeOK, LocalsSet, InUseIsIssued, Tracked, Queued
<1>6. GhostsStayDead'
  BY NullAssumption DEF IInv, CancelRead, Reported, Goto, maps, sweep,
     TypeOK, LocalsSet, GhostsStayDead, Queued, Tracked, Selecting
<1>7. QueueOwned' /\ NoDuplicates' /\ TimedWasHanded' /\ ReportedIsTimed' /\
      RecordedWasHanded'
  BY DEF IInv, CancelRead, Reported, Goto, maps, sweep, QueueOwned, Queued,
     NoDuplicates, TimedWasHanded, ReportedIsTimed, RecordedWasHanded
<1> QED  BY <1>1, <1>2, <1>3, <1>4, <1>5, <1>6, <1>7 DEF IInv

(* The flag is not part of the argument. *)
LEMMA CancelFlagStep ==
    ASSUME IInv, NEW t \in Task, CancelFlag(t)
    PROVE  IInv'
<1>1. TypeOK'
  BY OwnerAssumption, NullAssumption DEF IInv, CancelFlag, Return, sweep,
     TypeOK, LocalsSet, Active, Labels
<1>2. LocalsSet'
  BY NullAssumption DEF IInv, CancelFlag, Return, sweep, TypeOK, LocalsSet
<1>3. TrackedIsQueued'
  BY NullAssumption DEF IInv, CancelFlag, Return, sweep, TypeOK,
     TrackedIsQueued, Tracked, Queued
<1>4. StartIsPrivate'
  BY NullAssumption DEF IInv, CancelFlag, Return, sweep, TypeOK, LocalsSet,
     StartIsPrivate, Queued
<1>5. InUseIsIssued'
  BY NullAssumption DEF IInv, CancelFlag, Return, sweep, TypeOK,
     InUseIsIssued, Tracked, Queued
<1>6. GhostsStayDead'
  BY NullAssumption DEF IInv, CancelFlag, Return, sweep, TypeOK,
     GhostsStayDead, Queued, Tracked, Selecting
<1>7. QueueOwned' /\ NoDuplicates' /\ TimedWasHanded' /\ ReportedIsTimed' /\
      RecordedWasHanded'
  BY DEF IInv, CancelFlag, Return, sweep, QueueOwned, Queued, NoDuplicates,
     TimedWasHanded, ReportedIsTimed, Reported, RecordedWasHanded
<1> QED  BY <1>1, <1>2, <1>3, <1>4, <1>5, <1>6, <1>7 DEF IInv

(* What is stalled was timed, hence handed out. *)
LEMMA CleanupScanStep ==
    ASSUME IInv, CleanupScan
    PROVE  IInv'
<1>1. TypeOK'
  BY DEF IInv, CleanupScan, IsStalled, maps, task, Tracked, TypeOK, Active,
     Labels, sweep
<1>2. TimedWasHanded'
  BY DEF IInv, CleanupScan, IsStalled, maps, task, Tracked, TypeOK,
     TimedWasHanded
<1>3. LocalsSet' /\ QueueOwned' /\ NoDuplicates' /\ TrackedIsQueued' /\
      StartIsPrivate' /\ InUseIsIssued' /\ GhostsStayDead' /\ ReportedIsTimed' /\
      RecordedWasHanded'
  BY DEF IInv, CleanupScan, IsStalled, maps, task, Tracked, LocalsSet,
     QueueOwned, Queued, NoDuplicates, TrackedIsQueued, StartIsPrivate,
     InUseIsIssued, GhostsStayDead, Selecting, ReportedIsTimed, Reported,
     RecordedWasHanded
<1> QED  BY <1>1, <1>2, <1>3 DEF IInv

(* Pass 2 sets flags only. *)
LEMMA CleanupRequestStep ==
    ASSUME IInv, NEW s \in Session, CleanupRequest(s)
    PROVE  IInv'
<1>1. TypeOK'
  BY OwnerAssumption DEF IInv, CleanupRequest, task, TypeOK, Active, Labels,
     sweep
<1>2. LocalsSet' /\ QueueOwned' /\ NoDuplicates' /\ TrackedIsQueued' /\
      StartIsPrivate' /\ InUseIsIssued' /\ GhostsStayDead' /\ TimedWasHanded' /\
      ReportedIsTimed' /\ RecordedWasHanded'
  BY DEF IInv, CleanupRequest, task, LocalsSet, QueueOwned, Queued,
     NoDuplicates, TrackedIsQueued, Tracked, StartIsPrivate, InUseIsIssued,
     GhostsStayDead, Selecting, TimedWasHanded, ReportedIsTimed, Reported,
     RecordedWasHanded
<1> QED  BY <1>1, <1>2 DEF IInv

(* Taking the locks changes no map. *)
LEMMA CleanupLockStep ==
    ASSUME IInv, CleanupLock
    PROVE  IInv'
<1>1. TypeOK'
  BY DEF IInv, CleanupLock, sweep, maps, task, TypeOK, Active, Labels
<1>2. LocalsSet' /\ QueueOwned' /\ NoDuplicates' /\ TrackedIsQueued' /\
      StartIsPrivate' /\ InUseIsIssued' /\ GhostsStayDead' /\ TimedWasHanded' /\
      ReportedIsTimed' /\ RecordedWasHanded'
  BY DEF IInv, CleanupLock, sweep, maps, task, LocalsSet, QueueOwned,
     Queued, NoDuplicates, TrackedIsQueued, Tracked, StartIsPrivate,
     InUseIsIssued, GhostsStayDead, Selecting, TimedWasHanded,
     ReportedIsTimed, Reported, RecordedWasHanded
<1> QED  BY <1>1, <1>2 DEF IInv

(* Eviction spares the entries of tracked sessions. *)
LEMMA CleanupEvictStep ==
    ASSUME IInv, CleanupEvict
    PROVE  IInv'
<1>1. TypeOK'
  BY DEF IInv, CleanupEvict, sweep, Tracked, task, TypeOK, Active, Labels
<1>2. TimedWasHanded'
  BY DEF IInv, CleanupEvict, sweep, Tracked, task, TypeOK, TimedWasHanded
<1>3. ReportedIsTimed'
  BY DEF IInv, CleanupEvict, sweep, Tracked, task, TypeOK, ReportedIsTimed,
     Reported
<1>4. LocalsSet' /\ QueueOwned' /\ NoDuplicates' /\ TrackedIsQueued' /\
      StartIsPrivate' /\ InUseIsIssued' /\ GhostsStayDead' /\ RecordedWasHanded'
  BY DEF IInv, CleanupEvict, sweep, Tracked, task, LocalsSet, QueueOwned,
     Queued, NoDuplicates, TrackedIsQueued, StartIsPrivate, InUseIsIssued,
     GhostsStayDead, Selecting, RecordedWasHanded
<1> QED  BY <1>1, <1>2, <1>3, <1>4 DEF IInv

(* Ageing keeps the entry. *)
LEMMA AgeStep ==
    ASSUME IInv, NEW s \in Session, Age(s)
    PROVE  IInv'
<1>1. TypeOK'
  BY DEF IInv, Age, task, sweep, TypeOK, Active, Labels
<1>2. TimedWasHanded'
  BY DEF IInv, Age, task, sweep, TypeOK, TimedWasHanded
<1>3. ReportedIsTimed'
  BY DEF IInv, Age, task, sweep, TypeOK, ReportedIsTimed, Reported
<1>4. LocalsSet' /\ QueueOwned' /\ NoDuplicates' /\ TrackedIsQueued' /\
      StartIsPrivate' /\ InUseIsIssued' /\ GhostsStayDead' /\ RecordedWasHanded'
  BY DEF IInv, Age, task, sweep, LocalsSet, QueueOwned, Queued,
     NoDuplicates, TrackedIsQueued, Tracked, StartIsPrivate, InUseIsIssued,
     GhostsStayDead, Selecting, RecordedWasHanded
<1> QED  BY <1>1, <1>2, <1>3, <1>4 DEF IInv

(* The id selected is queued and tracked. *)
LEMMA PollSelectStep ==
    ASSUME IInv, NEW t \in Task, PollSelect(t)
    PROVE  IInv'
<1>a. ASSUME NEW i \in 1 .. Len(queue[did[t]]), pc[t] = "poll_select"
      PROVE  /\ queue[did[t]][i] \in Session
             /\ queue[did[t]][i] \in Queued(did[t])
             /\ Owner[queue[did[t]][i]] = did[t]
  BY <1>a DEF IInv, TypeOK, LocalsSet, QueueOwned, Queued, Range
<1>1. TypeOK'
  <2>1. UNCHANGED <<maps, recorded, issued, handed, did, sweep>>
    BY DEF PollSelect
  <2>2. /\ pc' \in [Task -> Labels]
        /\ sid' \in [Task -> Session \cup {NoSession}]
    BY <1>a DEF IInv, PollSelect, Goto, TypeOK, Labels
  <2> QED
    BY <2>1, <2>2 DEF IInv, TypeOK, maps, sweep
<1>2. LocalsSet'
  BY <1>a, NullAssumption DEF IInv, PollSelect, IsFirstPending, Goto, maps,
     sweep, TypeOK, LocalsSet, StartIsPrivate
<1>3. TrackedIsQueued'
  BY <1>a, NullAssumption DEF IInv, PollSelect, IsFirstPending, Goto, maps,
     sweep, TypeOK, LocalsSet, StartIsPrivate, TrackedIsQueued, Tracked,
     Queued
<1>4. StartIsPrivate'
  <2>1. CASE \E i \in 1 .. Len(queue[did[t]]) :
              /\ sid' = [sid EXCEPT ![t] = queue[did[t]][i]]
              /\ Goto(t, "poll_transition")
    <3>1. PICK i \in 1 .. Len(queue[did[t]]) :
              /\ sid' = [sid EXCEPT ![t] = queue[did[t]][i]]
              /\ Goto(t, "poll_transition")
      BY <2>1
    <3> DEFINE s == queue[did[t]][i]
    <3>2. s \in Session /\ s \in Queued(Owner[s]) /\ pc[t] = "poll_select"
      BY <1>a DEF PollSelect
    <3>3. \A u \in Task : pc[u] = "start_push" => sid[u] # s
      BY <3>2 DEF IInv, StartIsPrivate
    <3> HIDE DEF s
    <3> QED  BY <3>1, <3>2, <3>3
             DEF IInv, TypeOK, StartIsPrivate, PollSelect, Goto, maps, Queued, s
  <2>2. CASE Goto(t, "poll_reply") /\ UNCHANGED sid
    BY <2>2, NullAssumption
    DEF IInv, TypeOK, LocalsSet, StartIsPrivate, PollSelect, Goto, maps, Queued
  <2> QED  BY <2>1, <2>2 DEF PollSelect
<1>5. InUseIsIssued'
  BY <1>a, NullAssumption DEF IInv, PollSelect, IsFirstPending, Goto, maps,
     sweep, TypeOK, LocalsSet, StartIsPrivate, InUseIsIssued, Tracked,
     Queued
<1>6. GhostsStayDead'
  BY <1>a, NullAssumption DEF IInv, PollSelect, IsFirstPending, Goto, maps,
     sweep, TypeOK, LocalsSet, StartIsPrivate, GhostsStayDead, Queued,
     Tracked, Selecting
<1>7. QueueOwned' /\ NoDuplicates' /\ TimedWasHanded' /\ ReportedIsTimed' /\
      RecordedWasHanded'
  BY DEF IInv, PollSelect, IsFirstPending, Goto, maps, sweep, QueueOwned,
     Queued, NoDuplicates, TimedWasHanded, ReportedIsTimed, Reported,
     RecordedWasHanded
<1> QED  BY <1>1, <1>2, <1>3, <1>4, <1>5, <1>6, <1>7 DEF IInv


(***************************************************************************)
(* The effect of replacing one queue: the ids of its daemon are queued as  *)
(* the new queue says, those of the others as before.                      *)
(***************************************************************************)
LEMMA QueueLemma ==
    ASSUME IInv, NEW o \in Daemon, NEW r \in Seq(Session), IsInjective(r),
           \A x \in Range(r) : Owner[x] = o,
           queue' = [queue EXCEPT ![o] = r]
    PROVE  /\ queue' \in [Daemon -> Seq(Session)]
           /\ NoDuplicates'
           /\ QueueOwned'
           /\ \A x \in Session :
                 x \in Range(queue'[Owner[x]]) <=>
                    IF Owner[x] = o THEN x \in Range(r)
                                    ELSE x \in Range(queue[Owner[x]])
<1>1. queue \in [Daemon -> Seq(Session)]
  BY DEF IInv, TypeOK
<1>2. \A d \in Daemon : queue'[d] = IF d = o THEN r ELSE queue[d]
  BY <1>1
<1>3. queue' \in [Daemon -> Seq(Session)]
  BY <1>1
<1>4. NoDuplicates'
  BY <1>2 DEF IInv, NoDuplicates
<1>5. QueueOwned'
  BY <1>2 DEF IInv, QueueOwned, Queued
<1>6. \A x \in Session :
          x \in Range(queue'[Owner[x]]) <=>
             IF Owner[x] = o THEN x \in Range(r)
                             ELSE x \in Range(queue[Owner[x]])
  BY <1>2, OwnerAssumption
<1> QED  BY <1>3, <1>4, <1>5, <1>6

(* The members of a queue are sessions of its daemon. *)
LEMMA MemberLemma ==
    ASSUME IInv, NEW o \in Daemon
    PROVE  /\ queue[o] \in Seq(Session)
           /\ IsInjective(queue[o])
           /\ \A x \in Range(queue[o]) : x \in Session /\ Owner[x] = o
<1>1. queue[o] \in Seq(Session) /\ IsInjective(queue[o])
  BY DEF IInv, TypeOK, NoDuplicates
<1>2. Range(queue[o]) \subseteq Session
  BY <1>1 DEF Range
<1> QED  BY <1>1, <1>2 DEF IInv, QueueOwned, Queued

(* The id pushed was in no queue. *)
LEMMA StartPushStep ==
    ASSUME IInv, NEW t \in Task, StartPush(t)
    PROVE  IInv'
<1> DEFINE o == Owner[sid[t]]
<1>1. /\ pc[t] = "start_push" /\ sid[t] \in Session /\ o \in Daemon
      /\ sid[t] \notin Range(queue[o])
  BY OwnerAssumption DEF IInv, LocalsSet, StartIsPrivate, StartPush, Queued
<1>2. queue' = [queue EXCEPT ![o] = Append(queue[o], sid[t])]
  BY DEF StartPush
<1>3. /\ Append(queue[o], sid[t]) \in Seq(Session)
      /\ Range(Append(queue[o], sid[t])) = Range(queue[o]) \cup {sid[t]}
      /\ IsInjective(Append(queue[o], sid[t]))
  BY <1>1, MemberLemma, PushLemma
<1>4. /\ queue' \in [Daemon -> Seq(Session)] /\ NoDuplicates' /\ QueueOwned'
      /\ \A x \in Session :
            x \in Range(queue'[Owner[x]]) <=>
               x \in Range(queue[Owner[x]]) \/ x = sid[t]
  <2> DEFINE r == Append(queue[o], sid[t])
  <2>1. \A x \in Range(r) : Owner[x] = o
    BY <1>1, <1>3, MemberLemma
  <2>2. /\ r \in Seq(Session) /\ IsInjective(r)
        /\ Range(r) = Range(queue[o]) \cup {sid[t]}
        /\ queue' = [queue EXCEPT ![o] = r]
    BY <1>2, <1>3
  <2> HIDE DEF r, o
  <2>3. /\ queue' \in [Daemon -> Seq(Session)] /\ NoDuplicates' /\ QueueOwned'
        /\ \A x \in Session :
              x \in Range(queue'[Owner[x]]) <=>
                 IF Owner[x] = o THEN x \in Range(r)
                                 ELSE x \in Range(queue[Owner[x]])
    BY <1>1, <2>1, <2>2, QueueLemma
  <2>4. Owner[sid[t]] = o
    BY DEF o
  <2> QED  BY <2>2, <2>3, <2>4
<1>5. /\ Return(t)
      /\ UNCHANGED <<sessions, cancelFlag, fresh, recorded, issued, handed, sweep>>
  BY DEF StartPush
<1>a. /\ pc'[t] = "idle" /\ sid'[t] = NoSession
      /\ \A u \in Task \ {t} : pc'[u] = pc[u] /\ sid'[u] = sid[u]
  BY <1>5 DEF IInv, TypeOK, Return
<1>6. TypeOK'
  BY <1>1, <1>4, <1>5, NullAssumption DEF IInv, Return, sweep, TypeOK,
     LocalsSet, StartIsPrivate, Active, Labels
<1>7. LocalsSet'
  BY <1>1, <1>4, <1>5, NullAssumption DEF IInv, Return, sweep, TypeOK,
     LocalsSet, StartIsPrivate
<1>8. TrackedIsQueued'
  BY <1>1, <1>4, <1>5, NullAssumption DEF IInv, Return, sweep, TypeOK,
     LocalsSet, StartIsPrivate, TrackedIsQueued, Tracked, Queued
<1>9. StartIsPrivate'
  <2> SUFFICES ASSUME NEW u \in Task, pc'[u] = "start_push"
               PROVE  /\ sid'[u] \notin handed'
                      /\ sid'[u] \notin Queued(Owner[sid[u]])'
                      /\ \A v \in Task : v # u /\ sid'[v] = sid'[u] =>
                             pc'[v] \in {"cancel_pending", "cancel_flag"}
    BY DEF StartIsPrivate
  <2>1. /\ u # t /\ pc[u] = "start_push" /\ sid'[u] = sid[u] /\ sid[u] \in Session
        /\ sid[u] # sid[t]
    BY <1>1, <1>a DEF IInv, LocalsSet, StartIsPrivate
  <2>2. sid[u] \notin Range(queue'[Owner[sid[u]]])
    BY <1>4, <2>1 DEF IInv, StartIsPrivate, Queued
  <2>3. ASSUME NEW v \in Task, v # u, sid'[v] = sid'[u]
        PROVE  pc'[v] \in {"cancel_pending", "cancel_flag"}
    BY <1>a, <2>1, <2>3, NullAssumption DEF IInv, StartIsPrivate
  <2> QED
    BY <1>5, <2>1, <2>2, <2>3 DEF IInv, StartIsPrivate, Queued
<1>10. InUseIsIssued'
  BY <1>1, <1>4, <1>5, NullAssumption DEF IInv, Return, sweep, TypeOK,
     LocalsSet, StartIsPrivate, InUseIsIssued, Tracked, Queued
<1>11. GhostsStayDead'
  <2> SUFFICES ASSUME NEW s \in Session, s \in Range(queue'[Owner[s]]), ~Tracked(s)'
               PROVE  /\ s \notin handed
                      /\ \A u \in Task : pc'[u] \in Selecting => sid'[u] # s
    BY <1>5 DEF GhostsStayDead, Queued
  <2>1. ~Tracked(s)
    BY <1>5 DEF Tracked
  <2>2. CASE s = sid[t]
    BY <1>1, <1>a, <2>2 DEF IInv, StartIsPrivate, Selecting
  <2>3. CASE s # sid[t]
    BY <1>4, <1>a, <2>1, <2>3 DEF IInv, GhostsStayDead, Queued, Selecting
  <2> QED
    BY <2>2, <2>3
<1>12. TimedWasHanded'
  BY <1>1, <1>4, <1>5, NullAssumption DEF IInv, Return, sweep, TypeOK,
     LocalsSet, StartIsPrivate, TimedWasHanded
<1>13. ReportedIsTimed'
  BY <1>1, <1>4, <1>5, NullAssumption DEF IInv, Return, sweep, TypeOK,
     LocalsSet, StartIsPrivate, ReportedIsTimed, Reported
<1>14. RecordedWasHanded'
  BY <1>1, <1>4, <1>5, NullAssumption DEF IInv, Return, sweep, TypeOK,
     LocalsSet, StartIsPrivate, RecordedWasHanded
<1> QED  BY <1>4, <1>6, <1>7, <1>8, <1>9, <1>10, <1>11, <1>12, <1>13, <1>14 DEF IInv

(* A recreated session is pushed; it was handed out, so it was not queued. *)
LEMMA UpdateProgressStep ==
    ASSUME IInv, NEW s \in Session, NEW phase, UpdateProgress(s, phase)
    PROVE  IInv'
<1> DEFINE o == Owner[s]
<1>1. /\ s \in handed /\ o \in Daemon /\ phase \in Reported
      /\ ~Tracked(s) => s \notin Range(queue[o])
      /\ Tracked(s) => s \in Range(queue[o])
  BY OwnerAssumption DEF IInv, GhostsStayDead, TrackedIsQueued, StartIsPrivate, UpdateProgress, Queued
<1>2. queue' = [queue EXCEPT ![o] = AutoQueue(s)]
  BY DEF UpdateProgress
<1>3. /\ AutoQueue(s) \in Seq(Session)
      /\ Range(AutoQueue(s)) = Range(queue[o]) \cup {s}
      /\ IsInjective(AutoQueue(s))
  BY <1>1, MemberLemma, PushLemma DEF AutoQueue
<1>4. /\ queue' \in [Daemon -> Seq(Session)] /\ NoDuplicates' /\ QueueOwned'
      /\ \A x \in Session :
            x \in Range(queue'[Owner[x]]) <=>
               x \in Range(queue[Owner[x]]) \/ x = s
  <2>1. \A x \in Range(AutoQueue(s)) : Owner[x] = o
    BY <1>1, <1>3, MemberLemma
  <2>2. /\ queue' \in [Daemon -> Seq(Session)] /\ NoDuplicates' /\ QueueOwned'
        /\ \A x \in Session :
              x \in Range(queue'[Owner[x]]) <=>
                 IF Owner[x] = o THEN x \in Range(AutoQueue(s))
                                 ELSE x \in Range(queue[Owner[x]])
    BY <1>1, <1>2, <1>3, <2>1, QueueLemma
  <2> QED  BY <1>3, <2>2
<1>5. /\ fresh' = [fresh EXCEPT ![s] = "recent"]
      /\ sessions' = [sessions EXCEPT ![s] = phase]
      /\ UNCHANGED <<cancelFlag, recorded, issued, handed, task, sweep>>
  BY DEF UpdateProgress
<1>6. TypeOK'
  BY <1>1, <1>4, <1>5, NullAssumption DEF IInv, task, sweep, TypeOK,
     LocalsSet, StartIsPrivate, Reported, Active, Labels
<1>7. LocalsSet'
  BY <1>1, <1>4, <1>5, NullAssumption DEF IInv, task, sweep, TypeOK,
     LocalsSet, StartIsPrivate, Reported
<1>8. TrackedIsQueued'
  BY <1>1, <1>4, <1>5, NullAssumption DEF IInv, task, sweep, TypeOK,
     LocalsSet, StartIsPrivate, Reported, TrackedIsQueued, Tracked, Queued
<1>9. StartIsPrivate'
  BY <1>1, <1>4, <1>5, NullAssumption DEF IInv, task, sweep, TypeOK,
     LocalsSet, StartIsPrivate, Reported, Queued
<1>10. InUseIsIssued'
  BY <1>1, <1>4, <1>5, NullAssumption DEF IInv, task, sweep, TypeOK,
     LocalsSet, StartIsPrivate, Reported, InUseIsIssued, Tracked, Queued
<1>11. GhostsStayDead'
  BY <1>1, <1>4, <1>5, NullAssumption DEF IInv, task, sweep, TypeOK,
     LocalsSet, StartIsPrivate, Reported, GhostsStayDead, Queued, Tracked,
     Selecting
<1>12. TimedWasHanded'
  BY <1>1, <1>4, <1>5, NullAssumption DEF IInv, task, sweep, TypeOK,
     LocalsSet, StartIsPrivate, Reported, TimedWasHanded
<1>13. ReportedIsTimed'
  BY <1>1, <1>4, <1>5, NullAssumption DEF IInv, task, sweep, TypeOK,
     LocalsSet, StartIsPrivate, Reported, ReportedIsTimed
<1>14. RecordedWasHanded'
  BY <1>1, <1>4, <1>5, NullAssumption DEF IInv, task, sweep, TypeOK,
     LocalsSet, StartIsPrivate, Reported, RecordedWasHanded
<1> QED  BY <1>4, <1>6, <1>7, <1>8, <1>9, <1>10, <1>11, <1>12, <1>13, <1>14 DEF IInv

(* The session leaves its map and its queue together. *)
LEMMA UpdateTerminalStep ==
    ASSUME IInv, NEW s \in Session, UpdateTerminal(s)
    PROVE  IInv'
<1> DEFINE o == Owner[s]
           rest == Retain(AutoQueue(s), s)
<1>1. /\ s \in handed /\ o \in Daemon
      /\ ~Tracked(s) => s \notin Range(queue[o])
  BY OwnerAssumption DEF IInv, GhostsStayDead, UpdateTerminal, Queued
<1>2. queue' = [queue EXCEPT ![o] = rest]
  BY DEF UpdateTerminal
<1>3. /\ AutoQueue(s) \in Seq(Session)
      /\ Range(AutoQueue(s)) \in {Range(queue[o]), Range(queue[o]) \cup {s}}
      /\ IsInjective(AutoQueue(s))
  BY <1>1, MemberLemma, PushLemma DEF AutoQueue
<1>4. /\ rest \in Seq(Session)
      /\ Range(rest) = Range(queue[o]) \ {s}
      /\ IsInjective(rest)
  BY <1>3, RetainLemma
<1>5. /\ queue' \in [Daemon -> Seq(Session)] /\ NoDuplicates' /\ QueueOwned'
      /\ \A x \in Session :
            x \in Range(queue'[Owner[x]]) <=>
               x \in Range(queue[Owner[x]]) /\ x # s
  <2>1. \A x \in Range(rest) : Owner[x] = o
    BY <1>1, <1>4, MemberLemma
  <2>2. /\ queue' \in [Daemon -> Seq(Session)] /\ NoDuplicates' /\ QueueOwned'
        /\ \A x \in Session :
              x \in Range(queue'[Owner[x]]) <=>
                 IF Owner[x] = o THEN x \in Range(rest)
                                 ELSE x \in Range(queue[Owner[x]])
    BY <1>1, <1>2, <1>4, <2>1, QueueLemma
  <2> QED  BY <1>4, <2>2
<1>6. /\ sessions' \in [Session -> {"none", "Pending"} \cup Active]
      /\ sessions'[s] = "none"
      /\ \A x \in Session \ {s} :
            /\ sessions'[x] # "none" <=> sessions[x] # "none"
            /\ sessions'[x] \in {sessions[x], "Pending"}
  BY DEF IInv, TypeOK, UpdateTerminal, Tracked
<1>7. /\ fresh' = [fresh EXCEPT ![s] = "recent"]
      /\ cancelFlag' = [cancelFlag EXCEPT ![o] = NoSession]
      /\ Record(s)
      /\ UNCHANGED <<issued, handed, task, sweep>>
  BY DEF UpdateTerminal
<1>8. TypeOK'
  BY <1>1, <1>5, <1>6, <1>7, NullAssumption DEF IInv, Record, task, sweep,
     TypeOK, LocalsSet, StartIsPrivate, Active, Labels
<1>9. LocalsSet'
  BY <1>1, <1>5, <1>6, <1>7, NullAssumption DEF IInv, Record, task, sweep,
     TypeOK, LocalsSet, StartIsPrivate
<1>10. TrackedIsQueued'
  BY <1>1, <1>5, <1>6, <1>7, NullAssumption DEF IInv, Record, task, sweep,
     TypeOK, LocalsSet, StartIsPrivate, TrackedIsQueued, Tracked, Queued
<1>11. StartIsPrivate'
  BY <1>1, <1>5, <1>6, <1>7, NullAssumption DEF IInv, Record, task, sweep,
     TypeOK, LocalsSet, StartIsPrivate, Queued
<1>12. InUseIsIssued'
  BY <1>1, <1>5, <1>6, <1>7, NullAssumption DEF IInv, Record, task, sweep,
     TypeOK, LocalsSet, StartIsPrivate, InUseIsIssued, Tracked, Queued
<1>13. GhostsStayDead'
  BY <1>1, <1>5, <1>6, <1>7, NullAssumption DEF IInv, Record, task, sweep,
     TypeOK, LocalsSet, StartIsPrivate, GhostsStayDead, Queued, Tracked,
     Selecting
<1>14. TimedWasHanded'
  BY <1>1, <1>5, <1>6, <1>7, NullAssumption DEF IInv, Record, task, sweep,
     TypeOK, LocalsSet, StartIsPrivate, TimedWasHanded
<1>15. ReportedIsTimed'
  BY <1>1, <1>5, <1>6, <1>7, NullAssumption DEF IInv, Record, task, sweep,
     TypeOK, LocalsSet, StartIsPrivate, ReportedIsTimed, Reported
<1>16. RecordedWasHanded'
  BY <1>1, <1>5, <1>6, <1>7, NullAssumption DEF IInv, Record, task, sweep,
     TypeOK, LocalsSet, StartIsPrivate, RecordedWasHanded
<1> QED  BY <1>5, <1>8, <1>9, <1>10, <1>11, <1>12, <1>13, <1>14, <1>15,
     <1>16 DEF IInv

(* Whatever the session has become, it leaves map and queue together. *)
LEMMA CancelPendingStep ==
    ASSUME IInv, NEW t \in Task, CancelPending(t)
    PROVE  IInv'
<1> DEFINE o == Owner[sid[t]]
           rest == Retain(queue[o], sid[t])
<1>1. pc[t] = "cancel_pending" /\ sid[t] \in Session /\ o \in Daemon
  BY OwnerAssumption DEF IInv, LocalsSet, CancelPending
<1>2. queue' = [queue EXCEPT ![o] = rest]
  BY DEF CancelPending
<1>3. /\ rest \in Seq(Session)
      /\ Range(rest) = Range(queue[o]) \ {sid[t]}
      /\ IsInjective(rest)
  BY <1>1, MemberLemma, RetainLemma
<1> HIDE DEF rest
<1>4. /\ queue' \in [Daemon -> Seq(Session)] /\ NoDuplicates' /\ QueueOwned'
      /\ \A x \in Session :
            x \in Range(queue'[Owner[x]]) <=>
               x \in Range(queue[Owner[x]]) /\ x # sid[t]
  <2>1. \A x \in Range(rest) : Owner[x] = o
    BY <1>1, <1>3, MemberLemma
  <2>2. /\ queue' \in [Daemon -> Seq(Session)] /\ NoDuplicates' /\ QueueOwned'
        /\ \A x \in Session :
              x \in Range(queue'[Owner[x]]) <=>
                 IF Owner[x] = o THEN x \in Range(rest)
                                 ELSE x \in Range(queue[Owner[x]])
    BY <1>1, <1>2, <1>3, <2>1, QueueLemma
  <2> QED  BY <1>3, <2>2
<1>5. /\ sessions' = [sessions EXCEPT ![sid[t]] = "none"]
      /\ Return(t)
      /\ UNCHANGED <<cancelFlag, fresh, recorded, issued, handed, sweep>>
  BY DEF CancelPending
<1>6. TypeOK'
  BY <1>1, <1>4, <1>5, NullAssumption DEF IInv, Return, sweep, TypeOK,
     LocalsSet, StartIsPrivate, Active, Labels
<1>7. LocalsSet'
  BY <1>1, <1>4, <1>5, NullAssumption DEF IInv, Return, sweep, TypeOK,
     LocalsSet, StartIsPrivate
<1>8. TrackedIsQueued'
  BY <1>1, <1>4, <1>5, NullAssumption DEF IInv, Return, sweep, TypeOK,
     LocalsSet, StartIsPrivate, TrackedIsQueued, Tracked, Queued
<1>9. StartIsPrivate'
  BY <1>1, <1>4, <1>5, NullAssumption DEF IInv, Return, sweep, TypeOK,
     LocalsSet, StartIsPrivate, Queued
<1>10. InUseIsIssued'
  BY <1>1, <1>4, <1>5, NullAssumption DEF IInv, Return, sweep, TypeOK,
     LocalsSet, StartIsPrivate, InUseIsIssued, Tracked, Queued
<1>11. GhostsStayDead'
  BY <1>1, <1>4, <1>5, NullAssumption DEF IInv, Return, sweep, TypeOK,
     LocalsSet, StartIsPrivate, GhostsStayDead, Queued, Tracked, Selecting
<1>12. TimedWasHanded'
  BY <1>1, <1>4, <1>5, NullAssumption DEF IInv, Return, sweep, TypeOK,
     LocalsSet, StartIsPrivate, TimedWasHanded
<1>13. ReportedIsTimed'
  BY <1>1, <1>4, <1>5, NullAssumption DEF IInv, Return, sweep, TypeOK,
     LocalsSet, StartIsPrivate, ReportedIsTimed, Reported
<1>14. RecordedWasHanded'
  BY <1>1, <1>4, <1>5, NullAssumption DEF IInv, Return, sweep, TypeOK,
     LocalsSet, StartIsPrivate, RecordedWasHanded
<1> QED  BY <1>4, <1>6, <1>7, <1>8, <1>9, <1>10, <1>11, <1>12, <1>13, <1>14 DEF IInv

(* A swept session leaves all four maps together. *)
LEMMA SweepTrackedStep ==
    ASSUME IInv, NEW s \in Session, CleanupSweep(s), Tracked(s)
    PROVE  IInv'
<1> DEFINE o == Owner[s]
           rest == Retain(queue[o], s)
<1>1. s \in handed /\ o \in Daemon
  BY OwnerAssumption DEF IInv, TimedWasHanded, CleanupSweep
<1>2. queue' = [queue EXCEPT ![o] = rest]
  BY DEF CleanupSweep
<1>3. /\ rest \in Seq(Session)
      /\ Range(rest) = Range(queue[o]) \ {s}
      /\ IsInjective(rest)
  BY <1>1, MemberLemma, RetainLemma
<1> HIDE DEF rest
<1>4. /\ queue' \in [Daemon -> Seq(Session)] /\ NoDuplicates' /\ QueueOwned'
      /\ \A x \in Session :
            x \in Range(queue'[Owner[x]]) <=>
               x \in Range(queue[Owner[x]]) /\ x # s
  <2>1. \A x \in Range(rest) : Owner[x] = o
    BY <1>1, <1>3, MemberLemma
  <2>2. /\ queue' \in [Daemon -> Seq(Session)] /\ NoDuplicates' /\ QueueOwned'
        /\ \A x \in Session :
              x \in Range(queue'[Owner[x]]) <=>
                 IF Owner[x] = o THEN x \in Range(rest)
                                 ELSE x \in Range(queue[Owner[x]])
    BY <1>1, <1>2, <1>3, <2>1, QueueLemma
  <2> QED  BY <1>3, <2>2
<1>5. /\ sessions' = [sessions EXCEPT ![s] = "none"]
      /\ fresh' = [fresh EXCEPT ![s] = "unseen"]
      /\ cancelFlag' \in {cancelFlag, [cancelFlag EXCEPT ![o] = NoSession]}
      /\ Record(s)
      /\ stalled' = stalled \ {s}
      /\ UNCHANGED <<issued, handed, task, cleanup, toRequest>>
  BY DEF CleanupSweep
<1>6. TypeOK'
  BY <1>1, <1>4, <1>5, NullAssumption DEF IInv, Record, task, TypeOK,
     LocalsSet, StartIsPrivate, Active, Labels, sweep
<1>7. LocalsSet'
  BY <1>1, <1>4, <1>5, NullAssumption DEF IInv, Record, task, TypeOK,
     LocalsSet, StartIsPrivate
<1>8. TrackedIsQueued'
  BY <1>1, <1>4, <1>5, NullAssumption DEF IInv, Record, task, TypeOK,
     LocalsSet, StartIsPrivate, TrackedIsQueued, Tracked, Queued
<1>9. StartIsPrivate'
  BY <1>1, <1>4, <1>5, NullAssumption DEF IInv, Record, task, TypeOK,
     LocalsSet, StartIsPrivate, Queued
<1>10. InUseIsIssued'
  BY <1>1, <1>4, <1>5, NullAssumption DEF IInv, Record, task, TypeOK,
     LocalsSet, StartIsPrivate, InUseIsIssued, Tracked, Queued
<1>11. GhostsStayDead'
  BY <1>1, <1>4, <1>5, NullAssumption DEF IInv, Record, task, TypeOK,
     LocalsSet, StartIsPrivate, GhostsStayDead, Queued, Tracked, Selecting
<1>12. TimedWasHanded'
  BY <1>1, <1>4, <1>5, NullAssumption DEF IInv, Record, task, TypeOK,
     LocalsSet, StartIsPrivate, TimedWasHanded
<1>13. ReportedIsTimed'
  BY <1>1, <1>4, <1>5, NullAssumption DEF IInv, Record, task, TypeOK,
     LocalsSet, StartIsPrivate, ReportedIsTimed, Reported
<1>14. RecordedWasHanded'
  BY <1>1, <1>4, <1>5, NullAssumption DEF IInv, Record, task, TypeOK,
     LocalsSet, StartIsPrivate, RecordedWasHanded
<1> QED  BY <1>4, <1>6, <1>7, <1>8, <1>9, <1>10, <1>11, <1>12, <1>13, <1>14 DEF IInv

(* A session that has left the map by itself is only crossed off. *)
LEMMA SweepGoneStep ==
    ASSUME IInv, NEW s \in Session, CleanupSweep(s), ~Tracked(s)
    PROVE  IInv'
<1>1. /\ stalled' = stalled \ {s}
      /\ UNCHANGED <<maps, recorded, issued, handed, task, toRequest, cleanup>>
  BY DEF CleanupSweep
<1>2. TypeOK' /\ TimedWasHanded'
  BY <1>1 DEF IInv, TypeOK, TimedWasHanded, maps, task
<1>3. LocalsSet' /\ QueueOwned' /\ NoDuplicates' /\ TrackedIsQueued'
  BY <1>1 DEF IInv, LocalsSet, QueueOwned, NoDuplicates, TrackedIsQueued,
              Tracked, Queued, maps, task
<1>4. StartIsPrivate' /\ InUseIsIssued' /\ GhostsStayDead' /\ ReportedIsTimed'
      /\ RecordedWasHanded'
  BY <1>1 DEF IInv, StartIsPrivate, InUseIsIssued, GhostsStayDead, Selecting,
              ReportedIsTimed, RecordedWasHanded, Tracked, Queued, maps, task
<1> QED  BY <1>2, <1>3, <1>4 DEF IInv

(* Nothing volatile is left to be inconsistent. *)
LEMMA RestartStep ==
    ASSUME IInv, Restart
    PROVE  IInv'
<1>1. /\ \A d \in Daemon : queue'[d] = <<>>
      /\ Range(<<>>) = {} /\ IsInjective(<<>>)
  BY DEF Restart, Range, IsInjective
<1>2. \A s \in Session : sessions'[s] = "none" /\ fresh'[s] = "unseen"
  BY DEF Restart
<1>3. \A t \in Task : pc'[t] = "idle" /\ sid'[t] = NoSession
  BY DEF Restart
<1>4. TypeOK'
  BY DEF IInv, TypeOK, Restart, Labels
<1>5. LocalsSet' /\ StartIsPrivate'
  BY <1>3 DEF LocalsSet, StartIsPrivate
<1>6. QueueOwned' /\ NoDuplicates'
  BY <1>1 DEF QueueOwned, NoDuplicates, Queued
<1>7. TrackedIsQueued' /\ ReportedIsTimed'
  BY <1>2 DEF TrackedIsQueued, ReportedIsTimed, Tracked, Reported
<1>8. InUseIsIssued'
  <2>1. \A s \in Session : s \notin Queued(Owner[s])'
    BY <1>1, OwnerAssumption DEF Queued
  <2> QED  BY <1>2, <1>3, <2>1 DEF IInv, InUseIsIssued, Tracked, Restart
<1>9. GhostsStayDead'
  BY <1>1, OwnerAssumption DEF GhostsStayDead, Queued
<1>10. TimedWasHanded' /\ RecordedWasHanded'
  BY <1>2 DEF IInv, TimedWasHanded, RecordedWasHanded, Restart
<1> QED  BY <1>4, <1>5, <1>6, <1>7, <1>8, <1>9, <1>10 DEF IInv

-----------------------------------------------------------------------------
(* The invariant *)

(* The empty registry satisfies the invariant. *)
LEMMA InitIInv == SInit => IInv
<1> SUFFICES ASSUME SInit PROVE IInv
  OBVIOUS
<1>1. /\ \A d \in Daemon : queue[d] = <<>>
      /\ Range(<<>>) = {} /\ IsInjective(<<>>)
  BY DEF SInit, Range, IsInjective
<1>2. TypeOK
  BY DEF SInit, TypeOK, Labels
<1>3. LocalsSet /\ StartIsPrivate
  BY DEF SInit, LocalsSet, StartIsPrivate
<1>4. QueueOwned /\ NoDuplicates
  BY <1>1 DEF QueueOwned, NoDuplicates, Queued
<1>5. TrackedIsQueued /\ ReportedIsTimed /\ TimedWasHanded /\ RecordedWasHanded
  BY DEF SInit, TrackedIsQueued, ReportedIsTimed, TimedWasHanded,
         RecordedWasHanded, Tracked, Reported
<1>6. InUseIsIssued /\ GhostsStayDead
  <2>1. \A s \in Session : s \notin Queued(Owner[s])
    BY <1>1, OwnerAssumption DEF Queued
  <2> QED  BY <2>1 DEF SInit, InUseIsIssued, GhostsStayDead, Tracked
<1> QED  BY <1>2, <1>3, <1>4, <1>5, <1>6 DEF IInv

(* The invariant speaks of nothing but the registry's variables. *)
LEMMA StutterIInv == IInv /\ UNCHANGED svars => IInv'
  BY DEF IInv, svars, maps, task, sweep, TypeOK, LocalsSet, QueueOwned,
         NoDuplicates, TrackedIsQueued, StartIsPrivate, InUseIsIssued,
         GhostsStayDead, TimedWasHanded, ReportedIsTimed, RecordedWasHanded,
         Tracked, Queued

(* Every lock section, update, sweep and restart preserves the invariant. *)
LEMMA NextIInv == IInv /\ [SNext]_svars => IInv'
<1> SUFFICES ASSUME IInv, [SNext]_svars PROVE IInv'
  OBVIOUS
<1>1. ASSUME NEW t \in Task, Handle(t) PROVE IInv'
  BY <1>1, StartInsertStep, StartPushStep, PollCheckActiveStep, PollSelectStep,
     PollTransitionStep, PollReplyStep, CancelReadStep, CancelPendingStep,
     CancelFlagStep DEF Handle
<1>2. ASSUME NEW s \in Session, Receive(s) PROVE IInv'
  BY <1>2, UpdateProgressStep, UpdateRedundantStep, UpdateTerminalStep DEF Receive
<1>3. ASSUME NEW s \in Session, Age(s) PROVE IInv'
  BY <1>3, AgeStep
<1>4. ASSUME Cleanup PROVE IInv'
  BY <1>4, CleanupScanStep, CleanupLockStep, CleanupRequestStep DEF Cleanup
<1>5. ASSUME Sweep PROVE IInv'
  BY <1>5, SweepTrackedStep, SweepGoneStep, CleanupEvictStep DEF Sweep
<1>6. ASSUME Restart PROVE IInv'
  BY <1>6, RestartStep
<1>7. ASSUME UNCHANGED svars PROVE IInv'
  BY <1>7, StutterIInv
<1> QED  BY <1>1, <1>2, <1>3, <1>4, <1>5, <1>6, <1>7 DEF SNext

(* The registry never forgets that it handed a session out. *)
LEMMA HandedGrows ==
    ASSUME [SNext]_svars
    PROVE  handed \subseteq handed'
  <1>1. ASSUME NEW t \in Task, Handle(t)
        PROVE  handed \subseteq handed'
    BY <1>1 DEF Handle, StartInsert, CancelRead, PollCheckActive, StartPush,
                PollSelect, PollTransition, PollReply, CancelPending, CancelFlag
  <1>2. ASSUME NEW s \in Session, Receive(s) \/ Age(s)
        PROVE  handed' = handed
    BY <1>2 DEF Receive, UpdateProgress, UpdateRedundant, UpdateTerminal, Age
  <1>3. CASE Cleanup
    BY <1>3 DEF Cleanup, CleanupScan, CleanupLock, CleanupRequest
  <1>4. CASE Sweep
    BY <1>4 DEF Sweep, CleanupSweep, CleanupEvict
  <1>5. CASE Restart \/ UNCHANGED svars
    BY <1>5 DEF Restart, svars
  <1> QED
    BY <1>1, <1>2, <1>3, <1>4, <1>5 DEF SNext

(* An active session is in its daemon's queue: a start_session call that   *)
(* has yet to push it would find it Pending.                               *)
LEMMA ActiveIsQueued ==
    ASSUME IInv, NEW s \in Session, sessions[s] \in Active,
           \A t \in Task : pc[t] = "start_push" => sessions[sid[t]] = "Pending"
    PROVE  \E i \in 1 .. Len(queue[Owner[s]]) : queue[Owner[s]][i] = s
  <1>1. TypeOK /\ TrackedIsQueued
    BY DEF IInv
  <1>2. ~ \E t \in Task : pc[t] = "start_push" /\ sid[t] = s
    BY DEF Active, Reported
  <1>3. s \in Queued(Owner[s])
    BY <1>1, <1>2 DEF TrackedIsQueued, Tracked, Active, Reported
  <1>4. Owner[s] \in Daemon
    BY OwnerAssumption
  <1>5. queue[Owner[s]] \in Seq(Session)
    BY <1>1, <1>4 DEF TypeOK
  <1> QED
    BY <1>3, <1>5 DEF Queued, Range

(* A terminal update takes its session out of the registry and puts the    *)
(* new head of the daemon's queue back to Pending.                         *)
LEMMA TerminalTouches ==
    ASSUME IInv, NEW s \in Session, Tracked(s), UpdateTerminal(s)
    PROVE  /\ sessions'[s] = "none"
           /\ \A x \in Session \ {s} :
                 \/ sessions'[x] = sessions[x]
                 \/ Owner[x] = Owner[s] /\ Tracked(x) /\ sessions'[x] = "Pending"
  <1> DEFINE d == Owner[s]
             rest == Retain(AutoQueue(s), s)
             next == IF rest = <<>> THEN NoSession ELSE rest[1]
  <1>1. TypeOK /\ QueueOwned /\ NoDuplicates
    BY DEF IInv
  <1>2. d \in Daemon
    BY OwnerAssumption
  <1>3. AutoQueue(s) = queue[d]
    BY DEF AutoQueue
  <1>4. queue[d] \in Seq(Session) /\ IsInjective(queue[d])
    BY <1>1, <1>2 DEF TypeOK, NoDuplicates
  <1>5. rest \in Seq(Session) /\ Range(rest) = Queued(d) \ {s}
    BY <1>3, <1>4, RetainLemma DEF Queued
  <1>6. sessions' = [x \in Session |->
                       IF x = s THEN "none"
                       ELSE IF x = next /\ Tracked(x) THEN "Pending"
                       ELSE sessions[x]]
    BY DEF UpdateTerminal
  <1>7. ASSUME NEW x \in Session, x # s, x = next
        PROVE  Owner[x] = d
    <2>1. x \in Range(rest)
      <3> HIDE DEF rest
      <3> QED
        BY <1>5, <1>7, NullAssumption DEF Range
    <2> QED
      BY <1>1, <1>2, <1>5, <2>1 DEF QueueOwned
  <1> HIDE DEF next
  <1> QED
    BY <1>6, <1>7

(* If no other session of the daemon is active, the head was Pending and   *)
(* only the session of the update changes.                                 *)
LEMMA TerminalIsLocal ==
    ASSUME IInv, NEW s \in Session, Tracked(s),
           \A x \in Session \ {s} : Owner[x] = Owner[s] => sessions[x] \notin Active,
           UpdateTerminal(s)
    PROVE  /\ sessions'[s] = "none"
           /\ \A x \in Session \ {s} : sessions'[x] = sessions[x]
  <1>1. TypeOK
    BY DEF IInv
  <1>2. \A x \in Session \ {s} : Owner[x] = Owner[s] /\ Tracked(x) => sessions[x] = "Pending"
    BY <1>1 DEF TypeOK, Tracked
  <1> QED
    BY <1>2, TerminalTouches

(***************************************************************************)
(* The invariant holds in every state the registry can reach.              *)
(***************************************************************************)
THEOREM Invariance == SSpec => []IInv
  BY InitIInv, NextIInv, PTL DEF SSpec

(* The maps, and the locals of every handler, keep their types. *)
THEOREM TypeCorrect == SSpec => []TypeOK
<1>1. IInv => TypeOK
  BY DEF IInv
<1> QED  BY <1>1, Invariance, PTL

(***************************************************************************)
(* However starts, cancels, polls, updates, sweeps and restarts interleave *)
(* no tracked session is stranded outside the queue it is dispatched from. *)
(***************************************************************************)
THEOREM NothingStranded == SSpec => []TrackedIsQueued
<1>1. IInv => TrackedIsQueued
  BY DEF IInv
<1> QED  BY <1>1, Invariance, PTL

(* No id is ever queued twice, so that Retain is what Vec::retain does. *)
THEOREM QueuedOnce == SSpec => []NoDuplicates
<1>1. IInv => NoDuplicates
  BY DEF IInv
<1> QED  BY <1>1, Invariance, PTL

(* An id left in a queue by a cancelled start is never given to a daemon. *)
THEOREM GhostsNeverServed == SSpec => []GhostsStayDead
<1>1. IInv => GhostsStayDead
  BY DEF IInv
<1> QED  BY <1>1, Invariance, PTL

(* A session its daemon has reported can always time out. *)
THEOREM StallCoverage == SSpec => []ReportedIsTimed
<1>1. IInv => ReportedIsTimed
  BY DEF IInv
<1> QED  BY <1>1, Invariance, PTL

(* The history only speaks of sessions that were given to a daemon. *)
THEOREM HistoryIsEarned == SSpec => []RecordedWasHanded
<1>1. IInv => RecordedWasHanded
  BY DEF IInv
<1> QED  BY <1>1, Invariance, PTL

-----------------------------------------------------------------------------
(* Sessions that wait *)

(***************************************************************************)
(* A session that no daemon was given stays Pending until a user cancels   *)
(* it, a poll takes it or the server restarts: no other session's update,  *)
(* end or sweep touches it.                                                *)
(***************************************************************************)
THEOREM WaitingSafe == SSpec => WaitingIsSafe
<1> DEFINE Leaves(s) ==
               /\ sessions[s] = "Pending" /\ s \notin handed
               /\ sessions'[s] # "Pending"
           Allowed(s) ==
               \/ /\ sessions'[s] = "none"
                  /\ \E t \in Task : pc[t] = "cancel_pending" /\ sid[t] = s
               \/ /\ sessions'[s] = "Starting"
                  /\ \E t \in Task : pc[t] = "poll_transition" /\ sid[t] = s
               \/ Restart
<1>1. ASSUME IInv, SNext, NEW s \in Session, Leaves(s)
      PROVE  Allowed(s)
  <2>1. ASSUME NEW t \in Task, Handle(t) PROVE Allowed(s)
    <3>1. CASE PollTransition(t)
      BY <1>1, <2>1, <3>1 DEF IInv, TypeOK, LocalsSet, PollTransition
    <3>2. CASE CancelPending(t)
      BY <1>1, <2>1, <3>2 DEF IInv, TypeOK, LocalsSet, CancelPending
    <3>3. ASSUME NEW x \in Session, StartInsert(t, x) PROVE Allowed(s)
      BY <1>1, <3>3 DEF IInv, TypeOK, StartInsert
    <3>4. CASE UNCHANGED sessions
      BY <1>1, <3>4
    <3> QED  BY <2>1, <3>1, <3>2, <3>3, <3>4
             DEF Handle, StartPush, PollCheckActive, PollSelect, PollReply,
                 CancelRead, CancelFlag, maps
  <2>2. ASSUME NEW x \in Session, Receive(x) PROVE Allowed(s)
    BY <1>1, <2>2
    DEF IInv, TypeOK, Receive, UpdateProgress, UpdateRedundant, UpdateTerminal
  <2>3. ASSUME NEW x \in Session, CleanupSweep(x) PROVE Allowed(s)
    BY <1>1, <2>3 DEF IInv, TypeOK, TimedWasHanded, CleanupSweep, maps
  <2>4. CASE UNCHANGED sessions
    BY <1>1, <2>4
  <2> QED  BY <1>1, <2>1, <2>2, <2>3, <2>4
           DEF SNext, Age, Cleanup, Sweep, CleanupScan, CleanupLock,
               CleanupRequest, CleanupEvict, maps
<1>2. ASSUME IInv, [SNext]_svars
      PROVE  [WaitingStep]_svars
  BY <1>1, <1>2 DEF WaitingStep
<1> QED  BY <1>2, Invariance, PTL DEF SSpec, WaitingIsSafe

-----------------------------------------------------------------------------
(* The registry implements SessionLifecycle *)

(* Two lives that differ in nothing, or in one session. *)
LEMMA LifeLemma ==
    ASSUME NEW s \in Session, NEW v,
           \A x \in Session : Life'[x] = IF x = s THEN v ELSE Life[x]
    PROVE  Life' = [Life EXCEPT ![s] = v]
  BY DEF Life

(* A step that changes neither what is tracked nor the ids maps to none. *)
LEMMA SameLife ==
    ASSUME UNCHANGED <<recorded, issued, handed>>,
           \A x \in Session : Tracked(x)' = Tracked(x)
    PROVE  UNCHANGED Promise!lifeVars
  BY DEF Promise!lifeVars, Life

(* A handler's step is a request, a withdrawal, a dispatch or nothing. *)
LEMMA HandleImplements ==
    ASSUME IInv, NEW t \in Task, Handle(t)
    PROVE  [Promise!Next]_Promise!lifeVars
<1>1. ASSUME NEW s \in Session, StartInsert(t, s) PROVE Promise!Request(s)
  <2>1. /\ ~Tracked(s) /\ s \notin handed /\ s \notin issued
        /\ \A x \in Session : Tracked(x)' = (x = s \/ Tracked(x))
    BY <1>1 DEF IInv, TypeOK, InUseIsIssued, StartInsert, Tracked
  <2>2. \A x \in Session : Life'[x] = IF x = s THEN "waiting" ELSE Life[x]
    BY <1>1, <2>1 DEF Life, StartInsert
  <2> QED  BY <1>1, <2>1, <2>2, LifeLemma
           DEF Promise!Request, Promise!Becomes, Life, StartInsert
<1>2. CASE PollTransition(t)
  <2>1. \A x \in Session : Tracked(x)' = Tracked(x)
    BY <1>2 DEF IInv, TypeOK, LocalsSet, PollTransition, Tracked
  <2> QED  BY <1>2, <2>1, SameLife DEF PollTransition
<1>3. CASE PollReply(t)
  <2>1. CASE sid[t] \in handed \/ sid[t] = NoSession
    BY <1>3, <2>1, SameLife DEF PollReply, Tracked
  <2>2. CASE sid[t] \notin handed /\ sid[t] # NoSession
    <3> DEFINE s == sid[t]
    <3>1. s \in Session /\ s \in issued
      BY <2>2 DEF IInv, TypeOK, InUseIsIssued
    <3>2. Life[s] = IF Tracked(s) THEN "waiting" ELSE "withdrawn"
      BY <2>2, <3>1 DEF Life
    <3>3. \A x \in Session :
            Life'[x] = IF x = s THEN IF Tracked(s) THEN "running" ELSE "over"
                       ELSE Life[x]
      BY <1>3, <2>2, <3>1 DEF Life, PollReply, Tracked
    <3>4. Promise!Dispatch(s)
      BY <1>3, <3>1, <3>2, <3>3, LifeLemma
      DEF Promise!Dispatch, Promise!Becomes, PollReply
    <3> QED  BY <3>1, <3>4 DEF Promise!Next
  <2> QED  BY <2>1, <2>2
<1>4. CASE CancelPending(t)
  <2> DEFINE s == sid[t]
  <2>1. /\ s \in Session /\ s \in issued
        /\ \A x \in Session : Tracked(x)' = (x # s /\ Tracked(x))
        /\ UNCHANGED <<recorded, issued, handed>>
    BY <1>4, NullAssumption
    DEF IInv, TypeOK, LocalsSet, InUseIsIssued, CancelPending, Tracked
  <2>2. CASE ~Tracked(s)
    <3>1. \A x \in Session : Tracked(x)' = Tracked(x)
      BY <2>1, <2>2 DEF Tracked
    <3> QED  BY <2>1, <3>1, SameLife
  <2>3. CASE Tracked(s) /\ s \notin handed
    <3>1. /\ Life[s] = "waiting"
          /\ \A x \in Session : Life'[x] = IF x = s THEN "withdrawn" ELSE Life[x]
      BY <2>1, <2>3 DEF Life
    <3> QED  BY <2>1, <3>1, LifeLemma
             DEF Promise!Next, Promise!Withdraw, Promise!Becomes
  <2>4. CASE Tracked(s) /\ s \in handed
    <3>1. /\ Life[s] = "running"
          /\ \A x \in Session : Life'[x] = IF x = s THEN "over" ELSE Life[x]
      BY <2>1, <2>4 DEF Life
    <3> QED  BY <2>1, <3>1, LifeLemma
             DEF Promise!Next, Promise!End, Promise!Becomes
  <2> QED  BY <2>2, <2>3, <2>4
<1>5. CASE UNCHANGED <<sessions, recorded, issued, handed>>
  BY <1>5, SameLife DEF Tracked
<1> QED  BY <1>1, <1>2, <1>3, <1>4, <1>5
         DEF Handle, Promise!Next, StartPush, PollCheckActive, PollSelect,
             CancelRead, CancelFlag, maps

(* An update makes a dispatched session run again, ends it, or stores it. *)
LEMMA ReceiveImplements ==
    ASSUME IInv, NEW s \in Session, Receive(s)
    PROVE  [Promise!Next]_Promise!lifeVars
<1>1. s \in handed /\ s \in issued /\ UNCHANGED <<issued, handed>>
  BY DEF Receive, UpdateProgress, UpdateRedundant, UpdateTerminal, IInv, InUseIsIssued
<1>2. ASSUME NEW phase \in Reported, UpdateProgress(s, phase)
      PROVE  [Promise!Next]_Promise!lifeVars
  <2>1. /\ \A x \in Session : Tracked(x)' = (x = s \/ Tracked(x))
        /\ UNCHANGED recorded
    BY <1>2 DEF IInv, TypeOK, UpdateProgress, Tracked, Reported
  <2>2. CASE Tracked(s)
    <3>1. \A x \in Session : Tracked(x)' = Tracked(x)
      BY <2>1, <2>2 DEF Tracked
    <3> QED  BY <1>1, <2>1, <3>1, SameLife
  <2>3. CASE ~Tracked(s)
    <3>1. /\ Life[s] = "over"
          /\ \A x \in Session : Life'[x] = IF x = s THEN "running" ELSE Life[x]
      BY <1>1, <2>1, <2>3 DEF Life
    <3> QED  BY <2>1, <3>1, LifeLemma
             DEF Promise!Next, Promise!Return, Promise!Becomes
  <2> QED  BY <2>2, <2>3
<1>3. CASE UpdateRedundant(s)
  BY <1>3, SameLife DEF UpdateRedundant, Tracked
<1>4. CASE UpdateTerminal(s)
  <2>1. /\ \A x \in Session : Tracked(x)' = (x # s /\ Tracked(x))
        /\ recorded' \in {recorded, recorded \cup {s}}
    BY <1>4 DEF IInv, TypeOK, UpdateTerminal, Tracked, Record
  <2>2. CASE Tracked(s)
    <3>1. /\ Life[s] = "running"
          /\ \A x \in Session : Life'[x] = IF x = s THEN "over" ELSE Life[x]
      BY <1>1, <2>1, <2>2 DEF Life
    <3> QED  BY <2>1, <3>1, LifeLemma
             DEF Promise!Next, Promise!End, Promise!Becomes
  <2>3. CASE ~Tracked(s)
    <3>1. Life' = Life /\ Life[s] = "over"
      BY <1>1, <2>1, <2>3 DEF Life
    <3> QED  BY <2>1, <3>1
             DEF Promise!Next, Promise!StoreLate, Promise!lifeVars
  <2> QED  BY <2>2, <2>3
<1> QED  BY <1>2, <1>3, <1>4 DEF Receive

(* A swept session was dispatched, and ends. *)
LEMMA SweepImplements ==
    ASSUME IInv, Sweep
    PROVE  [Promise!Next]_Promise!lifeVars
<1>1. ASSUME NEW s \in Session, CleanupSweep(s)
      PROVE  [Promise!Next]_Promise!lifeVars
  <2>1. s \in handed /\ s \in issued /\ UNCHANGED <<issued, handed>>
    BY <1>1 DEF CleanupSweep, IInv, InUseIsIssued, TimedWasHanded
  <2>2. CASE Tracked(s)
    <3>1. /\ \A x \in Session : Tracked(x)' = (x # s /\ Tracked(x))
          /\ recorded' \in {recorded, recorded \cup {s}}
      BY <1>1, <2>2 DEF IInv, TypeOK, CleanupSweep, Tracked, Record
    <3>2. /\ Life[s] = "running"
          /\ \A x \in Session : Life'[x] = IF x = s THEN "over" ELSE Life[x]
      BY <2>1, <2>2, <3>1 DEF Life
    <3> QED  BY <3>1, <3>2, LifeLemma
             DEF Promise!Next, Promise!End, Promise!Becomes
  <2>3. CASE ~Tracked(s)
    BY <1>1, <2>1, <2>3, SameLife DEF CleanupSweep, maps, Tracked
  <2> QED  BY <2>2, <2>3
<1>2. CASE CleanupEvict
  BY <1>2, SameLife DEF CleanupEvict, Tracked
<1> QED  BY <1>1, <1>2 DEF Sweep

(* A restart forgets every session and keeps the rows. *)
LEMMA RestartImplements ==
    ASSUME IInv, Restart
    PROVE  Promise!Lose
<1>1. /\ \A s \in Session : ~Tracked(s)'
      /\ UNCHANGED <<recorded, issued, handed>>
  BY DEF Restart, Tracked
<1>2. \A s \in Session : Tracked(s) \/ s \in handed => s \in issued
  BY DEF IInv, InUseIsIssued
<1>3. \A s \in Session :
        Life'[s] = CASE Life[s] = "waiting" -> "withdrawn"
                     [] Life[s] = "running" -> "over"
                     [] OTHER -> Life[s]
  BY <1>1, <1>2 DEF Life
<1> QED  BY <1>1, <1>3 DEF Promise!Lose, Life

(***************************************************************************)
(* The registry implements the abstract life of a session, for every set   *)
(* of sessions, daemons and handlers.                                      *)
(***************************************************************************)
THEOREM Implements == SSpec => KeepsPromise
<1>1. SInit => Promise!Init
  BY DEF SInit, Promise!Init, Life
<1>2. ASSUME IInv, [SNext]_svars
      PROVE  [Promise!Next]_Promise!lifeVars
  <2>1. ASSUME NEW s \in Session, Age(s) PROVE UNCHANGED Promise!lifeVars
    BY <2>1, SameLife DEF Age, Tracked
  <2>2. ASSUME Cleanup PROVE UNCHANGED Promise!lifeVars
    BY <2>2, SameLife DEF Cleanup, CleanupScan, CleanupLock, CleanupRequest,
                          maps, Tracked
  <2>3. ASSUME Restart PROVE Promise!Next
    BY <1>2, <2>3, RestartImplements DEF Promise!Next
  <2>4. ASSUME UNCHANGED svars PROVE UNCHANGED Promise!lifeVars
    BY <2>4, SameLife DEF svars, maps, Tracked
  <2> QED  BY <1>2, <2>1, <2>2, <2>3, <2>4, HandleImplements, ReceiveImplements,
              SweepImplements DEF SNext
<1> QED  BY <1>1, <1>2, Invariance, PTL DEF SSpec, KeepsPromise, Promise!Spec
=============================================================================
