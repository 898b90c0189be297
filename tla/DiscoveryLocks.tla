--------------------------- MODULE DiscoveryLocks ---------------------------
(***************************************************************************)
(* The four RwLocks of DiscoveryService and the order in which its         *)
(* operations take them (backend/src/server/discovery/service.rs).         *)
(* DiscoveryService.tla takes a stretch of code between two points where   *)
(* other tasks can change a map as one step; here a step is one lock.      *)
(*                                                                         *)
(* Tasks are the polls of ServerPoll daemons, which run side by side in    *)
(* the server's own polling loop, its two cleanup loops, and request       *)
(* handlers, which axum drops when their client goes away.                 *)
(***************************************************************************)
EXTENDS Integers, Sequences

CONSTANTS
    Poll,        \* polls of a ServerPoll daemon under way (poll_all_daemons)
    Handler,     \* request handlers
    Old,         \* the loop that calls cleanup_old_sessions
    Stalled      \* the loop that calls cleanup_stalled_sessions

Task == Poll \cup Handler \cup {Old, Stalled}

Lock == {"sessions", "last_updated", "daemon_sessions", "cancellations"}

VARIABLES
    code,        \* the lock operations a task has still to perform
    held,        \* how a task holds a lock: "no", "read" or "write"
    waiters      \* tokio's first-come queue of a lock: tasks and modes

vars == <<code, held, waiters>>

-----------------------------------------------------------------------------
(* The operations, as the locks they take and drop *)

Read(l) == <<[op |-> "read", lock |-> l]>>
Write(l) == <<[op |-> "write", lock |-> l]>>
Drop(l) == <<[op |-> "drop", lock |-> l]>>

GetSession == Read("sessions") \o Drop("sessions")

(* get_sessions_for_daemon and has_active_session_for_daemon alike. *)
QueueThenSessions ==
    Read("daemon_sessions") \o Read("sessions")
        \o Drop("sessions") \o Drop("daemon_sessions")

(* transition_session_to_starting, and the insertion of start_session. *)
WriteSession == Write("sessions") \o Drop("sessions")

(* pull_cancellation_for_daemon, and setting the flag. *)
WriteCancellation == Write("cancellations") \o Drop("cancellations")

(* A busy daemon, nothing pending, work to hand out. *)
GetPendingWork ==
    {QueueThenSessions,
     QueueThenSessions \o QueueThenSessions,
     QueueThenSessions \o QueueThenSessions \o WriteSession}

StartSession ==
    WriteSession
        \o Read("daemon_sessions") \o Drop("daemon_sessions")
        \o Write("daemon_sessions") \o Drop("daemon_sessions")

AutoCreate == Write("daemon_sessions") \o Drop("daemon_sessions")

EndSession ==
    WriteCancellation
        \o Write("daemon_sessions") \o Drop("daemon_sessions")
        \o Drop("sessions")

(* Known or auto-created, in progress, terminal or redundant. *)
UpdateSession ==
    {Write("sessions") \o Write("last_updated") \o create \o rest :
        create \in {<<>>, AutoCreate},
        rest \in {Drop("last_updated") \o Drop("sessions"),
                  EndSession \o Drop("last_updated")}}

(* The session is gone or starting, pending, or under way. *)
CancelSession ==
    {GetSession,
     GetSession \o Write("sessions") \o Write("daemon_sessions")
        \o Drop("sessions") \o Drop("daemon_sessions"),
     GetSession \o WriteCancellation}

CleanupOld ==
    Write("sessions") \o Write("daemon_sessions") \o Write("cancellations")
        \o Drop("cancellations") \o Drop("daemon_sessions") \o Drop("sessions")

FindStalled ==
    Read("sessions") \o Read("last_updated")
        \o Drop("last_updated") \o Drop("sessions")

SweepStalled ==
    WriteCancellation
        \o Write("sessions") \o Write("last_updated")
        \o Write("daemon_sessions") \o Write("cancellations")
        \o Drop("cancellations") \o Drop("daemon_sessions")
        \o Drop("last_updated") \o Drop("sessions")

CleanupStalled == {FindStalled, FindStalled \o SweepStalled}

(* poll_daemon: the progress it was served, then the work it may push. *)
PollDaemon ==
    {update \o work : update \in {<<>>} \cup UpdateSession,
                      work \in GetPendingWork}

(* receive_work_request, receive_discovery_update and the users' routes. *)
Request ==
    {work \o WriteCancellation : work \in GetPendingWork}
        \cup UpdateSession \cup CancelSession \cup {StartSession, GetSession}

Operations(t) ==
    CASE t \in Poll -> PollDaemon
      [] t \in Handler -> Request
      [] t = Old -> {CleanupOld}
      [] t = Stalled -> CleanupStalled

-----------------------------------------------------------------------------
(* tokio::sync::RwLock: a request joins the queue and is granted from its  *)
(* head, so that readers do not pass a waiting writer.                     *)

Waits(t, l) == \E i \in DOMAIN waiters[l] : waiters[l][i].task = t

Blocked(t) == \E l \in Lock : Waits(t, l)

Compatible(mode, l) ==
    \A u \in Task :
        held[l][u] = "no" \/ (mode = "read" /\ held[l][u] = "read")

Init ==
    /\ code = [t \in Task |-> <<>>]
    /\ held = [l \in Lock |-> [t \in Task |-> "no"]]
    /\ waiters = [l \in Lock |-> <<>>]

Call(t) ==
    /\ code[t] = <<>>
    /\ \E c \in Operations(t) : code' = [code EXCEPT ![t] = c]
    /\ UNCHANGED <<held, waiters>>

Ask(t) ==
    /\ code[t] # <<>>
    /\ ~Blocked(t)
    /\ Head(code[t]).op # "drop"
    /\ waiters' = [waiters EXCEPT ![Head(code[t]).lock] =
                      Append(@, [task |-> t, mode |-> Head(code[t]).op])]
    /\ UNCHANGED <<code, held>>

Grant(l) ==
    /\ waiters[l] # <<>>
    /\ LET w == Head(waiters[l])
       IN  /\ Compatible(w.mode, l)
           /\ held' = [held EXCEPT ![l][w.task] = w.mode]
           /\ code' = [code EXCEPT ![w.task] = Tail(@)]
    /\ waiters' = [waiters EXCEPT ![l] = Tail(@)]

Release(t) ==
    /\ code[t] # <<>>
    /\ Head(code[t]).op = "drop"
    /\ held' = [held EXCEPT ![Head(code[t]).lock][t] = "no"]
    /\ code' = [code EXCEPT ![t] = Tail(@)]
    /\ UNCHANGED waiters

(* The client of a handler goes away; its guards and its place in a queue  *)
(* go with the handler.                                                    *)
Disconnect(t) ==
    /\ code[t] # <<>>
    /\ code' = [code EXCEPT ![t] = <<>>]
    /\ held' = [l \in Lock |-> [held[l] EXCEPT ![t] = "no"]]
    /\ waiters' = [l \in Lock |->
                      SelectSeq(waiters[l], LAMBDA w : w.task # t)]

Next ==
    \/ \E t \in Task : Call(t) \/ Ask(t) \/ Release(t)
    \/ \E l \in Lock : Grant(l)
    \/ \E t \in Handler : Disconnect(t)

Spec == Init /\ [][Next]_vars

-----------------------------------------------------------------------------
(* Correctness *)

(* t waits for a lock that u holds, or behind u in the lock's queue. *)
WaitsFor(t, u) ==
    \E l \in Lock : \E i \in DOMAIN waiters[l] :
        /\ waiters[l][i].task = t
        /\ \/ /\ held[l][u] # "no"
              /\ "write" \in {waiters[l][i].mode, held[l][u]}
           \/ \E j \in 1..(i - 1) : waiters[l][j].task = u

(***************************************************************************)
(* The server's own tasks never wait for each other in a circle.  Nobody   *)
(* disconnects them: a circle among the polls that poll_all_daemons joins  *)
(* ends the polling loop for every ServerPoll daemon, and leaves the       *)
(* session registry locked for every request.                              *)
(***************************************************************************)
NoCircularWait ==
    ~\E S \in SUBSET (Task \ Handler) \ {{}} :
        \A t \in S : \E u \in S : WaitsFor(t, u)
=============================================================================
