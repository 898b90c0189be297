-------------------------- MODULE SessionLifecycle --------------------------
(***************************************************************************)
(* What the discovery session registry promises of each session, whatever  *)
(* goes wrong around it.  A session is requested once, waits until it is   *)
(* cancelled or dispatched to a daemon, and is over when it has left the   *)
(* registry.  Sessions do not disturb one another: each step is about one  *)
(* of them, except a restart, which ends them all.  A historical row is    *)
(* stored for dispatched sessions only and stays.                          *)
(***************************************************************************)
CONSTANT Session

VARIABLES
    life,   \* where a session is in its life
    rows    \* the sessions with a historical row

lifeVars == <<life, rows>>

Init ==
    /\ life = [s \in Session |-> "unborn"]
    /\ rows = {}

Becomes(s, from, to) ==
    /\ life[s] = from
    /\ life' = [life EXCEPT ![s] = to]

Request(s) == Becomes(s, "unborn", "waiting") /\ UNCHANGED rows

Withdraw(s) == Becomes(s, "waiting", "withdrawn") /\ UNCHANGED rows

(* A cancellation may lose to the dispatch it races with: the daemon gets    *)
(* the session, and the registry does not track it.                         *)
Dispatch(s) ==
    /\ Becomes(s, "waiting", "running") \/ Becomes(s, "withdrawn", "over")
    /\ UNCHANGED rows

End(s) == Becomes(s, "running", "over") /\ rows' \in {rows, rows \cup {s}}

(* The daemon still reports a session that the registry has dropped: it is   *)
(* tracked again, or its end is stored after all.                           *)
Return(s) == Becomes(s, "over", "running") /\ UNCHANGED rows

StoreLate(s) ==
    /\ life[s] = "over"
    /\ rows' = rows \cup {s}
    /\ UNCHANGED life

(* The server restarts. *)
Lose ==
    /\ life' = [s \in Session |->
                  CASE life[s] = "waiting" -> "withdrawn"
                    [] life[s] = "running" -> "over"
                    [] OTHER -> life[s]]
    /\ UNCHANGED rows

Next ==
    \/ \E s \in Session :
         \/ Request(s) \/ Withdraw(s) \/ Dispatch(s)
         \/ End(s) \/ Return(s) \/ StoreLate(s)
    \/ Lose

Spec == Init /\ [][Next]_lifeVars
=============================================================================
