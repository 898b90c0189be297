--------------------------- MODULE DiscoveryTypes ---------------------------
(* What server and daemon agree on: sessions, daemons and the phases of    *)
(* DiscoveryPhase (backend/src/daemon/discovery/types/base.rs).            *)

CONSTANTS
    Session,     \* session ids; a Uuid::new_v4 is never drawn twice
    Daemon,
    NoSession, NoDaemon

ASSUME NullAssumption == NoSession \notin Session /\ NoDaemon \notin Daemon

(* The phases a running session is reported in by its daemon ... *)
Reported == {"Started", "Scanning"}

(* ... and those in which the server considers the daemon busy with it. *)
Active == {"Starting"} \cup Reported
=============================================================================
