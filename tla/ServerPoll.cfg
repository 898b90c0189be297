CONSTANTS
    s1 = s1
    s2 = s2
    d1 = d1
    u1 = u1
    p1 = p1
    Session = {s1}
    Daemon = {d1}
    Task = {u1, p1}
    Owner <- MCOwner
    Poller <- MCPoller
    ServerPoll = {d1}
    Faults = {"unreachable", "poll_lost", "initiate_lost", "cancel_lost",
              "prepare_fails", "scan_aborts", "slow_poll", "server_restart",
              "daemon_restart"}
    MayCancel = TRUE
    NoSession = NoSession
    NoDaemon = NoDaemon
    NoReport = NoReport
SPECIFICATION FairSpec
INVARIANTS
    PollTypeOK
PROPERTIES
    LeavesUnlessAbandoned
