CONSTANTS
    s1 = s1
    s2 = s2
    d1 = d1
    u1 = u1
    p1 = p1
    Session = {s1}
    Daemon = {d1}
    Task = {u1, p1}
    Owner <- MCOwner
    Poller <- MCPoller
    ServerPoll = {d1}
    Faults = {"scan_aborts"}
    MayCancel = TRUE
    NoSession = NoSession
    NoDaemon = NoDaemon
    NoReport = NoReport
SPECIFICATION FairSpec
PROPERTIES
    ReportedLeaves
