CONSTANTS
    s1 = s1
    s2 = s2
    d1 = d1
    t1 = t1
    t2 = t2
    Session = {s1, s2}
    Daemon = {d1}
    Task = {t1, t2}
    Owner <- MCOwner
    ServerPoll = {}
    NoSession = NoSession
    NoDaemon = NoDaemon
SYMMETRY Symmetry
SPECIFICATION SSpec
INVARIANTS
    TypeOK
    TrackedIsQueued
    NoDuplicates
    ReportedIsTimed
    RecordedWasHanded
    GhostsStayDead
PROPERTIES
    WaitingIsSafe
    KeepsPromise
