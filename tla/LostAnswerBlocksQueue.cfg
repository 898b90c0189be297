CONSTANTS
    s1 = s1
    s2 = s2
    s3 = s3
    d1 = d1
    u1 = u1
    p1 = p1
    p2 = p2
    Session = {s1}
    Daemon = {d1}
    Task = {u1, p1}
    PollTask = {p1}
    Owner <- MCOwner
    ServerPoll = {}
    Faults = {"answer_lost"}
    MayCancel = FALSE
    NoSession = NoSession
    NoDaemon = NoDaemon
    NoTask = NoTask
    NoPost = NoPost
    Acked = Acked
    NoAnswer = NoAnswer
SPECIFICATION FairSpec
PROPERTIES
    EverySessionLeaves
