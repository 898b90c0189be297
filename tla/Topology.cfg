CONSTANTS
    x = x
    y = y
    t1 = t1
    t2 = t2
    w1 = w1
    w2 = w2
    r1 = r1
    r2 = r2
    Host = {x}
    Shape = {1}
    Topology = {t1}
    Writer = {w1}
    Route = {r1}
    MaxPending = 2
    NotYet = NotYet
    Gone = Gone
    NoRow = NoRow
SPECIFICATION FairSpec
INVARIANTS
    TopologyTypeOK
    NothingMissed
PROPERTY
    StaleIsMarked
