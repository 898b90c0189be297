SPECIFICATION Spec
CONSTANTS
    Service = {s1, s2, s3}
    Definition = {plex, jelly, OpenPorts}
    OpenPorts = OpenPorts
    Port = {p1, p2}
    Iface = {e0, e1}
    Request = {r1}
    Reports <- MCReports
    Edits <- MCEdits
    Whole = Whole
    All = All
    NoService = NoService
    Gone = Gone
    e0 = e0
    e1 = e1
    p1 = p1
    p2 = p2
    jelly = jelly
    plex = plex
    r1 = r1
    r2 = r2
    s1 = s1
    s2 = s2
    s3 = s3
SYMMETRY Symmetry
CHECK_DEADLOCK FALSE
INVARIANTS
    ServicesTypeOK
    SelfConsistent
    NamedApart
