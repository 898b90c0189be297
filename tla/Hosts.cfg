SPECIFICATION Spec
CONSTANTS
    h1 = h1
    h2 = h2
    r1 = r1
    r2 = r2
    a1 = a1
    a2 = a2
    web = web
    ssh = ssh
    AllIfaces = AllIfaces
    NoRow = NoRow
    Host = {h1, h2}
    MaxIfaces = 3
    MaxServices = 2
    Request = {r1}
    Addr = {a1, a2}
    Definition = {web, ssh}
SYMMETRY Symmetry
INVARIANTS
    HostsTypeOK
    DaemonKeepsHost
PROPERTIES
    AddressesKept
    TwinsAreReported
