CONSTANTS
    r1 = r1
    r2 = r2
    r3 = r3
    h1 = h1
    h2 = h2
    n1 = n1
    Request = {r1, r2}
    Host = {h1}
    HostOf <- MCDocker
    Subnet = {n1}
    EntityFaults = {}
SPECIFICATION BufferSpec
INVARIANTS
    ReturnedIsStored
