CONSTANTS
    p1 = p1
    p2 = p2
    h1 = h1
    Poll = {p1, p2}
    Handler = {h1}
    Old = Old
    Stalled = Stalled
SPECIFICATION Spec
INVARIANTS
    NoCircularWait
