CONSTANTS
    a1 = a1
    a2 = a2
    a3 = a3
    a4 = a4
    h1 = h1
    h2 = h2
    Sub = {a1, a2, a3}
    Customer = Customer
    Handler = {h1}
    Faults = {"fails", "duplicate"}
    MaxBacklog = 2
    MaxCheckouts = 1
    NoEvent = NoEvent
SYMMETRY Symmetry
SPECIFICATION Spec
INVARIANTS
    BillingTypeOK
    OneSubscription
    PlanIsSubscribed
    StandbyFollowsPlan
