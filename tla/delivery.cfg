SPECIFICATION Spec
CONSTANTS
    s1 = s1
    s2 = s2
    m1 = m1
    m2 = m2
    d1 = d1
    d2 = d2
    Clients = {d1, d2}
    Events = {s1, s2, m1, m2}
    Suricata = {s1, s2}
    MaxQueue = 1
    Burst = 2
    MaxRequests = 1
    Buffer = 1
    NoAlert = NoAlert
SYMMETRY MCSymmetry
INVARIANTS
    CountersTruthful
    StreamContiguous
CHECK_DEADLOCK FALSE
