SPECIFICATION Spec
CONSTANTS
    a1 = a1
    a2 = a2
    a3 = a3
    other = other
    Alerts <- MCAlerts
    Rules = {"scan", "shell"}
    Sources = {"falco", "suricata"}
    RuleOf <- MCRuleOf
    SourceOf <- MCSourceOf
    Window = 2
    Slack = 1
    MaxPerRule = 1
    MaxPerSource = 1
    MaxGlobal = 2
    Multiplier = 2
    MaxBackoff = 3
    MaxTime = 2
    Fingerprints = {"f1", "f2", "f3"}
    FingerprintOf <- MCFingerprintOf
    Keys = {"k1", "k2"}
    KeyOf <- MCKeyOf
    DedupSize = 1
    CacheSize = 1
    CacheTtl = 2
    SeverityTtl <- MCSeverityTtl
    None = None
    MaxClears = 1
SYMMETRY MCSymmetry
INVARIANTS
    TypeOK
    WindowBound
    StoredAsAnswered
PROPERTIES
    ReuseBounded
    NoRepeatedSpend
CHECK_DEADLOCK FALSE
