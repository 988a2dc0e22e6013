CONSTANTS
    Ids = {a1}
    traffic = traffic
    postgres = postgres
    Targets = {traffic}
    Protected = {}
    Kinds = {"isolate_pod"}
    Severities = {8}
    Confidences = {0}
    AutonomousMin = 90
    EmergencyMin = 85
    EmergencySeverity = 10
    MaxPending = 1
    Expiry = 1
    BootMode = "assisted"
    BootForce = FALSE
    MaxCrashes = 0
SPECIFICATION Spec
INVARIANTS
    FullQueueAnswered
