CONSTANTS
    Ids = {a1, a2}
    traffic = traffic
    postgres = postgres
    Targets <- MCTargets
    Protected <- MCProtected
    Kinds = {"isolate_pod", "scale_up", "restart_pod"}
    Severities <- MCSeverities
    Confidences <- MCConfidences
    AutonomousMin = 90
    EmergencyMin = 85
    EmergencySeverity = 10
    MaxPending = 2
    Expiry = 0
    BootMode = "assisted"
    BootForce = FALSE
    MaxCrashes = 0
SYMMETRY MCSymmetry
SPECIFICATION Spec
INVARIANTS
    QueueInv
    RowsTruthful
PROPERTIES
    VerdictsFinal
    ManualStopsDecisions
    ProtectedNeedsOperator
    ImplementsLifecycle
