CONSTANTS
    Responses = {r1}
    Pods = {p1}
    Others = {service}
    NameLabelled = {}
    Severities = {6}
    Threshold = 6
    MaxLapses = 0
SPECIFICATION Spec
INVARIANTS
    ExecutedMeansIsolated
