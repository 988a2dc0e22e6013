CONSTANTS
    Responses = {r1, r2}
    Pods = {p1, p2}
    Others = {service}
    NameLabelled = {}
    Severities = {5, 6}
    Threshold = 6
    MaxLapses = 1
SPECIFICATION FairSpec
INVARIANTS
    TypeOK
    ExecutedUnlessNameTaken
    OnlyTargetsIsolated
PROPERTIES
    IsolationSticks
    ReportsFinal
    ResponsesAnswered
