CONSTANTS
    OldRows = 1
    MaxAlerts = 1
    MaxErrors = 0
SPECIFICATION Spec
INVARIANT ChildrenLinked
