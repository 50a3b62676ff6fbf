SPECIFICATION Spec
CONSTANTS
    MaxHits = 5
    MaxOthers = 0
    MaxScore = 3
    MaxCell = 3
    MaxRequest = 1
INVARIANTS OrderingAuthoritative
CHECK_DEADLOCK FALSE
