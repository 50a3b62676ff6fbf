SPECIFICATION Spec
CONSTANTS
    MaxHits = 5
    MaxOthers = 1
    MaxScore = 3
    MaxCell = 3
    MaxRequest = 2
INVARIANTS TypeOK CompleteTie AnswerIdealToBoundary
           OrderingAuthoritativeIfEnoughSurvive
PROPERTIES Termination
CHECK_DEADLOCK FALSE
