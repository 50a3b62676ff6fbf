SPECIFICATION Spec
CONSTANTS
    MAX_CHUNK_LINES = 3
    CONTEXT_LINES = 1
    MAX_EVIDENCE_SPAN = 3
    MaxLines = 8
    MaxTokens = 2
INVARIANTS WindowsPartition SpanShowsBestLine SpansDistinct
CHECK_DEADLOCK FALSE
