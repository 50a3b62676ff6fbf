SPECIFICATION Spec
CONSTANTS
    max_lines = 2
    MaxLines = 7
    MaxNodes = 4
INVARIANTS ChunksPartition DefinitionsStayWhole
