CONSTANTS
  PanelCount = 2
  MaxFaults = 1
  Cells = {1, 2}
  Orphans = TRUE
SPECIFICATION AttemptSpec
INVARIANTS
  CloseoutCoversEvidence
