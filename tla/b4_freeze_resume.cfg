CHECK_DEADLOCK FALSE
CONSTANTS
  PanelCount = 2
  MaxFaults = 1
  Cells = {1, 2}
  Orphans = FALSE
  Slots <- MCSlots
  CandidateCount <- MCCandidateCount
SPECIFICATION ControlSpec
INVARIANTS
  FreezeResumes
