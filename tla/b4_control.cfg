CHECK_DEADLOCK FALSE
CONSTANTS
  PanelCount = 2
  MaxFaults = 3
  Cells = {1, 2}
  Orphans = FALSE
  Slots <- MCSlots
  CandidateCount <- MCCandidateCount
SPECIFICATION ControlSpec
INVARIANTS
  HoldoutTypeOK
  AuthoringResumable
  AttemptTypeOK
  ReceiptHasEvidence
  SuccessIsComplete
  CloseoutCoversEvidence
  TerminalAgrees
PROPERTIES
  PanelsAreLedger
  AttemptUsesFrozenHoldout
  ReceiptWrittenOnce
  AttemptIsOneShot
  ReleasedCloses
  EvidenceReceipted
