SPECIFICATION Spec
CONSTANTS
    Paths = {p1}
    Texts = {t1}
    Blobs = {b1}
    Empty = empty
    Absent = absent
    Outside = outside
    Locked = locked
    Policies = {pol1, pol2}
    Strategies = {line}
    MaxEdits = 3
    MaxAborts = 1
INVARIANTS
    EvidenceUnderAskedPolicy
