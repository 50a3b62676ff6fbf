SPECIFICATION QuietSpec
CONSTANTS
    Paths = {p1}
    Texts = {t1}
    Blobs = {b1}
    Empty = empty
    Absent = absent
    Outside = outside
    Locked = locked
    Policies = {pol1}
    Strategies = {line}
    MaxEdits = 1
    MaxAborts = 1
INVARIANTS
    NoDuplicateDocs
