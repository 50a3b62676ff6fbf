SPECIFICATION Spec
CONSTANTS
    Paths = {p1}
    Texts = {t1, t2}
    Blobs = {}
    Empty = empty
    Absent = absent
    Outside = outside
    Locked = locked
    Policies = {pol1, pol2}
    Strategies = {line, ast}
    MaxEdits = 2
    MaxAborts = 1
SYMMETRY Symmetry
INVARIANTS
    ManifestAndDocsAgree
    SettledReadersKeepPolicy
