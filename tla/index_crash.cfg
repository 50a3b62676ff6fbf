SPECIFICATION QuietSpec
CONSTANTS
    Paths = {p1, p2}
    Texts = {t1, t2}
    Blobs = {b1}
    Empty = empty
    Absent = absent
    Outside = outside
    Locked = locked
    Policies = {pol1}
    Strategies = {line}
    MaxEdits = 3
    MaxAborts = 1
SYMMETRY Symmetry
INVARIANTS
    TypeOK
    ManifestAndDocsAgree
    CleanIndexServesFiles
    CleanImpliesValid
PROPERTIES
    UpdateSettlesOrdinaryFiles
