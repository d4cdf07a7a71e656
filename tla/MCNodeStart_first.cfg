SPECIFICATION Spec
CONSTANTS
    Dagda = dagda
    Names = {dagda, brigid}
    Unset = Unset
    OwnID = OwnID
    NoFile = NoFile
    Partial = Partial
    Procs = {p1, p2}
    MaxKeys = 3
    MaxInstalls = 2
SYMMETRY Symmetry
INVARIANT GeneratedKeyStored
CHECK_DEADLOCK FALSE
