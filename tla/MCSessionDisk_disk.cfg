\* Two calls of any kind beside a program of two steps.
CONSTANTS
    c1 = c1
    c2 = c2
    Calls = {c1, c2}
    Requests <- MCRequests
    Archives <- MCArchives
    SessionQuota = 3
    TotalQuota = 6
    MaxArtifactBytes = 3
    MaxArtifactCount = 2
    MaxSnapshotBytes = 2
    MaxSnapshots = 1
    SpillKeep = 1
    InlineCap = 0
    SpillCapture = 2
    Sizes = {0, 1, 4}
    MaxProgram = 2
    MaxTamper = 1
    Free = Free
SPECIFICATION Spec
INVARIANTS QuotaKept RestoredAsPlanned
PROPERTY OutsideKept
