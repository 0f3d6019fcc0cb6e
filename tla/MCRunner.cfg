CONSTANTS
    Runner = {r1, r2}
    File = {f1, f2, f3, f4, f5, f6, f7, f8, f9, f10, f11, f12, f13, f14}
    Batches = 3
    FlushAt = 2
    MaxFaults = 2
    Nobody = Nobody
    NoFile = NoFile
    NoMark = NoMark
    NoResult = NoResult
    NoEngine = NoEngine
SPECIFICATION FairSpec
INVARIANTS ResumeAccepted ExportedOnce
PROPERTIES NeverReplayed CaseCompletes
