SPECIFICATION Spec
CONSTANTS
    Workers = 2
    MaxRun = 2
    MaxFrame = 2
    MaySlow = {1}
INVARIANTS TypeOK ArchiveComplete ImagesFit NoOrphanFiles
PROPERTY RowGetsArchive
