SPECIFICATION Spec
CONSTANTS
    t1 = t1
    t2 = t2
    d1 = d1
    c1 = c1
    c2 = c2
    Thread <- MCOneThread
    MaxVersion = 1
    Beta <- MCNoBeta
    RowId <- MCRowId
    NoRow = NoRow
    Download <- MCNoDownload
    Content <- MCContents
    Deployment <- MCReindexing
    NoThread = NoThread
    Nothing = Nothing
INVARIANTS
    ArchivesMatch
CHECK_DEADLOCK FALSE
