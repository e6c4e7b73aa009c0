SPECIFICATION Spec
CONSTANTS
    t1 = t1
    t2 = t2
    d1 = d1
    c1 = c1
    c2 = c2
    Thread <- MCThreads
    MaxVersion = 2
    Beta <- MCNoBeta
    RowId <- MCRowId
    NoRow = NoRow
    Download <- MCNoDownload
    Content <- MCContent
    Deployment <- MCPublishing
    NoThread = NoThread
    Nothing = Nothing
INVARIANTS
    LatestIsRightWhenQuiet
CHECK_DEADLOCK FALSE
