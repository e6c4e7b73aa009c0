SPECIFICATION FairSpec
CONSTANTS
    t1 = t1
    t2 = t2
    d1 = d1
    c1 = c1
    c2 = c2
    Thread <- MCThreads
    MaxVersion = 2
    Beta <- MCBeta
    RowId <- MCTwoRows
    NoRow = NoRow
    Download <- MCNoDownload
    Content <- MCContent
    Deployment <- MCRacing
    NoThread = NoThread
    Nothing = Nothing
INVARIANTS
    TypeOK
    NoHalfIndexedVersion
    TransactionsKeepLatestRight
    LatestIsEligible
PROPERTIES
    RequestsEnd
CHECK_DEADLOCK FALSE
