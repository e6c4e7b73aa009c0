SPECIFICATION SerialSpec
CONSTANTS
    t1 = t1
    d1 = d1
    c1 = c1
    c2 = c2
    Thread <- MCThread
    MaxVersion = 2
    Beta <- MCNoBeta
    RowId <- MCRowId
    NoRow = NoRow
    Download <- MCDownload
    Content <- MCContents
    Deployment <- MCAlone
    NoThread = NoThread
    Nothing = Nothing
INVARIANTS
    OneRowPerVersion
    TransactionsKeepLatestRight
    DownloadsHaveRows
    FirstArchivesMatch
PROPERTIES
    ImplementsIndex
