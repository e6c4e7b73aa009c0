SPECIFICATION MCSpec
CONSTANTS
    MaxVersion = 3
    d1 = d1
    d2 = d2
    Beta <- MCBeta
    RowId <- MCRowId
    Download <- MCDownload
    NoRow = NoRow
INVARIANTS
    TypeOK
    OneRowPerVersion
    LatestIsHighestPublished
    DownloadsHaveRows
PROPERTY
    ImplementsCatalogue
