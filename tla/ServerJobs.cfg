SPECIFICATION JobsSpec
CONSTANTS
    t1 = t1
    t2 = t2
    v1 = v1
    v2 = v2
    f1 = f1
    f2 = f2
    k1 = k1
    k2 = k2
    x = x
    y = y
    None = None
    Thread = {t1, t2}
    OnSqlite = {TRUE, FALSE}
    Version = {v1, v2}
    Terraform = {f1, f2}
    Payload <- MCPayload
    Prohibit = {TRUE, FALSE}
    MayHang = {t1}
    Key = {k1, k2}
    Releases <- MCReleases
    MaxId = 4
    Deployment <- MCDeployment
    StoredKey = {k1}
    Value = {x, y}
    Lifetime = 1
    MaxTime = 3
    ShouldExpire = {TRUE, FALSE}
INVARIANTS
    TypesOK
    RightTerraform
    ResponseTellsRows
    OnlyWholeTags
    VersionsAreWhole
    LatestIsHighestFinal
    VersionsHaveKeys
    ProviderHasAVersion
PROPERTIES
    OnlyBusyTerraformFails
    ValuesAreKept
    HooksEnd
CHECK_DEADLOCK FALSE
