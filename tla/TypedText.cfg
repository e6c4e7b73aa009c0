SPECIFICATION WebSpec
CONSTANTS
    g1 = g1
    u1 = u1
    badUrl = badUrl
    tag = tag
    badTag = badTag
    plusTag = plusTag
    plusTag1 = plusTag1
    plusTag2 = plusTag2
    template = template
    fixed = fixed
    s1 = s1
    Null = Null
    NoOption = NoOption
    Letter = {"a"}
    IdChar = {"a", "-", "_", "ue"}
    Escaped = {" ", "ue"}
    Refused <- MCRefused
    Site <- MCSite
    Value <- MCValue
    Choice <- MCChoice
    Variables <- MCVariables
    MaxInputs = 3
    GitProvider = {g1}
    PathOf <- MCPathOf
    Url = {u1, badUrl}
    TagFormat = {tag, plusTag, badTag}
    GitPath = {template, fixed}
    Source = {s1}
    Wrong = {badUrl, badTag}
    Template = {template}
    Resolved <- MCResolved
    Quoted <- MCQuoted
    Setting <- MCSetting
    MaxEdits = 1
    MaxSubmissions = 2
PROPERTIES
    TextIsUsedDirectly
CHECK_DEADLOCK FALSE
