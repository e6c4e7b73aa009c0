SPECIFICATION Spec
CONSTANTS
    n1 = n1
    n2 = n2
    p1 = p1
    p2 = p2
    foo = foo
    FOO = FOO
    bar = bar
    foo_bar = foo_bar
    foo_minus_bar = foo_minus_bar
    t1 = t1
    NsId <- MCNsId
    Provider <- MCProvider
    NsName <- MCNsNames
    Name <- MCNames
    Fold <- MCFold
    Wild <- MCNoWild
    Token <- MCToken
    Databases <- MCEvery
    AllowForce = FALSE
    MaxNsRedirects = 1
    MaxRedirects = 2
    None = None
SYMMETRY MCSymmetry
INVARIANTS
    TypeOK
    NamesAreTheirOwn
    NamesAreUnambiguous
    NoDanglingRedirects
PROPERTIES
    RenamedProvidersStayReachable
    UsedNamesKeepLeading
