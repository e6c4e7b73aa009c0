SPECIFICATION Spec
CONSTANTS
    n1 = n1
    n2 = n2
    p1 = p1
    p2 = p2
    foo = foo
    FOO = FOO
    bar = bar
    foo_bar = foo_bar
    foo_minus_bar = foo_minus_bar
    t1 = t1
    NsId <- MCNsId
    Provider <- MCProvider
    NsName <- MCNsNames
    Name <- MCUnderscores
    Fold <- MCFold
    Wild <- MCWild
    Token <- MCNoToken
    Databases <- MCSqlite
    AllowForce = FALSE
    MaxNsRedirects = 1
    MaxRedirects = 1
    None = None
SYMMETRY MCSymmetry
INVARIANTS
    NamesAreTheirOwn
