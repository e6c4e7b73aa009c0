SPECIFICATION Spec
CONSTANTS
    n1 = n1
    n2 = n2
    p1 = p1
    p2 = p2
    foo = foo
    FOO = FOO
    bar = bar
    foo_bar = foo_bar
    foo_minus_bar = foo_minus_bar
    t1 = t1
    NsId <- MCNsId
    Provider <- MCProvider
    NsName <- MCThreeNames
    Name <- MCNsNames
    Fold <- MCFold
    Wild <- MCNoWild
    Token <- MCNoToken
    Databases <- MCSqlite
    AllowForce = FALSE
    MaxNsRedirects = 2
    MaxRedirects = 2
    None = None
SYMMETRY MCSymmetry
PROPERTIES
    RenamedNamespacesStayReachable
