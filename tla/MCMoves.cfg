CONSTANTS
    a = a
    b = b
    c = c
    d = d
    Root = Root
    Block = {a, b, c}
    FullPage = {a, b}
    Parent <- MCParent
    Chain <- MCChain
    Capacity = 3
    Transfer = {t1}
    User = {u1, u2}
    MaxVersion = 40
    MaxPlans = 1
SPECIFICATION D2Spec
VIEW MCView
SYMMETRY MCSymmetry
INVARIANTS CachedOrderCurrent
PROPERTIES ReleaseIsMaximal
