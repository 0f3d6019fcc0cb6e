CONSTANTS
    a = a
    b = b
    c = c
    d = d
    Root = Root
    Block = {a, b, c, d}
    FullPage = {a, b, d}
    Parent <- MCParent
    Chain <- MCChain
    Capacity = 2
    Request = {1, 2}
SPECIFICATION Spec
VIEW MCView
INVARIANT PublishIsSafe
