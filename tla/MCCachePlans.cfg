CONSTANTS
    a = a
    b = b
    c = c
    d = d
    Root = Root
    Block = {a, b, c, d}
    FullPage = {a, b, d}
    Parent <- MCParent
    Chain <- MCChain
    Capacity = 3
    Transfer = {t1}
    User = {u1, u2}
    MaxVersion = 40
    ChunkSize = 2
SPECIFICATION IndexedSpec
VIEW MCView
INVARIANTS TypeOK CacheSound FreshPlansExecutable RefusalsAreForced PinsAreHolds SummaryExact
PROPERTIES OldestLeafFirst StoreRefined
