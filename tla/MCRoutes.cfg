CONSTANTS
    a = a
    b = b
    c = c
    d = d
    Root = Root
    Block = {a, b, c, d}
    FullPage = {a, b, d}
    Parent <- MCParent
    Chain <- MCChain
    Rank <- MCRank
    Tokens <- MCTokens
    Capacity = 2
    Pod = {0, 1}
    Request = {1, 2, 3, 4}
    Transfer = {1, 2, 3, 4}
    LoadWindow = 2
    PureQueries = TRUE
    Schedule = {"C", "D", "R_LEAST", "R_REQ_KV_TASK"}
    SwitchAt = 3
    Theta = 2
    HistoryWindow = 3
    ShortlistK = 2
    RoutingPolicy = "R_REQ_KV_TASK"
    ProactivePolicy = "NONE"
    PageTime = 3
    MaxGap = 2
    Skew = 1
SPECIFICATION SwitchSpec
INVARIANTS LedgersAgree SavedLoadConsistent SwitchHonoured
