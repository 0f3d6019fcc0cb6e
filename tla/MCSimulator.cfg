CONSTANTS
    a = a
    b = b
    c = c
    d = d
    Root = Root
    Block = {a, b, c, d}
    FullPage = {a, b, d}
    Parent <- MCParent
    Chain <- MCChain
    Rank <- MCRank
    Capacity = 3
    Request = {1, 2, 3, 4, 5}
    Pod = {0, 1, 2}
    Theta = 1
    LoadGap = 1
    HitPercent = 30
    Timeout = 1
    BaseService = 3
    PageService = 2
    PageTime = 1
    Mode <- MCMode
    RequestPath = {b, c}
    Gap = {0, 7}
    Phase = 1
    Period = 3
    TriggerEnd = 16
    History = 9
    TopK = 2
    TaskWeight <- MCTaskWeight
    Decay <- MCDecay
    Quantile = 50
    ValueRef = 6
    TimeRef = 2
    MaxActions = 1
    Fanout = 2
    Rate = 1
    PageBytes = 4
    Burst = 12
    RangeEnd = 12
    Horizon = 5
    Widths = {8, 60}
SPECIFICATION SummarySpec
CHECK_DEADLOCK FALSE
INVARIANTS NeverAsserts HoldsAccounted CountersAgree PreflightExact BudgetKept CreditIsDue FiguresAgree
