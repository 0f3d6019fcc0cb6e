CONSTANTS
    line5 = line5
    line7 = line7
    Case = {line5, line7}
    Gate <- MCGate
    Rank <- MCRank
    Result = {r1, r2}
    Driver = {"matrix", "d1", "d2"}
    Workers = 2
    MaxFaults = 1
    MaxEdits = 1
    None = None
    Partial = Partial
SPECIFICATION Spec
INVARIANT InterruptedCanResume
CHECK_DEADLOCK FALSE
