SPECIFICATION ConnectionsSpec
CONSTANTS
    Pairings = {p1, p2}
    Agents = {a1}
    Keys = {k1, k2}
    Sessions = {s1, s2}
    MaxGen = 3
    MaxNotices = 1
    NoPairing = NoPairing
    NoAgent = NoAgent
    NoKey = NoKey
    NoSession = NoSession
    Party = {g1, g2}
    ViewRoles = {"auditor"}
    Results = {"completed"}
    Threads = {x1, x2}
    TaskThreads = {x2}
    Tabs = {w1}
    MaxMessages = 3
    MaxTurns = 2
    NoThread = NoThread
SYMMETRY Symmetry
INVARIANTS BoundIsActive OneUsableRefresh ShownToHolders ResultsStand
 
CHECK_DEADLOCK FALSE
