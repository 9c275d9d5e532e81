SPECIFICATION Spec
CONSTANTS
    h1 = h1
    h2 = h2
    a1 = a1
    a2 = a2
    Humans = {h1, h2}
    Agents = {a1, a2}
    HumanOf <- TwoHumans
    Native = {}
    Founder = h1
    Keys = {k1}
    Bodies = {b1, b2}
    Sessions = {s1, s2}
    Readers = {a1}
    PageSize = 2
    MaxLog = 4
    NoSession = NoSession
    NoAgent = NoAgent
    NoHuman = NoHuman
    NoKey = NoKey
    NoBody = NoBody
SYMMETRY Symmetry
INVARIANTS NothingSkipped LogExplains AnsweredOnce
CHECK_DEADLOCK FALSE
