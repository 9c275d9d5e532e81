SPECIFICATION HumanSpec
CONSTANTS
    a1 = a1
    r1 = r1
    Humans = {h1, h2}
    Agents = {a1}
    Approvals = {r1}
    RequesterOf <- OneApproval
    Sessions = {s1, s2}
    NoHuman = NoHuman
    NoAgent = NoAgent
    NoApproval = NoApproval
    Addresses = {e1}
    Challenges = {c1, c2}
    Callers = {s1, s2}
    Browsers = {b1}
    HumanKeys = {k1}
    Codes = {y1}
    MaxWrong = 1
    MaxPasswords = 2
    MaxSecrets = 1
    MaxSteps = 2
    NoAddress = NoAddress
    NoChallenge = NoChallenge
SYMMETRY Symmetry
CHECK_DEADLOCK FALSE
INVARIANTS ControlInv AttemptsCounted
PROPERTIES DecidedOnce ChallengeSpentOnce
