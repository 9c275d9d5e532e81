SPECIFICATION SdkSpec
CONSTANTS
    w1 = w1
    w2 = w2
    w3 = w3
    d1 = d1
    d2 = d2
    Workers = {w1, w2, w3}
    Dirs = {d1, d2}
    DirOf <- SharedDirs
    MaxAttempts = 2
    MaxFaults = 2
    Outcomes = {o1}
    NoWorker = none
    NoOutcome = none
    MailProcs = {w, c}
    MailWorker = w
    MailAgents = {a1, a2}
    MaxMail = 2
    MaxKeys = 2
    MaxMailFaults = 1
    MaxArchived = 1
    NoCredential = none
    Servers = {m1, m2}
    Skills = {k}
    MaxRelease = 2
    MaxTrees = 2
    NoProcess = none
CHECK_DEADLOCK FALSE
INVARIANTS ExecutedOnce CursorCoversHandled OnlyVerifiedRun
PROPERTY ResultDelivered
