SPECIFICATION Spec
CONSTANTS
    g1 = g1
    g2 = g2
    g3 = g3
    Agents = {g1, g2, g3}
    OwnerOf <- Owners
    InitialAgents = {g1}
    Sessions = {s1, s2}
    MaxAssignments = 2
    MaxAttempts = 2
    MaxResults = 2
    Progress = {"starting", "waiting_human"}
    Outcomes = {"completed", "failed"}
    Checkpoints = {"explicit"}
    TimelyCommits = TRUE
SYMMETRY SessionSymmetry
INVARIANTS SubmittedSettled ViewsAgree
PROPERTIES AcceptedFrozen CompletedFinal SupersededSilent
