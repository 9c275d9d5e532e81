SPECIFICATION Spec
CONSTANTS
    g1 = g1
    g2 = g2
    g3 = g3
    Agents = {g1}
    OwnerOf <- Owners
    InitialAgents = {g1}
    Sessions = {s1, s2}
    MaxAssignments = 1
    MaxAttempts = 2
    MaxResults = 2
    Progress = {"waiting_human"}
    Outcomes = {"completed"}
    Checkpoints = {"explicit"}
    TimelyCommits = FALSE
PROPERTY CompletedFinal
