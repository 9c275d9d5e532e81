SPECIFICATION FairSpec
CONSTANTS
    g1 = g1
    g2 = g2
    g3 = g3
    Agents = {g1}
    OwnerOf <- Owners
    InitialAgents = {g1}
    Sessions = {s1, s2}
    MaxAssignments = 2
    MaxAttempts = 2
    MaxResults = 1
    Progress = {"waiting_human"}
    Outcomes = {"completed"}
    Checkpoints = {"explicit"}
    TimelyCommits = TRUE
PROPERTIES ExpiredInterrupted QueuedTaken
