SPECIFICATION FairSpec
CONSTANTS
    Runs = {r1, r2}
    Workers = {w1}
    Desks = {}
    Kinds = {"aily"}
    Replies = {"accepted", "refused"}
    MaxAttempts = 2
    MaxMinutes = 0
    MaxCrashes = 1
PROPERTIES Settles 
