SPECIFICATION Spec
CONSTANTS
    Runs = {r1, r2}
    Workers = {w1, w2}
    Desks = {d1}
    Kinds = {"notify"}
    Replies = {"accepted", "refused"}
    MaxAttempts = 2
    MaxMinutes = 3
    MaxCrashes = 1
SYMMETRY Symmetry
INVARIANTS OneChargePerMinute NotifiedOnce DeliveredWasAccepted
