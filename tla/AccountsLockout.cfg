\* Two calls that overlap, and a lockout after two failures.
CONSTANTS
    Requests = {r1, r2}
    Threshold = 2
    MaxFailed = 2
SPECIFICATION Spec
INVARIANT LockedAfterThreshold
