\* One request at a time, on an account that may have been imported
SPECIFICATION Spec
CONSTANTS
    Words = {w1, w2, w3, w4}
    UseBcrypt = TRUE
    MaxFailure = 3
    InHistory = 2
    Duration = 2
    Slots = {s1}
    MaxTime = 4
    MaxPasswords = 5
SYMMETRY Symmetry
INVARIANT FailuresCounted
INVARIANT FailuresLock
INVARIANT HistoryFaithful
INVARIANT NoReuse
INVARIANT LegacySaltKept
PROPERTY LockHonoured
