\* Two runs of the job, with two batches
SPECIFICATION FairSpec
CONSTANTS
    Processes = {p1, p2}
    Credentials = {c1, c2}
    BatchSize = 1
    MaxFailures = 2
INVARIANT ExclusiveUnlessRemoved
INVARIANT RefusedForAnother
INVARIANT NoLeftover
INVARIANT SuccessComplete
PROPERTY Terminates
\* Every run has ended.
CHECK_DEADLOCK FALSE
