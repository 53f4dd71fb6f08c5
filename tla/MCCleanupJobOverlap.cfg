\* Two runs of the job
SPECIFICATION Spec
CONSTANTS
    Processes = {p1, p2}
    Credentials = {c1}
    BatchSize = 1
    MaxFailures = 0
INVARIANT Exclusive
\* Every run has ended.
CHECK_DEADLOCK FALSE
