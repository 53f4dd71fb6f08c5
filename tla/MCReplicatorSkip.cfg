\* One reconnection while the queue is processed
SPECIFICATION Spec
CONSTANTS
    user = user  other = other
    person = person  version = version
    d1 = d1  d2 = d2
    DNs <- OneDN
    Classes = {person}
    Data = {d1}
    Queries <- UsersQuery
    MutableAttrs = {"data"}
    NonLeaf = {}
    VersionDN = other
    NewerVersions = {}
    QueueSize = 2
    MaxChange = 3
    MaxGap = 1
    MaxFaults = 1
    Faults = {"busydrop"}
INVARIANT NoSkip
\* A process whose worker was interrupted does stop.
CHECK_DEADLOCK FALSE
