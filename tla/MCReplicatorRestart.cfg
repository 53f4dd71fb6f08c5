\* Restarts, reconnections of an idle process, lost answers and rejected operations, with the
\* queries of the deployed template: the version entry is replicated
SPECIFICATION Spec
CONSTANTS
    user = user  other = other
    person = person  version = version
    d1 = d1  d2 = d2
    DNs <- TwoDNs
    Classes = {person, version}
    Data = {d1, d2}
    Queries <- TemplateQueries
    MutableAttrs = {"data"}
    NonLeaf = {user}
    VersionDN = other
    NewerVersions = {d2}
    QueueSize = 2
    MaxChange = 3
    MaxGap = 1
    MaxFaults = 2
    Faults = {"crash", "drop", "lost", "set", "get", "reject", "reorder"}
INVARIANT NoSkip
INVARIANT VersionBarrier
\* A process whose checkpoint read failed, or whose exit is due to an entry that exists, does stop.
CHECK_DEADLOCK FALSE
