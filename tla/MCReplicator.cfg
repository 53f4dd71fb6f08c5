\* A process that is not restarted: failing searches, operations and checkpoint writes, and a
\* remote connection that closes while no record is being processed
SPECIFICATION FairSpec
CONSTANTS
    user = user  other = other
    person = person  version = version
    d1 = d1  d2 = d2
    DNs <- TwoDNs
    Classes = {person}
    Data = {d1, d2}
    Queries <- UsersQuery
    MutableAttrs = {"data"}
    NonLeaf = {}
    VersionDN = other
    NewerVersions = {}
    QueueSize = 2
    MaxChange = 3
    MaxGap = 1
    MaxFaults = 1
    Faults = {"search", "op", "set", "drop"}
INVARIANT Converged
INVARIANT NeverExits
PROPERTY CaughtUpComplete
PROPERTY OrderedReplay
PROPERTY EventuallyReplicated
