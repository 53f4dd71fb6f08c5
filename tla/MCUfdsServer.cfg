\* A server, one request at a time on the entries of one account
SPECIFICATION FairSpec
CONSTANTS
    a = a
    u = u
    Uuids = {a, u}
    Classes <- MCClasses
    None = None
    IsMaster = TRUE
    Dns <- MCDns
    Binders <- MCBinders
    Root <- MCRoot
    Group <- MCGroup
    Inputs <- MCInputs
    Found = {0}
    Inherited <- MCInherited
    Reqs = {r1}
    Version = 1
    MaxLinks = 2
    MaxTime = 1
INVARIANT TypeOK
INVARIANT OnlyAuthorized
INVARIANT ScopeExact
INVARIANT StoredDeletable
PROPERTY EventuallyListens
