\* Two requests at a time on a limit entry and a metadata entry
SPECIFICATION MCSpec
CONSTANTS
    Limits = {dc1}
    Metadata = {app1}
    Fields = {f1, f2}
    Values = {Ten, TenDot}
    Ten = Ten
    TenDot = TenDot
    Parsed <- MCParsed
    Reqs = {r1, r2}
    None = None
    Account = Account
    Other = Other
    Members = {Other, m2}
    User = User
    Users = {User}
    Parent <- MCParent
    Keys = {k1}
    Role = Role
    Searches = {s1}
    Expiry = 1
    Timeout = 1
    MaxChanges = 3
SYMMETRY Symmetry
INVARIANT TypeOK
INVARIANT PutAloneSucceeds
INVARIANT SmartloginRight
PROPERTY DeletesWhatItSaw
