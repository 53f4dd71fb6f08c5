\* Two requests at a time
SPECIFICATION Spec
CONSTANTS
    acct1 = acct1  acct2 = acct2  sub = sub
    bob = bob  BOB = BOB
    d1 = d1  d2 = d2
    Accounts = {acct1, acct2}
    SubUsers = {sub}
    Owner <- OneOwner
    Logins = {bob, BOB}
    Canonical <- LowerCase
    Written <- SomeLogins
    Data = {d1, d2}
    Slots = {s1, s2}
    MaxRecords = 3
SYMMETRY Symmetry
INVARIANT ReplicaFollows
\* The changelog is bounded.
CHECK_DEADLOCK FALSE
