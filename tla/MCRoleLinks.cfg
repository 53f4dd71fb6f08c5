\* Two requests at a time on two roles and a policy
SPECIFICATION Spec
CONSTANTS
    Roles = {r1, r2}
    Policies = {p1}
    Slots = {s1, s2}
    MaxChanges = 1
SYMMETRY Symmetry
INVARIANT TypeOK
INVARIANT SymmetricSerial
PROPERTY OnlyOwnLink
