----------------------------- MODULE MCDirectory -----------------------------
(***************************************************************************)
(* Small instances of Directory for TLC.                                   *)
(***************************************************************************)
EXTENDS Directory, TLC

CONSTANTS
    acct1, acct2, sub,  \* DNs
    bob, BOB,           \* logins that differ in case only
    d1, d2              \* values

OneOwner == [dn \in {sub} |-> acct1]

\* Two bare logins, and one with the uuid of another account.
SomeLogins == {Bare(bob), Bare(BOB), [scope |-> acct2, name |-> bob]}

Symmetry == Permutations(Slots)

LowerCase == [name \in {bob, BOB} |-> bob]

=============================================================================
