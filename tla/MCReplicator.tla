---------------------------- MODULE MCReplicator ----------------------------
(***************************************************************************)
(* Small instances of Replicator for TLC: the constant sets the .cfg files *)
(* choose from.                                                            *)
(***************************************************************************)
EXTENDS Replicator

CONSTANTS
    user, other,        \* DNs: below ou=users, and elsewhere in o=smartdc
    person, version,    \* objectclasses
    d1, d2              \* values

OneDN  == {user}
TwoDNs == {user, other}

\* /ou=users, o=smartdc??sub?(objectclass=sdcperson)
UsersQuery == {[scope |-> {user}, filter |-> {person}]}

\* The first two queries of the deployed template: every user whatever its
\* class, and the version entry anywhere below o=smartdc.
TemplateQueries ==
    {[scope |-> {user}, filter |-> {person, version}],
     [scope |-> {user, other}, filter |-> {version}]}

=============================================================================
