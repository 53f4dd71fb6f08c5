----------------------------- MODULE MCRoleLinks -----------------------------
(***************************************************************************)
(* Small instances of RoleLinks for TLC: the roles and the policies of one *)
(* account are interchangeable among themselves, and so are the requests.  *)
(***************************************************************************)
EXTENDS RoleLinks, SequencesExt

Symmetry == Permutations(Roles) \cup Permutations(Policies) \cup Permutations(Slots)

\* Two changes in a row: Result is the fold of the changes.
ASSUME ResultIsFold ==
    \A dn \in DNs : \A entry \in SUBSET OtherKind(dn) :
        \A changes \in [1 .. 2 -> Changes(dn)] :
            Result(entry, changes) = FoldLeft(Modified, entry, changes)

=============================================================================
