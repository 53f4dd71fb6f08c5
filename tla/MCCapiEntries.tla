---------------------------- MODULE MCCapiEntries ----------------------------
(***************************************************************************)
(* A small instance of CapiEntries for TLC: a value that parseInt changes  *)
(* among the values, and a member of the role that is an account with a    *)
(* user.  A behaviour is one of a limit entry, of a metadata entry or of   *)
(* the keys, which have nothing in common, and then of at most MaxChanges  *)
(* changes.                                                                *)
(***************************************************************************)
EXTENDS CapiEntries, TLC

CONSTANTS Ten, TenDot, Other, User, MaxChanges

VARIABLE changes

MCParsed == [v \in Values |-> IF v = TenDot THEN Ten ELSE v]

MCParent == [u \in Users |-> Other]

OneEntry ==
    \E e \in Entries :
        /\ \A r \in Busy : req[r].entry = e
        /\ \A x \in Entries \ {e} : entries[x] = Absent

NoKeys ==
    /\ keyVars = <<[o \in Owners |-> {}], Members, {}>>
    /\ foundVars = <<[x \in Asked |-> None], [s \in Searches |-> None]>>
    /\ login = Nothing /\ accepted = Nothing /\ changes = 0

MCInit == Init /\ changes = 0

MCNext ==
    \/ EntriesNext /\ OneEntry' /\ NoKeys /\ UNCHANGED changes
    \/ /\ req = [r \in Reqs |-> Nothing] /\ entries = [e \in Entries |-> Absent]
       /\ KeysNext
       /\ changes' = IF keyVars' = keyVars THEN changes ELSE changes + 1
       /\ changes' <= MaxChanges

MCSpec == MCInit /\ [][MCNext]_<<vars, changes>>

Symmetry == Permutations(Reqs) \cup Permutations(Fields)

=============================================================================
