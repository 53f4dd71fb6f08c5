--------------------------- MODULE MCCapiCustomers ---------------------------
(***************************************************************************)
(* A small instance of CapiCustomers for TLC.  A behaviour is either about *)
(* a customer's password and the time, without operators, or about two     *)
(* customers in the operators' group, which no login or time has to do     *)
(* with.                                                                   *)
(***************************************************************************)
EXTENDS CapiCustomers, TLC

CONSTANT Other

VARIABLE about

PasswordOnly ==
    /\ Other \notin used
    /\ \A r \in Busy : ~req[r].role /\ (req[r].arg = None => req[r].kept = None)

GroupOnly ==
    /\ \E d \in Digests : /\ \A c \in Customers : users[c] \in {None, d}
                         /\ \A r \in Busy : req[r].arg \in {None, d}
    /\ \A c \in Customers, d \in Digests : since[c][d] \in {0, Cap}
    /\ \A r \in Busy : \/ req[r].op = "create" /\ req[r].role
                       \/ req[r].arg = None /\ req[r].cust # Other
    /\ \A r \in Busy : req[r].at = "modify" => req[r].kept # None

MCInit == Init /\ about \in {"password", "group"}

MCNext ==
    /\ Next
    /\ about' = about
    /\ \/ about = "password" /\ PasswordOnly'
       \/ about = "group" /\ GroupOnly'

MCSpec == MCInit /\ [][MCNext]_<<vars, about>>

Symmetry == Permutations(Procs) \cup Permutations(Digests) \cup Permutations(Reqs)

=============================================================================
