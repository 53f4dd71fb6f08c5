--------------------------- MODULE ChangelogReplica ---------------------------
(***************************************************************************)
(* What the replicator promises (docs/ufds-replicator.md, "Changelogs"):   *)
(* the operations of the remote UFDS are announced in an ordered way, and  *)
(* the replica applies each of them, in that order and once, keeping the   *)
(* entries the replication profile selects.  No polling, no queue, no      *)
(* checkpoint and no failure appears here.                                 *)
(***************************************************************************)
EXTENDS ReplicationData

CONSTANT Numbers   \* the changenumbers, a set of positive integers

VARIABLES
    clog,   \* the changelog: changenumber -> record, with gaps
    done,   \* the changenumbers the replica has applied
    image   \* the selected entries held by the replica

vars == <<clog, done, image>>

Init ==
    /\ clog = <<>>
    /\ done = {}
    /\ image = [dn \in DNs |-> None]

\* The remote appends one record, above every number used so far.
Publish ==
    \E number \in Numbers, change \in Changes :
        /\ \A n \in DOMAIN clog : n < number
        /\ clog' = [n \in DOMAIN clog \cup {number} |->
                        IF n = number THEN change ELSE clog[n]]
        /\ UNCHANGED <<done, image>>

\* The replica applies the oldest record it has not applied and must apply.
Apply(n) ==
    /\ n \in DOMAIN clog \ done
    /\ \A m \in DOMAIN clog : m < n /\ CouldReplicate(clog[m]) => m \in done
    /\ done' = done \cup {n}
    /\ image' = [image EXCEPT ![clog[n].dn] =
                    IF clog[n].type # "delete" /\ Eligible(clog[n].dn, clog[n].entry)
                      THEN clog[n].entry ELSE None]
    /\ UNCHANGED clog

Next == Publish \/ \E n \in DOMAIN clog : Apply(n)

Spec == Init /\ [][Next]_vars
=============================================================================
