--------------------------- MODULE ReplicationData ---------------------------
(***************************************************************************)
(* Directory entries, changelog records and the replication queries, as    *)
(* the replicator (lib/ufds-replicator) sees them.                         *)
(*                                                                         *)
(* An entry is abstracted to its objectclass and one other attribute.      *)
(* Every query the product is deployed with (sapi_manifests/ufds-          *)
(* replicator/template) filters on objectclass alone, so a query is the    *)
(* set of DNs below its base and the set of classes its filter matches.    *)
(***************************************************************************)
EXTENDS Integers, FiniteSets

CONSTANTS
    DNs,            \* target DNs that occur in the changelog
    Classes,        \* objectclasses
    Data,           \* values of the other attribute
    Queries,        \* set of [scope : SUBSET DNs, filter : SUBSET Classes]
    MutableAttrs,   \* the attributes a modify may replace, subset of Attrs
    NonLeaf,        \* DNs with local-only children: UFDS refuses to delete them
    VersionDN,      \* the DN 'cn=version, o=smartdc'
    NewerVersions   \* versions above localUfdsVersion, a subset of Data

Attrs == {"cls", "data"}

ASSUME QueriesAssumption ==
    \A q \in Queries : q.scope \subseteq DNs /\ q.filter \subseteq Classes

ASSUME AttrsAssumption == MutableAttrs \subseteq Attrs

Entries == [cls : Classes, data : Data]

None == [cls |-> "none", data |-> "none"]

\* None stands for "no such entry".
ASSUME NoneAssumption == None \notin Entries

MaybeEntry == Entries \cup {None}

(***************************************************************************)
(* A changelog record: lib/db/changelog.js writes the whole entry as the   *)
(* changes of an add, the deleted entry as the changes of a delete, and    *)
(* both the changes and the resulting entry of a modify.                   *)
(***************************************************************************)
Changes == [type : {"add", "modify", "delete"}, dn : DNs, attr : Attrs, entry : Entries]

Change(type, dn, attr, entry) ==
    [type |-> type, dn |-> dn, attr |-> attr, entry |-> entry]

\* The replication profile: an entry belongs on the replica when one query
\* covers its DN and that same query's filter matches it.
Eligible(dn, entry) ==
    \E q \in Queries : dn \in q.scope /\ entry.cls \in q.filter

\* Mutant: a delete is never replicated.
MatchesNoDelete(change) ==
    \E q \in Queries : /\ change.dn \in q.scope
                       /\ change.type # "delete"
                       /\ change.entry.cls \in q.filter

\* Instance.prototype.couldReplicate
CouldReplicate(change) ==
    \E q \in Queries : /\ change.dn \in q.scope
                       /\ change.type = "delete" \/ change.entry.cls \in q.filter

\* matches() in operations.js: any query's filter, whatever that query's DN.
Matches(entry) == \E q \in Queries : entry.cls \in q.filter

\* The version gate of handleEntry: a newer schema version of the remote.
VersionTooNew(change) ==
    /\ change.dn = VersionDN
    /\ \/ change.type = "add"
       \/ change.type = "modify" /\ change.attr = "data"
    /\ change.entry.data \in NewerVersions

\* changesObject and ufds.modify: the recorded changes applied to an entry.
ApplyChanges(base, change) ==
    [cls  |-> IF change.attr = "cls" THEN change.entry.cls ELSE base.cls,
     data |-> IF change.attr = "data" THEN change.entry.data ELSE base.data]

\* The part of a directory that the replication profile selects.
View(directory) ==
    [dn \in DNs |-> IF directory[dn] # None /\ Eligible(dn, directory[dn])
                      THEN directory[dn] ELSE None]

=============================================================================
