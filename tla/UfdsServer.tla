----------------------------- MODULE UfdsServer -----------------------------
(***************************************************************************)
(* A UFDS server process (lib/ufds.js): how it sets up its buckets and     *)
(* starts to listen, and what it then does with a request: authorization   *)
(* (lib/db/authorize.js), ownership (lib/owner.js), validation             *)
(* (lib/schema, schema/) and the search (lib/db/search.js).                *)
(*                                                                         *)
(* A request may wait for moray's answer about the administrators' group,  *)
(* and a search waits between the look at its base and the search proper.  *)
(* The moray calls of one add, modify or delete, which Directory           *)
(* interleaves, are one step here; so are those of the reverse index       *)
(* between roles and policies, which RoleLinks interleaves and which may   *)
(* fail there for an etag.                                                 *)
(***************************************************************************)
EXTENDS EntrySchema, FiniteSets

CONSTANTS
    Dns,            \* of the entries that come and go
    Binders,        \* DNs that connections are bound with
    Root,           \* config.rootDN
    Group,          \* DN of the administrators' group
    Inputs(_),      \* the entries that are tried at a DN
    Found,          \* the versions its buckets may have when it is first started
    Inherited,      \* what earlier versions of UFDS may have left in moray
    Reqs,           \* slots for the requests in progress
    Version,        \* config.moray.version
    MaxLinks,       \* bound: how often a list of links names a DN
    MaxTime         \* bound: the clock

ASSUME ServerAssumption ==
    /\ IsFiniteSet(Dns)
    /\ \A dn \in Dns : IsDn(dn) /\ ParentOf(Users, dn)
    /\ \A dn \in Dns : \A i \in 1 .. Len(dn) : dn[i].type = "uuid" => dn[i].value \in Uuids
    /\ Group \notin Dns
    /\ None \notin Reqs \cup Binders
    /\ Version \in Nat \ {0} /\ Found \subseteq 0 .. Version + 1
    /\ MaxLinks \in Nat /\ MaxTime \in Nat

ASSUME InputsAssumption == \A dn \in Dns : Inputs(dn) \subseteq Entry(Dns, Nat)

Bases == Dns \cup {Users}

(* What is stored at a DN; invalid: the validators have not let it in, it  *)
(* was forced or is an earlier version's; doubled: the reverse index has   *)
(* put a name on its list of links that was there already.                 *)
Object(dn) ==
    [entry : Entry(Dns, Nat), owner : {ParseOwner(dn, "add")}, parent : Bases \cap {Tail(dn)},
     invalid : BOOLEAN, doubled : BOOLEAN]

ASSUME InheritedAssumption ==
    \A old \in Inherited :
        /\ old = [dn \in Dns |-> old[dn]]
        /\ \A dn \in Dns : old[dn] # None =>
               /\ old[dn] \in Object(dn) /\ ~old[dn].doubled
               /\ old[dn].invalid \/ RunValidations(old[dn].entry, dn, {}, "del", 0)

VARIABLES
    server,         \* where the process is
    buckets,        \* moray: the version of each bucket, 0 if it is missing
    store,          \* moray: the entry at each DN, or None
    group,          \* moray: uniquemember of the administrators' group
    req,            \* the request in each slot, or None
    now,
    \* bookkeeping
    last            \* what the last step has done for a request, or None

vars == <<server, buckets, store, group, req, now, last>>

-----------------------------------------------------------------------------
Buckets == {"clog", "main"}

Stored == {dn \in Dns : store[dn] # None}

(* What a request asks for; could: its binder has had the right to it      *)
(* since it arrived.                                                       *)
Request ==
    [by : Binders, op : {"add", "delete"}, dn : Dns, scope : {None}, could : BOOLEAN]
    \cup
    [by : Binders, op : {"modify"}, dn : Dns \cup {Group}, scope : {None}, could : BOOLEAN]
    \cup
    [by : Binders, op : {"search"}, dn : Bases, scope : {"base", "one", "sub"},
     could : BOOLEAN]

TypeOK ==
    /\ server \in {"connecting", "clog", "main", "check", "backoff", "listening"}
    /\ buckets \in [Buckets -> 0 .. Version + 1]
    /\ DOMAIN store = Dns
    /\ \A dn \in Stored :
        store[dn].owner \in Uuids \cup {None} /\ store[dn].parent \in Bases
    /\ group \subseteq Binders
    /\ \A r \in Reqs : req[r] # None =>
        /\ req[r].q \in Request /\ req[r].at \in {"group", "find"}
        /\ server = "listening"
    /\ now \in 0 .. MaxTime

Init ==
    /\ server = "connecting"
    /\ \E v \in Found : buckets = [b \in Buckets |-> v]
    /\ store \in Inherited
    /\ group \in SUBSET (Binders \cap Dns)
    /\ req = [r \in Reqs |-> None]
    /\ now = 0
    /\ last = None

-----------------------------------------------------------------------------
(* Setting up, when moray has connected.  Any failure starts the pipeline  *)
(* again from its first function, after a while.                           *)
Setup(from, to) ==
    /\ server = from
    /\ server' = to
    /\ UNCHANGED <<store, group, req, now, last>>

Connected == Setup("connecting", "clog") /\ UNCHANGED buckets

(* A newer bucket is acceptable (BucketVersionError).                      *)
PutBucket(b) ==
    buckets' = [buckets EXCEPT ![b] = IF @ < Version THEN Version ELSE @]

UpdateBucketClog == Setup("clog", "main") /\ PutBucket("clog")

UpdateBucketMain == Setup("main", "check") /\ PutBucket("main")

CheckReindexNeeded == Setup("check", "listening") /\ UNCHANGED buckets

SetupFails(at) ==
    /\ at \in {"clog", "main", "check"}
    /\ Setup(at, "backoff")
    /\ UNCHANGED buckets

\* Mutant: once a bucket is there, a failure is taken to be final.
RetryUnlessSet ==
    Setup("backoff", "clog") /\ buckets["clog"] = 0 /\ UNCHANGED buckets

Retry == Setup("backoff", "clog") /\ UNCHANGED buckets

\* Mutant: what was asked of the process that died is still waiting.
RestartedKeeping ==
    /\ server' = "connecting"
    /\ last' = None
    /\ UNCHANGED <<buckets, store, group, req, now>>

(* The process is gone, and SMF starts another one.                        *)
Restarted ==
    /\ server' = "connecting"
    /\ req' = [r \in Reqs |-> None]
    /\ last' = None
    /\ UNCHANGED <<buckets, store, group, now>>

-----------------------------------------------------------------------------
(* Authorization.                                                          *)
\* Mutant: an entry's children have the rights of the entry.
OwnsUpwards(by, dn) == by = Root \/ by = dn \/ ParentOf(dn, by)

Owns(by, dn) == by = Root \/ by = dn \/ ParentOf(by, dn)

Wait(r, q, at) ==
    /\ req' = [req EXCEPT ![r] = [q |-> q, at |-> at]]
    /\ last' = None
    /\ UNCHANGED <<server, buckets, store, group, now>>

Refused(r) ==
    /\ req' = [req EXCEPT ![r] = None]
    /\ last' = None
    /\ UNCHANGED <<server, buckets, store, group, now>>

(* The binder is not a member, or moray has failed.                        *)
InsufficientAccess(r) ==
    /\ req[r] # None /\ req[r].at = "group"
    /\ Refused(r)

(* A group without members has no uniquemember, of which the callback      *)
(* reads a property: it throws, and nothing catches it.                    *)
AuthorizeThrows(r) ==
    /\ req[r] # None /\ req[r].at = "group" /\ group = {}
    /\ Restarted

-----------------------------------------------------------------------------
(* The work, on an entry e where there is one; forced: with the            *)
(* ManageDSAIT control, which turns the validation off and which is used   *)
(* where it makes a difference.                                            *)
Done(r, q) ==
    /\ req' = [req EXCEPT ![r] = None]
    /\ last' = [op |-> q.op, could |-> q.could]
    /\ UNCHANGED <<server, buckets, now>>

Sent(r, q, sent, limit) ==
    /\ req' = [req EXCEPT ![r] = None]
    /\ last' = [op |-> "search", could |-> q.could, base |-> q.dn, scope |-> q.scope,
                sent |-> sent, limit |-> limit]
    /\ UNCHANGED <<server, buckets, store, group, now>>

Is(e, oc) == \E i \in DOMAIN e.objectclass : e.objectclass[i] = oc

(* preloadAccount makes what has a login and is added below an account a   *)
(* user of it, after the validation; an account it names already is kept.  *)
WithAccount(dn, e) ==
    IF /\ Is(e, "sdcperson") /\ ~e.imported
       /\ Tail(dn) \in Stored /\ Is(store[Tail(dn)].entry, "sdcperson")
    THEN [e EXCEPT !.account = IF @ = <<>> THEN store[Tail(dn)].entry.id ELSE @,
                   !.objectclass = IF Is(e, "sdcaccountuser") THEN @
                                   ELSE Append(@, "sdcaccountuser")]
    ELSE e

(* Roles and policies list each other: an entry of one class that is added *)
(* to, or taken off, the list of an entry of the other in turn has that    *)
(* one's name put on, or taken off, its own list (roleGroupReverseIndex).  *)
Kind(e) ==
    IF Is(e, "sdcaccountpolicy") THEN "policy"
    ELSE IF Is(e, "sdcaccountrole") THEN "role" ELSE "neither"

Linked(e) == Kind(e) # "neither"

Names(e) == IF Linked(e) THEN {k \in Dns : e.links[k] > 0} ELSE {}

(* A linked entry after the write: it is not validated.                    *)
Relinked(x, dn, put) ==
    LET n == x.entry.links[dn]
        e == [x.entry EXCEPT !.links[dn] = IF put THEN n + 1 ELSE 0]
    IN  [x EXCEPT !.entry = e, !.doubled = (@ \/ (put /\ n > 0)) /\ ~NamesOnce(e)]

(* The batch that writes x at dn, with its name put on and taken off the   *)
(* lists of others.  A linked entry must exist.                            *)
Others(e) ==
    {k \in Stored : Linked(e) /\ Kind(store[k].entry) \notin {"neither", Kind(e)}}

Batch(dn, e, x, put, drop) ==
    /\ put \cup drop \subseteq Stored
    /\ \A k \in put : store[k].entry.links[dn] < MaxLinks
    /\ store' = [k \in Dns |->
           IF k = dn THEN x
           ELSE IF k \in (put \cup drop) \cap Others(e) THEN Relinked(store[k], dn, k \in put)
           ELSE store[k]]

Add(r, q, e, forced) ==
    /\ q.op = "add"
    /\ store[q.dn] = None
    /\ Tail(q.dn) \in Stored \cup {Users}
    /\ LET valid == RunValidations(e, q.dn, {}, "add", now)
           x == [entry |-> WithAccount(q.dn, e), owner |-> ParseOwner(q.dn, "add"),
                 parent |-> Tail(q.dn), invalid |-> ~valid, doubled |-> FALSE]
       IN  /\ forced = ~valid
           /\ Batch(q.dn, e, x, Names(e), {})
    /\ Done(r, q)
    /\ UNCHANGED group

Changed(e, f) == {x \in DOMAIN e : e[x] # f[x]}

(* The changed entry is validated; _imported is protected.  A name that is *)
(* not on the list, but that some change puts there, is linked, and one    *)
(* that is there, but that some change takes off, is unlinked, whatever    *)
(* the other changes do with it: such names are also.                      *)
Modify(r, q, e, forced) ==
    /\ q.op = "modify" /\ q.dn # Group
    /\ store[q.dn] # None
    /\ LET old == store[q.dn].entry
           valid == RunValidations(e, q.dn, Changed(old, e), "modify", now)
           x == [store[q.dn] EXCEPT !.entry = e, !.invalid = ~valid,
                                    !.doubled = @ /\ ~NamesOnce(e)]
       IN  /\ e.imported = old.imported
           /\ forced = ~valid
           /\ \E also \in SUBSET Others(old) :
                  Batch(q.dn, old, x, (Names(e) \cup also) \ Names(old),
                        (Names(old) \ Names(e)) \cup (Names(old) \cap also))
    /\ Done(r, q)
    /\ UNCHANGED group

(* Nobody is a member twice, which is all that is validated.               *)
ModifyGroup(r, q, members) ==
    /\ q.op = "modify" /\ q.dn = Group
    /\ group' = members
    /\ req' = [x \in Reqs |->
           IF x = r \/ req[x] = None THEN None
           ELSE [req[x] EXCEPT !.q.could = @ \/ req[x].q.by \in members]]
    /\ last' = [op |-> q.op, could |-> q.could]
    /\ UNCHANGED <<server, buckets, store, now>>

(* entryExists, childExists and the validation; none of the classes here   *)
(* has attributes that are immutable.                                      *)
Delete(r, q, forced) ==
    /\ q.op = "delete"
    /\ store[q.dn] # None
    /\ \A k \in Stored : store[k].parent # q.dn
    /\ forced = ~RunValidations(store[q.dn].entry, q.dn, {}, "del", now)
    /\ LET old == store[q.dn].entry IN Batch(q.dn, old, None, {}, Names(old))
    /\ Done(r, q)
    /\ UNCHANGED group

(* The base of a search must exist; a search of the base alone ends here.  *)
SearchBase(r, q) ==
    /\ q.op = "search"
    /\ q.dn \in Stored \cup {Users}
    /\ IF q.scope = "base"
       THEN Sent(r, q, {q.dn}, None)
       ELSE Wait(r, q, "find")

(* What moray finds: by the parent and the owner for one level, by the end *)
(* of its key for a subtree.  Users itself matches no filter used here.    *)
Matches(base, scope) ==
    {k \in Stored :
        IF scope = "one"
        THEN /\ store[k].parent = base
             /\ \/ ParseOwner(base, "search") = None
                \/ store[k].owner = ParseOwner(base, "search")
        ELSE EndsWith(k, base)}

(* moray finds no more than limit, and validateDepth drops what it should  *)
(* not have found.                                                         *)
SearchChildren(r, limit) ==
    /\ req[r] # None /\ req[r].at = "find"
    /\ LET q == req[r].q
           all == Matches(q.dn, q.scope)
           enough == limit = None \/ Cardinality(all) <= limit
       IN  \E some \in SUBSET all :
            /\ IF enough THEN some = all ELSE Cardinality(some) = limit
            /\ Sent(r, q, {k \in some : ValidateDepth(q.dn, q.scope, k)}, limit)

Work(r, q) ==
    \/ \E e \in Inputs(q.dn), forced \in BOOLEAN : Add(r, q, e, forced) \/ Modify(r, q, e, forced)
    \/ \E members \in SUBSET (Binders \cap Dns) : ModifyGroup(r, q, members)
    \/ \E forced \in BOOLEAN : Delete(r, q, forced)
    \/ SearchBase(r, q)

(* A request arrives.  For the root and for whom the entry is below the    *)
(* work begins at once, for others moray is asked for the group.           *)
Arrive(r, q) ==
    /\ server = "listening"
    /\ req[r] = None
    /\ q.could = (q.by = Root \/ q.by = q.dn \/ ParentOf(q.by, q.dn) \/ q.by \in group)
    /\ IF Owns(q.by, q.dn) THEN Work(r, q) ELSE Wait(r, q, "group")

(* moray has answered with the group.                                      *)
Authorized(r) ==
    /\ req[r] # None /\ req[r].at = "group" /\ req[r].q.by \in group
    /\ Work(r, req[r].q)

(* moray has failed, or an entry, the base or the parent is not there.     *)
Fails(r) ==
    /\ req[r] # None /\ req[r].at = "find"
    /\ Refused(r)

Tick ==
    /\ now < MaxTime
    /\ now' = now + 1
    /\ last' = None
    /\ UNCHANGED <<server, buckets, store, group, req>>

-----------------------------------------------------------------------------
SetupNext ==
    \/ Connected \/ UpdateBucketClog \/ UpdateBucketMain \/ CheckReindexNeeded \/ Retry
    \/ \E at \in {"clog", "main", "check"} : SetupFails(at)
    \/ Restarted

Next ==
    \/ SetupNext
    \/ \E r \in Reqs :
        \/ \E q \in Request : Arrive(r, q)
        \/ Authorized(r) \/ InsufficientAccess(r) \/ AuthorizeThrows(r)
        \/ \E limit \in {None, 1} : SearchChildren(r, limit)
        \/ Fails(r)
    \/ Tick

Spec == Init /\ [][Next]_vars

(* moray is connected to in the end, and each of the calls succeeds some   *)
(* time if it is made again and again.                                     *)
FairSpec ==
    /\ Spec
    /\ WF_vars(Connected) /\ WF_vars(Retry)
    /\ SF_vars(UpdateBucketClog) /\ SF_vars(UpdateBucketMain)
    /\ SF_vars(CheckReindexNeeded)

-----------------------------------------------------------------------------
(* A server that listens has its buckets, at the version it needs or a     *)
(* newer one, however often the set-up has failed and wherever.            *)
ServesConfigured ==
    server = "listening" => \A b \in Buckets : buckets[b] >= Version

(* A server comes to listen again and again, whatever fails when it sets   *)
(* up and how often it goes down.                                          *)
EventuallyListens == []<>(server = "listening")

(* Nothing is changed and nothing found for somebody who had no right to   *)
(* it at any time of the request.                                          *)
OnlyAuthorized == last # None => last.could

(* A search finds exactly what its scope says.  A limit cuts off no more   *)
(* than it should, unless the text of a DN outside of the subtree ends     *)
(* like the base's.                                                        *)
InScope(base, scope) ==
    {k \in Stored :
        \/ scope = "base" /\ k = base
        \/ scope = "one" /\ ParentOf(base, k) /\ Len(k) = Len(base) + 1
        \/ scope = "sub" /\ (ParentOf(base, k) \/ k = base)}

ScopeExact ==
    last # None /\ last.op = "search" =>
        LET scope == InScope(last.base, last.scope)
        IN  /\ last.sent \subseteq scope \cup {Users}
            /\ last.limit = None => scope \subseteq last.sent
            /\ last.limit # None /\ (\A k \in Stored \ scope : ~EndsWith(k, last.base)) =>
                   Cardinality(last.sent) >= IF Cardinality(scope) < last.limit
                                             THEN Cardinality(scope) ELSE last.limit

(* What the validators have let in can be deleted without the ManageDSAIT  *)
(* control, now and at any later time, a credential that has expired above *)
(* all: del validates the entry once more.  This says nothing of entries   *)
(* that were forced, or of those an earlier version has left, like the     *)
(* keys of schema/accesskey.js.  Of the others just two become             *)
(* undeletable: a user that preloadAccount made one of an account, but not *)
(* of the one above it, and a role or policy while its list has a name     *)
(* twice because the reverse index put it there again, unvalidated.        *)
StoredDeletable ==
    \A dn \in Stored :
        \/ store[dn].invalid
        \/ Is(store[dn].entry, "sdcaccountuser") /\ store[dn].entry.account # <<dn[2].value>>
        \/ store[dn].doubled
        \/ RunValidations(store[dn].entry, dn, {}, "del", now)

=============================================================================
