------------------------------ MODULE Directory ------------------------------
(***************************************************************************)
(* The write operations of the UFDS server (lib/db/add.js, mod.js, del.js, *)
(* changelog.js, common.js) on the accounts and sub-users of a directory.  *)
(*                                                                         *)
(* A request runs through a chain of handlers.  Those that call moray wait *)
(* for its answer, and other requests are served meanwhile: an action is a *)
(* handler's moray call with the synchronous handlers that follow it.  The *)
(* last call is one batch, the entry and its changelog record, that moray  *)
(* commits or aborts as a whole.                                           *)
(*                                                                         *)
(* Logins of sub-users are stored with the uuid of their account in front, *)
(* so that two accounts can have sub-users of the same name.  A client may *)
(* write a prefix itself.  An imported entry, one that comes with its salt *)
(* and the class of sub-users, is stored as it is written.                 *)
(***************************************************************************)
EXTENDS Integers, Sequences

CONSTANTS
    Accounts,       \* DNs right below ou=users
    SubUsers,       \* DNs below an account
    Owner,          \* the account of a sub-user: [SubUsers -> Accounts]
    Logins,         \* login names
    Canonical,      \* a login name in lower case: [Logins -> Logins]
    Written,        \* logins as clients write them, with a prefix or without
    Data,           \* values of the other attributes
    Slots,          \* requests that can be under way at the same time
    MaxRecords      \* bound: changelog records

ASSUME OwnerAssumption == Owner \in [SubUsers -> Accounts]

ASSUME DisjointAssumption == Accounts \cap SubUsers = {}

ASSUME CanonicalAssumption == Canonical \in [Logins -> Logins]

-----------------------------------------------------------------------------
NoScope == "top"
NoAlias == "none"

ASSUME NoAliasAssumption == NoAlias \notin Logins

\* A login, as stored or as a client writes it: 'name', or 'uuid/name'.
ScopedLogins == [scope : Accounts \cup {NoScope}, name : Logins]

Bare(name) == [scope |-> NoScope, name |-> name]

ASSUME WrittenAssumption == Written \subseteq ScopedLogins

VARIABLES
    dir,            \* the bucket of the directory
    clog,           \* the changelog, in the order of its changenumbers
    req,            \* the requests under way
    \* bookkeeping
    image,          \* what a downstream UFDS holds that has replayed clog
    overlapped      \* two requests have been under way at the same time

vars == <<dir, clog, req, image, overlapped>>

-----------------------------------------------------------------------------
DNs == Accounts \cup SubUsers

Entries == [login : ScopedLogins, alias : Logins \cup {NoAlias}, data : Data, imported : BOOLEAN]

None == [login |-> Bare(NoAlias), alias |-> NoAlias, data |-> NoAlias, imported |-> FALSE]

NoChange == [attr |-> "none", op |-> "none", val |-> NoAlias]

\* What a client modifies: its login, or any other attribute.
Changes == [attr : {"login"}, op : {"replace", "add", "delete"}, val : ScopedLogins]
              \cup [attr : {"data"}, op : {"replace"}, val : Data]

\* A changelog record.  An add holds the entry, a delete the entry that was
\* loaded, a modify the changes and the entry that results from them.
Records ==
    [type : {"add", "delete"}, dn : DNs, change : {NoChange}, entry : Entries]
        \cup [type : {"modify"}, dn : DNs, change : Changes, entry : Entries]

AddSteps    == {"entryExists", "parentExists", "preloadAccount", "validateLogin", "commit"}
ModifySteps == {"load", "preloadAccount", "commit"}
DeleteSteps == {"entryExists", "childExists", "load", "commit"}

\* A request under way; its entry is the one to add, or the one loaded.
Requests ==
    [type : {"add"}, step : AddSteps, dn : DNs, change : {NoChange}, entry : Entries]
        \cup [type : {"modify"}, step : ModifySteps, dn : DNs, change : Changes,
              entry : Entries \cup {None}]
        \cup [type : {"delete"}, step : DeleteSteps, dn : DNs, change : {NoChange},
              entry : Entries \cup {None}]

Idle == [type |-> "none"]

TypeOK ==
    /\ dir \in [DNs -> Entries \cup {None}]
    /\ clog \in Seq(Records)
    /\ req \in [Slots -> Requests \cup {Idle}]
    /\ image \in [DNs -> Entries \cup {None}]
    /\ overlapped \in BOOLEAN

Init ==
    /\ dir = [dn \in DNs |-> None]
    /\ clog = <<>>
    /\ req = [s \in Slots |-> Idle]
    /\ image = [dn \in DNs |-> None]
    /\ overlapped = FALSE

-----------------------------------------------------------------------------
Present(dn) == dir[dn] # None

\* ou=users, the parent of every account, is always there.
ParentPresent(dn) == dn \in SubUsers => Present(Owner[dn])

Scope(dn) == IF dn \in SubUsers THEN Owner[dn] ELSE NoScope

\* preloadAccount has found the account of the entry.
Preloaded(dn, entry) == dn \in SubUsers /\ ~entry.imported

\* The login gets the uuid of the account, unless there is a uuid already.
Prefixed(dn, login) == IF login.scope = NoScope THEN [login EXCEPT !.scope = Scope(dn)] ELSE login

\* scopeSubAccount: the login of a sub-user gets the uuid of its account and
\* its name is kept as alias.
Scoped(dn, entry) ==
    IF Preloaded(dn, entry)
      THEN [entry EXCEPT !.login = Prefixed(dn, @), !.alias = entry.login.name]
      ELSE entry

\* _subUser: a sub-user is loaded with its bare login.
Unscoped(dn, entry) == IF dn \in SubUsers THEN [entry EXCEPT !.login.scope = NoScope] ELSE entry

\* Mutant: what _subUser did is not undone when login is not modified.
ChangeKeepsBareLogin(dn, entry, change) ==
    IF change.attr = "data"
      THEN [entry EXCEPT !.data = change.val]
      ELSE IF change.op = "replace"
             THEN Scoped(dn, [entry EXCEPT !.login = change.val])
             ELSE entry

\* change: a login that replaces another gets its prefix and is the alias.
\* One that is added or deleted is not (schema), and what _subUser did is
\* undone only when login is not modified.
Changed(dn, entry, change) ==
    IF change.attr = "data"
      THEN [entry EXCEPT !.data = change.val, !.login.scope = IF dn \in SubUsers THEN Scope(dn) ELSE @]
      ELSE IF change.op = "replace"
             THEN Scoped(dn, [entry EXCEPT !.login = change.val])
             ELSE entry

\* The schema wants one login: only one that is there can be added, and only
\* one that is not there deleted.
SchemaAccepts(entry, change) ==
    /\ change.op = "add" => change.val = entry.login
    /\ change.op = "delete" => change.val # entry.login

\* Mutant: the change is logged as the client wrote it.
LoggedAsWritten(dn, change) == change

\* save: the changelog has the login of a sub-user with its prefix.
Logged(dn, change) ==
    IF change.attr = "login" THEN [change EXCEPT !.val = Prefixed(dn, @)] ELSE change

\* The unique index of moray on login.
LoginFree(dn, login) ==
    \A other \in DNs \ {dn} : Present(other) => dir[other].login # login

\* Mutant: the case of letters counts.
LoginTakenSameCase(dn, name) ==
    \E other \in DNs :
        /\ Present(other)
        /\ dir[other].login.scope = Scope(dn)
        /\ dir[other].login.name = name

\* The regular expression of validateLogin ignores case.
LoginTaken(dn, name) ==
    \E other \in DNs :
        /\ Present(other)
        /\ dir[other].login.scope = Scope(dn)
        /\ Canonical[dir[other].login.name] = Canonical[name]

-----------------------------------------------------------------------------
(***************************************************************************)
(* A downstream UFDS replays the records through the same chains, with     *)
(* entries marked as replicated: no account is preloaded, so a login is    *)
(* stored as the record has it and the alias is left alone.                *)
(***************************************************************************)
ReplayedChange(dn, entry, change) ==
    LET loaded == Unscoped(dn, entry)
    IN  CASE ~SchemaAccepts(loaded, change) -> entry
          [] SchemaAccepts(loaded, change) /\ change.attr = "data" -> Changed(dn, loaded, change)
          [] SchemaAccepts(loaded, change) /\ change.attr = "login" ->
                IF change.op = "replace" THEN [loaded EXCEPT !.login = change.val] ELSE loaded

Replayed(record) ==
    CASE record.type \in {"add", "modify"} /\ image[record.dn] = None -> record.entry
      [] record.type = "modify" /\ image[record.dn] # None ->
            ReplayedChange(record.dn, image[record.dn], record.change)
      [] record.type = "delete"
           /\ \A sub \in SubUsers : Owner[sub] = record.dn => image[sub] = None -> None
      [] OTHER -> image[record.dn]

\* changelog: the record goes into the same batch as the entry.
Log(record) ==
    /\ clog' = Append(clog, record)
    /\ image' = [image EXCEPT ![record.dn] = Replayed(record)]

-----------------------------------------------------------------------------
Begin(s, request) ==
    /\ req[s] = Idle
    /\ Len(clog) < MaxRecords
    /\ req' = [req EXCEPT ![s] = request]
    /\ overlapped' = (overlapped \/ \E t \in Slots : req[t] # Idle)
    /\ UNCHANGED <<dir, clog, image>>

\* validateLogin refuses a prefix, but does not look at imported entries.
BeginAdd(s) ==
    \E dn \in DNs, login \in Written, data \in Data, imported \in BOOLEAN :
        /\ login.scope = NoScope \/ imported
        /\ Begin(s, [type |-> "add", step |-> "entryExists", dn |-> dn, change |-> NoChange,
                     entry |-> [login |-> login, alias |-> NoAlias, data |-> data,
                                imported |-> imported]])

BeginModify(s) ==
    \E dn \in DNs, change \in Changes :
        /\ change.attr = "login" => change.val \in Written
        /\ Begin(s, [type |-> "modify", step |-> "load", dn |-> dn,
                     change |-> change, entry |-> None])

BeginDelete(s) ==
    \E dn \in DNs :
        Begin(s, [type |-> "delete", step |-> "entryExists", dn |-> dn,
                  change |-> NoChange, entry |-> None])

At(s, type, step) == req[s] # Idle /\ req[s].type = type /\ req[s].step = step

\* The handler calls next(): the chain goes on, or ends with an error.
Continue(s, step) == req' = [req EXCEPT ![s].step = step]

Finish(s) == req' = [req EXCEPT ![s] = Idle]

Check(s, condition, step) ==
    /\ IF condition THEN Continue(s, step) ELSE Finish(s)
    /\ UNCHANGED <<dir, clog, image, overlapped>>

\* Moray fails or times out: the chain ends and nothing is written.
MorayFails(s) ==
    /\ req[s] # Idle
    /\ Finish(s)
    /\ UNCHANGED <<dir, clog, image, overlapped>>

-----------------------------------------------------------------------------
(* add *)

AddEntryExists(s) ==
    /\ At(s, "add", "entryExists")
    /\ Check(s, ~Present(req[s].dn), "parentExists")

AddParentExists(s) ==
    /\ At(s, "add", "parentExists")
    /\ Check(s, ParentPresent(req[s].dn), "preloadAccount")

AddPreloadAccount(s) ==
    /\ At(s, "add", "preloadAccount")
    /\ Check(s, req[s].entry.imported \/ ParentPresent(req[s].dn), "validateLogin")

ValidateLogin(s) ==
    /\ At(s, "add", "validateLogin")
    /\ Check(s, req[s].entry.imported \/ ~LoginTaken(req[s].dn, req[s].entry.login.name), "commit")

\* Mutant: the put carries no etag, so it replaces an entry.
CommitAddNoEtag(s) ==
    /\ At(s, "add", "commit")
    /\ LET dn    == req[s].dn
           entry == Scoped(dn, req[s].entry)
       IN  IF LoginFree(dn, entry.login)
             THEN /\ dir' = [dir EXCEPT ![dn] = entry]
                  /\ Log([type |-> "add", dn |-> dn, change |-> NoChange, entry |-> entry])
             ELSE UNCHANGED <<dir, clog, image>>
    /\ Finish(s)
    /\ UNCHANGED overlapped

\* save puts the entry with a null etag: the batch aborts when the key
\* exists, and when the unique index refuses the login.
CommitAdd(s) ==
    /\ At(s, "add", "commit")
    /\ LET dn    == req[s].dn
           entry == Scoped(dn, req[s].entry)
       IN  IF ~Present(dn) /\ LoginFree(dn, entry.login)
             THEN /\ dir' = [dir EXCEPT ![dn] = entry]
                  /\ Log([type |-> "add", dn |-> dn, change |-> NoChange, entry |-> entry])
             ELSE UNCHANGED <<dir, clog, image>>
    /\ Finish(s)
    /\ UNCHANGED overlapped

-----------------------------------------------------------------------------
(* modify *)

ModifyLoad(s) ==
    /\ At(s, "modify", "load")
    /\ IF Present(req[s].dn)
         THEN req' = [req EXCEPT ![s].step = "preloadAccount", 
                               ![s].entry = Unscoped(req[s].dn, dir[req[s].dn])]
         ELSE Finish(s)
    /\ UNCHANGED <<dir, clog, image, overlapped>>

ModifyPreloadAccount(s) ==
    /\ At(s, "modify", "preloadAccount")
    /\ Check(s, req[s].entry.imported \/ ParentPresent(req[s].dn), "commit")

\* Mutant: the record is made from the entry as it was loaded.
CommitModifyLogsLoaded(s) ==
    /\ At(s, "modify", "commit")
    /\ LET dn    == req[s].dn
           entry == Changed(dn, req[s].entry, req[s].change)
       IN  IF SchemaAccepts(req[s].entry, req[s].change) /\ LoginFree(dn, entry.login)
             THEN /\ dir' = [dir EXCEPT ![dn] = entry]
                  /\ Log([type |-> "modify", dn |-> dn, change |-> Logged(dn, req[s].change),
                       entry |-> req[s].entry])
             ELSE UNCHANGED <<dir, clog, image>>
    /\ Finish(s)
    /\ UNCHANGED overlapped

\* save puts the entry without the etag that load picked up: whatever is
\* stored under the key by now is replaced.
CommitModify(s) ==
    /\ At(s, "modify", "commit")
    /\ LET dn    == req[s].dn
           entry == Changed(dn, req[s].entry, req[s].change)
       IN  IF SchemaAccepts(req[s].entry, req[s].change) /\ LoginFree(dn, entry.login)
             THEN /\ dir' = [dir EXCEPT ![dn] = entry]
                  /\ Log([type |-> "modify", dn |-> dn, change |-> Logged(dn, req[s].change),
                       entry |-> entry])
             ELSE UNCHANGED <<dir, clog, image>>
    /\ Finish(s)
    /\ UNCHANGED overlapped

-----------------------------------------------------------------------------
(* delete *)

DeleteEntryExists(s) ==
    /\ At(s, "delete", "entryExists")
    /\ Check(s, Present(req[s].dn), "childExists")

\* Mutant: children are not looked for.
ChildExistsUnchecked(s) ==
    /\ At(s, "delete", "childExists")
    /\ Check(s, TRUE, "load")

ChildExists(s) ==
    /\ At(s, "delete", "childExists")
    /\ Check(s, \A sub \in SubUsers : Owner[sub] = req[s].dn => ~Present(sub), "load")

DeleteLoad(s) ==
    /\ At(s, "delete", "load")
    /\ IF Present(req[s].dn)
         THEN req' = [req EXCEPT ![s].step = "commit", ![s].entry = dir[req[s].dn]]
         ELSE Finish(s)
    /\ UNCHANGED <<dir, clog, image, overlapped>>

\* The batch aborts when the key is no longer there.
CommitDelete(s) ==
    /\ At(s, "delete", "commit")
    /\ LET dn == req[s].dn
       IN  IF Present(dn)
             THEN /\ dir' = [dir EXCEPT ![dn] = None]
                  /\ Log([type |-> "delete", dn |-> dn, change |-> NoChange,
                       entry |-> req[s].entry])
             ELSE UNCHANGED <<dir, clog, image>>
    /\ Finish(s)
    /\ UNCHANGED overlapped

-----------------------------------------------------------------------------
AddStep(s) ==
    \/ BeginAdd(s) \/ AddEntryExists(s) \/ AddParentExists(s) \/ AddPreloadAccount(s)
    \/ ValidateLogin(s) \/ CommitAdd(s)

ModifyStep(s) ==
    BeginModify(s) \/ ModifyLoad(s) \/ ModifyPreloadAccount(s) \/ CommitModify(s)

DeleteStep(s) ==
    \/ BeginDelete(s) \/ DeleteEntryExists(s) \/ ChildExists(s) \/ DeleteLoad(s)
    \/ CommitDelete(s)

Next == \E s \in Slots : AddStep(s) \/ ModifyStep(s) \/ DeleteStep(s) \/ MorayFails(s)

Spec == Init /\ [][Next]_vars

-----------------------------------------------------------------------------
(***************************************************************************)
(* Properties                                                              *)
(***************************************************************************)

\* The entry that a record leaves behind.
Result(record) == IF record.type = "delete" THEN None ELSE record.entry

Newest(n) == \A m \in (n + 1) .. Len(clog) : clog[m].dn # clog[n].dn

\* Whatever requests interleave, the newest changelog record of a DN tells
\* what is stored under it (save, changelog and the one batch of commit).
LastRecordInstalled ==
    \A n \in 1 .. Len(clog) : Newest(n) => dir[clog[n].dn] = Result(clog[n])

\* A record that neither imports the entry nor writes its login otherwise
\* than by replacing it, bare or with the entry's own prefix.
Plain(record) ==
    /\ ~record.entry.imported
    /\ record.change.attr = "login" =>
            record.change.op = "replace" /\ record.change.val.scope \in {NoScope, Scope(record.dn)}

OnlyPlain(dn) == \A n \in 1 .. Len(clog) : clog[n].dn = dn => Plain(clog[n])

\* A stored login names the account it belongs to, and the alias of a
\* sub-user is its login's name, after any sequence of adds, modifies and
\* deletes that interleave, as long as these have been plain ones
\* (scopeSubAccount, _subUser, change).
LoginsScoped ==
    \A dn \in DNs : Present(dn) /\ OnlyPlain(dn) =>
        /\ dir[dn].login.scope = Scope(dn)
        /\ dir[dn].alias = IF dn \in SubUsers THEN dir[dn].login.name ELSE NoAlias

\* As docs/index.md has it, the login of a sub-user is always stored with the
\* uuid of its account: the code does not have this property (README).
LoginsAlwaysScoped == \A sub \in SubUsers : Present(sub) => dir[sub].login.scope = Owner[sub]

\* A record of an add or of a delete is a change that took place: the add
\* found no entry and the delete found one, however requests interleave
\* (the null etag of save, the delete operation of the batch).
RecordsTruthful ==
    [][clog' # clog =>
        LET record == clog'[Len(clog')]
        IN  /\ record.type = "add" => dir[record.dn] = None
            /\ record.type = "delete" => dir[record.dn] # None]_vars

\* No sub-user is left without its account (parentExists, childExists).
NoOrphans == \A sub \in SubUsers : Present(sub) => Present(Owner[sub])

NoOrphansSerial == ~overlapped => NoOrphans

DistinctIgnoringCase ==
    \A dn, other \in DNs : dn # other /\ Present(dn) /\ Present(other) =>
        \/ dir[dn].login.scope # dir[other].login.scope
        \/ Canonical[dir[dn].login.name] # Canonical[dir[other].login.name]

\* Two accounts, or two sub-users of an account, never have logins that
\* differ in case only (validateLogin), unless one was imported or renamed,
\* or requests overlapped: neither an import nor a modify is checked, and the
\* unique index minds the case.
LoginsDistinctSerial ==
    /\ ~overlapped
    /\ \A n \in 1 .. Len(clog) : Plain(clog[n]) /\ clog[n].change.attr # "login"
    => DistinctIgnoringCase

SameButAlias(entry, copy) == entry.login = copy.login /\ entry.data = copy.data

\* A UFDS that replays the changelog gets the same entries (changelog, and
\* the chains run by the replicator's operations), their alias excepted, as
\* long as their logins have been written plainly.
ReplicaFollows == \A dn \in DNs : OnlyPlain(dn) => SameButAlias(dir[dn], image[dn])

ReplicaFollowsSerial == ~overlapped => ReplicaFollows

=============================================================================
