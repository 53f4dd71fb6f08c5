----------------------------- MODULE CapiEntries -----------------------------
(***************************************************************************)
(* What the CAPI server keeps below a customer: the limits of a data       *)
(* center (capi/limits.js), the metadata of an application                 *)
(* (capi/metadata.js), and its ssh keys, as smartlogin looks them up       *)
(* (capi/keys.js).                                                         *)
(*                                                                         *)
(* A limit entry has a value for each dataset, a metadata entry one for    *)
(* each key: both are fields here.  put and del load the entry, decide by  *)
(* what they have read, and then write to an entry that may have changed.  *)
(* They search without the cache of the UFDS client.  UFDS in turn loads   *)
(* an entry to modify it and saves all of it, without an etag: of two      *)
(* modifies that overlap, the later save undoes the earlier.               *)
(*                                                                         *)
(* smartlogin searches through the client, which keeps every answer for    *)
(* Expiry ticks, whatever has become of the keys and the role meanwhile.   *)
(***************************************************************************)
EXTENDS Integers, FiniteSets

CONSTANTS
    Limits,         \* DNs of limit entries, and
    Metadata,       \* of metadata entries, of the customer
    Fields,         \* datasets or keys
    Values,
    Parsed,         \* the value that parseInt makes of one
    Reqs,           \* slots for the requests in progress
    None,
    Account,        \* the customer
    Members,        \* entries that may be on the list of its administrator role
    Users,          \* sub-users of these
    Parent,         \* of a sub-user
    Keys,
    Role,           \* the administrator role, among what is searched for
    Searches,       \* slots for the cached searches in progress
    Expiry,         \* ticks after which an answer leaves the cache
    Timeout         \* ticks within which an answer arrives or the search fails

ASSUME EntriesAssumption ==
    /\ Limits \cap Metadata = {}
    /\ None \notin Values \cup [Fields -> Values \cup {None}]
    /\ Parsed \in [Values -> Values]
    /\ \A v \in Values : Parsed[Parsed[v]] = Parsed[v]

ASSUME OwnersAssumption ==
    /\ Account \notin Members \cup Users
    /\ Members \cap Users = {}
    /\ Parent \in [Users -> Members]
    /\ Role \notin {Account} \cup Members

ASSUME TimeAssumption == Expiry \in Nat \ {0} /\ Timeout \in Nat

VARIABLES
    entries,        \* UFDS: the fields of each entry, or Absent
    req,            \* the put or del in each slot
    keys,           \* UFDS: the keys below each account and user
    existing,       \* UFDS: the members that exist
    admins,         \* UFDS: uniquememberdefault of the administrator role
    cache,          \* of the process: an answer and its age, or None
    searches,       \* an answer of UFDS on its way, or None
    login,          \* a smartlogin in progress, or Nothing
    accepted,       \* the smartlogin answered by the last step, or Nothing
    \* bookkeeping
    since,          \* ticks since a key, or a member, was last to be found
    calm,           \* ticks since the last change
    held,           \* those who had the key during the smartlogin or shortly before
    listed          \* those who were on the role's list during it or shortly before

entryVars == <<entries, req>>

keyVars == <<keys, existing, admins>>

foundVars == <<cache, searches>>

timeVars == <<since, calm>>

loginVars == <<login, accepted, held, listed>>

vars == <<entryVars, keyVars, foundVars, timeVars, loginVars>>

-----------------------------------------------------------------------------
Entries == Limits \cup Metadata

(* An entry that does not exist; a slot without a request.                 *)
Absent == None

Nothing == None

Contents == [Fields -> Values \cup {None}]

Empty == [f \in Fields |-> None]

Owners == {Account} \cup Members \cup Users

(* What a request keeps of the entry it has loaded: whether there is one,  *)
(* for a put, and the value of its field, for a del.                       *)
Loaded == [exists : BOOLEAN, value : Values \cup {None}]

NotLoaded == [exists |-> FALSE, value |-> None]

(* While UFDS modifies the entry, copy is what it has loaded and stale the *)
(* fields that have been written since.                                    *)
Request ==
    [op : {"put", "del"}, entry : Entries, field : Fields, value : Values \cup {None},
     at : {"load", "add", "replace", "delete"},
     stage : {"sent", "loaded", "done", "refused"},
     seen : Loaded,
     copy : Contents, stale : SUBSET Fields,
     alone : BOOLEAN]                   \* no other writer so far, and no failure

(* What smartlogin searches for: the keys of the customer and of members,  *)
(* and the list of the administrator role.                                 *)
Asked == {Account, Role} \cup Members

Findable(x) == IF x = Role THEN Members ELSE Keys

Present(x) == IF x = Role THEN admins ELSE keys[x]

(* How long after it was removed something may still be found.             *)
Cap == Expiry + Timeout

Answer == [of : Asked, result : SUBSET (Members \cup Keys), age : 0 .. Cap]

Smartlogin ==
    [key : Keys, at : {"keys", "roles", "members"}, found : BOOLEAN,
     pending : SUBSET Members,          \* searches that are not answered yet
     failed : BOOLEAN,                  \* one of them was refused
     alone : BOOLEAN]                   \* nothing has changed for Cap ticks

Busy == {r \in Reqs : req[r] # Nothing}

TypeOK ==
    /\ entries \in [Entries -> Contents \cup {Absent}]
    /\ req \in [Reqs -> Request \cup {Nothing}]
    /\ keys \in [Owners -> SUBSET Keys]
    /\ existing \subseteq Members
    /\ \A u \in Users : keys[u] # {} => Parent[u] \in existing
    /\ admins \subseteq Members
    /\ cache \in [Asked -> Answer \cup {None}]
    /\ searches \in [Searches -> Answer \cup {None}]
    /\ \A x \in Asked : cache[x] # None =>
           cache[x].of = x /\ cache[x].result \subseteq Findable(x) /\ cache[x].age < Expiry
    /\ \A s \in Searches : searches[s] # None =>
           searches[s].result \subseteq Findable(searches[s].of) /\ searches[s].age <= Timeout
    /\ since \in [Asked -> [Members \cup Keys -> 0 .. Cap]]
    /\ calm \in 0 .. Cap
    /\ login \in Smartlogin \cup {Nothing}
    /\ accepted \in [key : Keys, ok : BOOLEAN, alone : BOOLEAN] \cup {Nothing}
    /\ held \subseteq {Account} \cup Members
    /\ listed \subseteq Members

Init ==
    /\ entries = [e \in Entries |-> Absent]
    /\ req = [r \in Reqs |-> Nothing]
    /\ keys = [o \in Owners |-> {}]
    /\ existing = Members
    /\ admins = {}
    /\ cache = [x \in Asked |-> None]
    /\ searches = [s \in Searches |-> None]
    /\ since = [x \in Asked |-> [e \in Members \cup Keys |-> Cap]]
    /\ calm = Cap
    /\ login = Nothing
    /\ accepted = Nothing
    /\ held = {}
    /\ listed = {}

-----------------------------------------------------------------------------
(* put and del of a field.                                                 *)
Begin(r) ==
    /\ req[r] = Nothing
    /\ \E op \in {"put", "del"}, e \in Entries, f \in Fields, v \in Values \cup {None} :
        /\ (op = "put") <=> (v # None)
        /\ req' = [req EXCEPT ![r] =
               [op |-> op, entry |-> e, field |-> f, value |-> v, at |-> "load",
                stage |-> "sent", seen |-> NotLoaded, copy |-> Empty, stale |-> {},
                alone |-> TRUE]]
    /\ UNCHANGED entries

Send(r, at) == req' = [req EXCEPT ![r].at = at, ![r].stage = "sent", ![r].seen = NotLoaded]

Done(r) == req' = [req EXCEPT ![r] = Nothing]

Answered(r, ops, stage) == r \in Busy /\ req[r].at \in ops /\ req[r].stage = stage

PutLoaded(r) ==
    /\ Answered(r, {"load"}, "done")
    /\ req[r].op = "put"
    /\ \/ req[r].seen.exists /\ Send(r, "replace")
       \/ ~req[r].seen.exists /\ Send(r, "add")
    /\ UNCHANGED entries

(* A limit is deleted as the number it was read as, metadata as it is.     *)
SendDelete(r) ==
    LET loaded == req[r].seen.value
    IN  req' = [req EXCEPT ![r].at = "delete", ![r].stage = "sent",
                           ![r].value = IF req[r].entry \in Limits THEN Parsed[loaded] ELSE loaded]

DelLoaded(r) ==
    /\ Answered(r, {"load"}, "done")
    /\ req[r].op = "del"
    /\ \/ req[r].seen.value # None /\ SendDelete(r)
       \/ req[r].seen.value = None /\ Done(r)
    /\ UNCHANGED entries

(* A failed search of metadata calls back without the error, as one that   *)
(* has found nothing: put goes on with an add, del throws.  The request of *)
(* a limit is answered with the error.                                     *)
LoadFailed(r) ==
    /\ Answered(r, {"load"}, "refused")
    /\ IF req[r].entry \in Metadata /\ req[r].op = "put" THEN Send(r, "add") ELSE Done(r)
    /\ UNCHANGED entries

WriteAnswered(r) ==
    /\ r \in Busy
    /\ req[r].at # "load" /\ req[r].stage \in {"done", "refused"}
    /\ Done(r)
    /\ UNCHANGED entries

-----------------------------------------------------------------------------
(* UFDS.  A write tells those who have begun that they are not alone, and  *)
(* those who have loaded the entry what they have missed: the field, and   *)
(* what the write itself has missed and undone.                            *)
Missed(q) == {q.field} \cup q.stale

Written(r) ==
    [x \in Reqs |->
        IF x = r THEN [req[r] EXCEPT !.stage = "done", !.copy = Empty, !.stale = {}]
        ELSE IF x \in Busy /\ req[x].entry = req[r].entry
        THEN [req[x] EXCEPT !.alone = FALSE,
                            !.stale = IF req[x].stage = "loaded" THEN @ \cup Missed(req[r]) ELSE @]
        ELSE req[x]]

\* Mutant: the dataset is what must be there already.
LoadField(r) ==
    LET e == entries[req[r].entry]
        v == IF e = Absent THEN None ELSE e[req[r].field]
    IN  IF req[r].op = "put" THEN [NotLoaded EXCEPT !.exists = (v # None)]
                             ELSE [NotLoaded EXCEPT !.value = v]

(* loadLimits lists values, not entries: for put a limit exists if the data *)
(* center has any value, that of another dataset too.                      *)
Load(r) ==
    LET e == entries[req[r].entry]
        v == IF e = Absent THEN None ELSE e[req[r].field]
    IN  IF req[r].op = "put"
        THEN [NotLoaded EXCEPT !.exists =
                 e # Absent /\ (req[r].entry \in Limits => \E f \in Fields : e[f] # None)]
        ELSE [NotLoaded EXCEPT !.value = v]

ServeLoad(r) ==
    /\ Answered(r, {"load"}, "sent")
    /\ req' = [req EXCEPT ![r].stage = "done", ![r].seen = Load(r)]
    /\ UNCHANGED entries

ServeAdd(r) ==
    /\ Answered(r, {"add"}, "sent")
    /\ entries[req[r].entry] = Absent
    /\ entries' = [entries EXCEPT ![req[r].entry] = [Empty EXCEPT ![req[r].field] = req[r].value]]
    /\ req' = Written(r)

(* A modify: UFDS loads the entry, and saves the whole of it changed.      *)
LoadEntry(r) ==
    /\ Answered(r, {"replace", "delete"}, "sent")
    /\ entries[req[r].entry] # Absent
    /\ req' = [req EXCEPT ![r].stage = "loaded", ![r].copy = entries[req[r].entry]]
    /\ UNCHANGED entries

\* Mutant: the change names no value, which deletes the attribute.
ModifiedAll(q) ==
    [q.copy EXCEPT ![q.field] = IF q.at = "replace" THEN q.value ELSE None]

(* A value to delete that is not there is not an error.  The entry remains *)
(* when its last field goes.                                               *)
Modified(q) ==
    [q.copy EXCEPT ![q.field] = IF q.at = "replace" THEN q.value
                                ELSE IF @ = q.value THEN None ELSE @]

SaveEntry(r) ==
    /\ Answered(r, {"replace", "delete"}, "loaded")
    /\ entries' = [entries EXCEPT ![req[r].entry] = Modified(req[r])]
    /\ req' = Written(r)

EntryExists(r) ==
    /\ Answered(r, {"add"}, "sent")
    /\ entries[req[r].entry] # Absent
    /\ req' = [req EXCEPT ![r].stage = "refused"]
    /\ UNCHANGED entries

(* Another writer was quicker, moray is down, or the connection breaks and *)
(* the answer to an operation that was applied is lost.                    *)
Refuse(r) ==
    /\ r \in Busy
    /\ req[r].stage # "refused"
    /\ req' = [req EXCEPT ![r].stage = "refused", ![r].copy = Empty, ![r].stale = {},
                        ![r].alone = FALSE]
    /\ UNCHANGED entries

EntriesNext ==
    /\ \E r \in Reqs :
        \/ Begin(r) \/ PutLoaded(r) \/ DelLoaded(r) \/ LoadFailed(r) \/ WriteAnswered(r)
        \/ ServeLoad(r) \/ ServeAdd(r) \/ LoadEntry(r) \/ SaveEntry(r)
        \/ EntryExists(r) \/ Refuse(r)
    /\ UNCHANGED <<keyVars, foundVars, timeVars, loginVars>>

-----------------------------------------------------------------------------
(* Keys come and go, members are put on the role's list and taken off it,  *)
(* and a member may be deleted while it is on it.                          *)
Change ==
    /\ accepted' = Nothing
    /\ calm' = 0
    /\ since' = [x \in Asked |-> [e \in Members \cup Keys |->
                    IF e \in Present(x)' THEN 0 ELSE since[x][e]]]
    /\ IF login = Nothing
       THEN login' = login /\ held' = {} /\ listed' = {}
       ELSE /\ login' = [login EXCEPT !.alone = FALSE]
            /\ held' = held \cup {o \in {Account} \cup Members : login.key \in keys'[o]}
            /\ listed' = listed \cup admins'

PostKey(o, k) ==
    /\ o \in Members => o \in existing
    /\ o \in Users => Parent[o] \in existing
    /\ keys' = [keys EXCEPT ![o] = @ \cup {k}]
    /\ UNCHANGED <<existing, admins>>
    /\ Change

DelKey(o, k) ==
    /\ k \in keys[o]
    /\ keys' = [keys EXCEPT ![o] = @ \ {k}]
    /\ UNCHANGED <<existing, admins>>
    /\ Change

SetAdmin(m) ==
    /\ admins' = IF m \in admins THEN admins \ {m} ELSE admins \cup {m}
    /\ UNCHANGED <<keys, existing>>
    /\ Change

\* Mutant: an entry with users is deleted.
DelMemberAnyway(m) ==
    /\ m \in existing
    /\ keys[m] = {}
    /\ existing' = existing \ {m}
    /\ UNCHANGED <<keys, admins>>
    /\ Change

(* UFDS deletes no entry that has others below it.                         *)
DelMember(m) ==
    /\ m \in existing
    /\ keys[m] = {} /\ \A u \in Users : Parent[u] = m => keys[u] = {}
    /\ existing' = existing \ {m}
    /\ UNCHANGED <<keys, admins>>
    /\ Change

-----------------------------------------------------------------------------
(* The searches of this process that its cache answers: any request may    *)
(* make one.  UFDS has evaluated it when its answer is on the way.         *)

\* Mutant: scope 'sub', which finds the keys of an account's users too.
KeysBelow(m) == keys[m] \cup UNION {keys[u] : u \in {x \in Users : Parent[x] = m}}

(* scope 'one'                                                             *)
KeysOf(m) == keys[m]

Search(s, x) ==
    /\ searches[s] = None
    /\ x \in Members => x \in existing
    /\ searches' = [searches EXCEPT ![s] =
           [of |-> x, result |-> IF x = Role THEN admins ELSE KeysOf(x), age |-> 0]]
    /\ UNCHANGED cache

Found(s) ==
    /\ searches[s] # None
    /\ cache' = [cache EXCEPT ![searches[s].of] = [searches[s] EXCEPT !.age = 0]]
    /\ searches' = [searches EXCEPT ![s] = None]

SearchFailed(s) ==
    /\ searches[s] # None
    /\ searches' = [searches EXCEPT ![s] = None]
    /\ UNCHANGED cache

(* A write of this process clears its cache, and a full cache forgets.     *)
Forget(x) ==
    /\ cache[x] # None
    /\ cache' = [cache EXCEPT ![x] = None]
    /\ UNCHANGED searches

Older(a) == IF a = None \/ a.age + 1 = Expiry THEN None ELSE [a EXCEPT !.age = @ + 1]

Tick ==
    /\ \A s \in Searches : searches[s] # None => searches[s].age < Timeout
    /\ searches' = [s \in Searches |->
           IF searches[s] = None THEN None ELSE [searches[s] EXCEPT !.age = @ + 1]]
    /\ cache' = [x \in Asked |-> Older(cache[x])]
    /\ since' = [x \in Asked |-> [e \in Members \cup Keys |->
           IF e \in Present(x) THEN 0 ELSE IF since[x][e] < Cap THEN since[x][e] + 1 ELSE Cap]]
    /\ calm' = IF calm < Cap THEN calm + 1 ELSE Cap
    /\ accepted' = Nothing
    /\ UNCHANGED <<login, held, listed>>

-----------------------------------------------------------------------------
(* smartlogin: loadKeys lists the customer's keys, finds the administrator  *)
(* role, and searches the keys of all of its default members in parallel.  *)
(* It goes on when the answer is in the cache, where it may have been.     *)
BeginLogin(k) ==
    /\ login = Nothing
    /\ login' = [key |-> k, at |-> "keys", found |-> FALSE, pending |-> {},
                 failed |-> FALSE, alone |-> calm = Cap]
    /\ accepted' = Nothing
    /\ held' = {o \in {Account} \cup Members : since[o][k] < Cap}
    /\ listed' = {m \in Members : since[Role][m] < Cap}

LoginAnswer(ok, alone) ==
    /\ accepted' = [key |-> login.key, ok |-> ok, alone |-> alone]
    /\ login' = Nothing
    /\ UNCHANGED <<held, listed>>

ListKeys ==
    /\ login # Nothing /\ login.at = "keys"
    /\ cache[Account] # None
    /\ login' = [login EXCEPT !.at = "roles", !.found = login.key \in cache[Account].result]
    /\ UNCHANGED <<accepted, held, listed>>

ListRoles ==
    /\ login # Nothing /\ login.at = "roles"
    /\ cache[Role] # None
    /\ \/ /\ cache[Role].result = {}
          /\ LoginAnswer(login.found, login.alone)
       \/ /\ cache[Role].result # {}
          /\ login' = [login EXCEPT !.at = "members", !.pending = cache[Role].result]
          /\ UNCHANGED <<accepted, held, listed>>

(* UFDS refuses a search below a member that does not exist.               *)
AddUserKeys(m) ==
    /\ login # Nothing /\ login.at = "members"
    /\ m \in login.pending
    /\ \/ /\ cache[m] # None
          /\ login' = [login EXCEPT !.pending = @ \ {m},
                                    !.found = @ \/ login.key \in cache[m].result]
       \/ /\ cache[m] = None /\ m \notin existing
          /\ login' = [login EXCEPT !.pending = @ \ {m}, !.failed = TRUE]
    /\ UNCHANGED <<accepted, held, listed>>

MembersDone ==
    /\ login # Nothing /\ login.at = "members" /\ login.pending = {}
    /\ LoginAnswer(login.found /\ ~login.failed, login.alone)

LoginRefused ==
    /\ login # Nothing
    /\ LoginAnswer(FALSE, FALSE)

KeysNext ==
    /\ UNCHANGED entryVars
    /\ \/ /\ \/ \E o \in Owners, k \in Keys : PostKey(o, k) \/ DelKey(o, k)
             \/ \E m \in Members : SetAdmin(m) \/ DelMember(m)
          /\ UNCHANGED foundVars
       \/ /\ \/ \E s \in Searches : (\E x \in Asked : Search(s, x)) \/ Found(s) \/ SearchFailed(s)
             \/ \E x \in Asked : Forget(x)
          /\ UNCHANGED <<keyVars, timeVars, loginVars>>
       \/ Tick /\ UNCHANGED keyVars
       \/ /\ \/ \E k \in Keys : BeginLogin(k)
             \/ ListKeys \/ ListRoles \/ MembersDone \/ LoginRefused
             \/ \E m \in Members : AddUserKeys(m)
          /\ UNCHANGED <<keyVars, foundVars, timeVars>>

Next == EntriesNext \/ KeysNext

Spec == Init /\ [][Next]_vars

-----------------------------------------------------------------------------
(* A value disappears only when it is overwritten, by a del that has       *)
(* itself loaded it (as a number, for a limit; a del that was too slow     *)
(* leaves a newer value alone), or by a modify that UFDS had already       *)
(* loaded the entry for when the value was written.                        *)
DeletesWhatItSaw ==
    [][\A e \in Entries, f \in Fields :
        (entries[e] # Absent /\ entries[e][f] # None /\ entries'[e][f] = None) =>
            \E r \in Busy :
                /\ req[r].entry = e
                /\ \/ req[r].stage = "loaded" /\ f \in req[r].stale
                   \/ /\ req[r].op = "del" /\ req[r].field = f
                      /\ req[r].seen.value # None
                      /\ entries[e][f] \in {req[r].seen.value, Parsed[req[r].seen.value]}]_vars

(* A put that nobody disturbs and nothing fails under is refused in one    *)
(* case only: the limit entry of a data center whose last dataset was      *)
(* deleted, which put takes for missing and tries to add for ever.         *)
PutAloneSucceeds ==
    \A r \in Busy :
        req[r].op = "put" /\ req[r].stage = "refused" /\ req[r].alone =>
            req[r].entry \in Limits /\ entries[req[r].entry] = Empty

(* A smartlogin is accepted only with a key that the customer had, or      *)
(* somebody on the list of the administrator role, while it was in         *)
(* progress or less than Cap ticks before; never with a key of a user      *)
(* below one on the list.  If nothing has changed for that long it is      *)
(* exact, but that one member who is gone makes every smartlogin fail.     *)
SmartloginRight ==
    accepted # Nothing =>
        LET has(o) == accepted.key \in keys[o] IN
        /\ accepted.ok => Account \in held \/ held \cap listed # {}
        /\ accepted.alone =>
               (accepted.ok <=> (has(Account) \/ \E m \in admins : has(m)) /\ admins \subseteq existing)

=============================================================================
