# A TLA+ model of UFDS

UFDS is the user directory of Triton: an LDAP server whose entries live in
moray, a changelog of every write, replicators that copy entries from one UFDS to
another by replaying that changelog, and a few jobs around them. This directory
holds TLA+ modules translated from that code, the TLC configurations that check
them, theorems about them that TLAPS checks, and `PROJECT.json`, which ties
every definition to the lines it models.

    tlc -workers 2 -config MCReplicator.cfg MCReplicator
    tlapm ReplicatorProofs.tla

Paths below are relative to the repository's source.


## The system

| Component | Source | State | Operations |
|---|---|---|---|
| replicator instance | `lib/ufds-replicator/instance.js`, `operations.js`, `checkpoint.js` | connection, checkpoint, `changenumber`, `searchnumber`, `currPolling`, timer, serial queue | connect, close, read and write the checkpoint, poll, queue, apply add/modify/delete, exit |
| replicator service | `replicator.js`, `lib/ufds-replicator/replicator.js` | the instances of a process, the local client | start, stop, uncaught exceptions |
| UFDS write chains | `lib/db/{add,mod,del,common,changelog,index}.js` | the moray bucket, the changelog bucket, requests under way | add, modify, delete |
| role and policy links | `roleGroupReverseIndex` in `lib/db/{add,mod,del}.js` | `memberpolicy` of roles, `memberrole` of policies | what a write of one side does to the other |
| passwords and lockout | `lib/salt.js`, `lib/db/{bind,compare,login_attempt}.js` | password, salts, history, failure times, lock | bind, compare, change of `userpassword` |
| credential cleanup job | `lib/cleanup-expired-credentials.js`, `bin/cleanup-expired-creds` | lock file, temporary credentials | take the lock, search, delete, release |
| server | `main.js`, `lib/ufds.js` | where the set-up is, the buckets, requests | connect, set up, retry, listen, restart |
| ownership, authorization | `lib/owner.js`, `lib/db/authorize.js` | the administrators' group, questions to moray about it | let a request pass, refuse it, throw |
| search chain | `lib/db/search.js`, `pre.js` | none | look at the base, translate scope and owner, read, filter by depth |
| schema and validation | `lib/schema`, `schema` | none | validate one entry for add, modify, delete |
| CAPI customers and login | `capi/customers.js`, `login.js`, `util.js`, `server.js` | a cache per process, requests under way; customers and operators in UFDS | create, update, forgot_password, delete, login |
| CAPI limits, metadata, keys | `capi/limits.js`, `metadata.js`, `keys.js` | requests under way; limits, metadata, keys, roles in UFDS | put, delete, add and delete keys, smartlogin |
| CAPI fraud list | `capi/fraud.js` | one entry | (not modelled) |
| keys | `lib/keys.js`, `schema/sdckey.js` | none | fingerprints, attestation (not modelled) |
| tools, zone set-up, haproxy, examples | `bin`, `tools`, `boot`, `smf`, `sapi_manifests`, `deps`, `ufds-replicator-examples` | | (not modelled) |

How they interact. A client's write runs through a chain of handlers, each of
which may call moray and is resumed by a callback; the last call is one batch
that holds the entry, the linked entries and the changelog record, and that moray
commits or aborts as a whole. Between two calls of a request other requests are
served. A replicator reads the changelog of a remote UFDS over LDAP, in ranges
of changenumbers, and writes entries and its checkpoint into a local UFDS through
those same chains. The cleanup job is started by cron, several of them may run,
and they share only a lock file and the directory. CAPI is an HTTP service of several
processes, each a client of UFDS: a request to it is a chain of LDAP operations, each of
which may be refused, or be applied and its answer lost.

What is hard:

* **Replicator.** The timer, the search's events, the queue's worker, the
  checkpoint's answers and the connection's events interleave in one process.
  What has been applied, what is queued and where to go on after a restart are
  three numbers and a queue that different callbacks update. Changenumbers have
  gaps, searches end in the middle, operations fail or succeed without anyone
  learning it, the process exits on purpose. *It must never skip a record, apply
  records in order, end with the entries its queries select, and go on.*
* **Write chains.** A modify writes back the whole entry it loaded several calls
  earlier. *The changelog must tell what is stored, or every replica is wrong;
  and the checks made before the batch (no such entry, the parent exists, no
  children, the login is free) must still be true in the batch.*
* **Links.** One request updates several entries, some of which another
  request updates too. *Roles and policies must agree.*
* **Passwords.** Attempts, lock and history are values of the entry that five
  handlers derive from two reads. *Failures count and lock, and only a right or
  a new password clears that; old passwords are not used again; the SHA1 salt
  of imported accounts lives as long as it is needed.*
* **Cleanup job.** Lock files, stale ones, signals. *Runs exclude each other, a
  dead one blocks nobody, a success is complete.*

* **Server.** Set-up fails in the middle and starts over on what is there already. The
  right to an operation is looked up in moray, and the group changes meanwhile. Who
  owns an entry, and what is below another, is read off DNs in several places.
  *Only the entitled act; a search finds its scope; what was stored can be deleted.*
* **CAPI.** Each process caches customers, and only clears its own cache; an operation's
  answer may be lost after it was applied; creation and deletion of an operator are
  several operations. `put` and `del` decide by what they have read before. *No login with
  a password long gone, an update answers what it wrote, the group's members exist, a
  slow `del` does not take away what is new, a key admits only whom it should.*

`PROJECT.json` lists the hazards one by one, each with its line and the
properties that would notice.


## The modules

    ReplicationData      entries, records, queries
      ChangelogReplica   abstract: ordered, exactly-once replay
      Replicator         the process and both servers; INSTANCEs ChangelogReplica
        MCReplicator
        ReplicatorProofs    checkpoint, version barrier, ordered replay
    Directory            the write chains on accounts and sub-users
      MCDirectory, DirectoryProofs
    RoleLinks            the reverse index
      MCRoleLinks, RoleLinksProofs
    Passwords            one account's password
      MCPasswords, PasswordsProofs
    CleanupJob           the job's processes
      MCCleanupJob, CleanupProofs
    EntrySchema          names, owners, validation (operators only)
      UfdsServer         set-up, authorization, the work of requests, searches
        MCUfdsServer, UfdsServerProofs
    CapiCustomers        customers and login over LDAP, with the caches
      MCCapiCustomers, CapiProofs
    CapiEntries          limits, metadata, keys and smartlogin over LDAP
      MCCapiEntries, CapiEntriesProofs

All of them follow one convention. Node runs a callback to its end, so an
**action is one callback, or one call to a server whose answer a callback waits
for**; whatever happens synchronously in it is part of the action. Everything
else can happen in between. Definitions marked "Mutant:" are deliberately wrong
variants of their neighbour: with the wrong one in place of the right one a
property fails, which shows that the property depends on that code.

### ReplicationData, ChangelogReplica, Replicator

An entry is its objectclass and one other attribute, a record holds its type, DN,
the attribute a modify changed and the resulting entry (`lib/db/changelog.js`),
and a query is the DNs below its base with the classes its filter matches: all
queries the product is deployed with filter on `objectclass` alone. `CouldReplicate`
is the check made when an entry of the changelog search arrives, `Matches` the
one in `operations.js`, `Eligible` what the profile means.

| State | Code |
|---|---|
| `remote`, `clog`, `nextNumber` | the remote directory, its changelog, moray's sequence |
| `local`, `cp` | the local directory, the checkpoint entry |
| `connected`, `epoch`, `ckptReady`, `gets` | `remoteUfds`, the successive clients, `checkpoint.dn`, reads under way |
| `timer`, `leaked` | the interval of `self.timer`, one that was overwritten and can no longer be cleared |
| `currPolling`, `changenumber`, `searchnumber`, `caughtUp` | the fields of the same name |
| `search`, `queue`, `worker`, `cur`, `queueError` | the search under way, the vasync queue and what its worker does |
| `sets` | checkpoint writes under way, with the callback that waits |

Actions follow the functions: `Connect` (`init`, `connect`), `CheckpointFound`,
`CheckpointCreated`, `CheckpointFailed` (`Checkpoint.get`, `onCheckpoint`), `Poll`,
`NoNewEntries`, `NoMatchInRange`, `EnqueueMatches` (`onSearchEnd`), `TakeEntry`,
`RefuseVersion` (`handleEntry`), `ReplicateAdd`, `ReplicateModify`,
`ReplicateDelete` (`operations.js`, all scenarios), `AnswerCheckpoint`
(`updateChangenumber`), `EntryDone` (the worker's callback and `onDrain`), `Drop`
(`handleClose`), `Exit`, `Restart`. Faults are the members of `FaultKinds`; a
run chooses the kinds and their number.

`ChangelogReplica` is the promise: the remote publishes, the replica applies the
oldest record it has to. It has no polling, queue, checkpoint or failure.
`OrderedReplay` is its specification with `done <- handled, image <- View(local)`.

### Directory

Accounts and sub-users; an entry is its stored login (scope and name), alias and
one more value. A request holds the entry it has loaded and the step it is at.
`BeginAdd` ... `CommitAdd`, `BeginModify` ... `CommitModify` and `BeginDelete` ...
`CommitDelete` are the moray calls of the three chains, in order, each with the
synchronous handlers behind it (the chains are in `lib/db/index.js`; `_subUser`,
`scopeSubAccount`, `change` are the operators of those names or near). The batch
puts an added entry with a null etag and a modified one without any, which is what
`CommitAdd` and `CommitModify` do. `MorayFails` ends any request. `image` is what
a UFDS holds that has replayed the changelog; `overlapped` tells whether two
requests have ever been under way together.

### RoleLinks

An entry is the set of DNs it lists. A request derives the linked entries to
update (`Jobs`) from its changes and the entry as it was loaded, loads them one by
one (`LoadLinked`), and commits a batch in which each of them has the etag it was
loaded with (`EtagsMatch`). `Result` is the list after the changes in one formula; the
loop it stands for is a fold, and `MCRoleLinks` assumes, so that TLC evaluates it, that both
agree on every list of changes of the instance (`ResultIsFold`). `RemoveThrows` is the exception in the callback of
a removal when the linked entry has no list; it ends the server and all requests.

### Passwords

One account under one policy. `salted` and `loaded` are the two reads a request
makes. `Reused`, `Dropped`, `HistoryThrows` and `Updated` are the parts of
`checkPwdHistory` and `salt.modify`; `CommitAttempt` puts back the whole entry with
the failure added or all failures removed. Hashes keep what the code tells apart:
algorithm and word. Handlers that throw end the server (`Throw`).

### CleanupJob

A process per start, named by its PID. `Open`, `Write`, `Read`, `Check`, `Unlink` are
the file system calls of `tryAcquireLock`; between any two another process may run,
and `Kill` is allowed at each. `Search`, `Delete`, `DeleteFails`, `EndBatch`,
`SearchFindsNone` are `processBatch`; `Release` is `cleanupCallback`; `Terminate` is
the signal handlers.


### EntrySchema, UfdsServer

A DN is a sequence of RDNs, the entry's own first. `ParseOwner` is `parseOwner` of
`lib/owner.js`; `ValidateDepth`, `EndsWith` are the tests of `lib/db/search.js` (`EndsWith` is
what a suffix filter on the text of a DN finds, so that `role-uuid=x` ends like `uuid=x`);
`PersonValid`, `UserValid`, `RoleValid`, `KeyValid` are the `validate` functions of the classes,
`Required` the check of the schema, `RunValidations` the loop around them. An entry keeps
the attributes that these tell apart.

`server` is where `_morayConnectCallback` is: `UpdateBucketClog`, `UpdateBucketMain`,
`CheckReindexNeeded` are its calls in order, `SetupFails` and `Retry` the backoff, which begins
with the first call again. `Arrive` is a request that is let pass at once or has to wait for the
group (`Wait`), `Authorized`, `InsufficientAccess`, `AuthorizeThrows` are the callback of
`authorize.js`. `Add`, `Modify`, `ModifyGroup`, `Delete` are whole operations, with validation,
`preloadAccount` (`WithAccount`) and the owner that is stored; the interleaving of their own
calls is `Directory`'s subject. `SearchBase` and `SearchChildren` are the two calls of a search.
`could` remembers whether the binder has been entitled since the request began.

### CapiCustomers

`users` and `operators` are UFDS, `cache` is that of `capi/util.js` in each process, a request has
an operation under way (`at`) that is `"sent"`, then `"done"` or `"refused"`. `Serve...` applies an
operation in UFDS; `LoadAnswered`, `Added`, `Coded`, `MadeOperator`, `Modified`, `Deleted`, `LeftGroup`,
`Failed` are the callbacks in CAPI, each of which sends the next operation or answers. `Refuse`
also stands for an answer that was lost after the operation was applied. `Crash` ends a
process: what it has sent may still arrive. `Tick` ages caches and waiting answers: a process
waits no longer than `Timeout` (the client's `clientTimeout`) for one.

### CapiEntries

An entry of limits or metadata maps fields to values. A `put` loads, then adds or replaces; a `del`
loads, then deletes the value it has read, for a limit after `parseInt` (`Parsed`). The requests
of others come in between (`alone` tells when none did). `keys`, `existing`, `admins` are what
smartlogin reads in its three steps: keys of the account, its administrator role, the
keys of the role's default members, all of which may change meanwhile (`PostKey`, `DelKey`,
`SetAdmin`, `DelMember`).

## The runs

| Run | Instance | Shows |
|---|---|---|
| `replicator` | two DNs, one query, ranges of 2, 3 changenumbers with a gap, one fault of search / operation / checkpoint write / idle disconnection; 72 thousand states | the process implements `ChangelogReplica`, converges, says "caughtup" only when it is, never makes itself exit, and applies every record in the end |
| `replicator_restart` | the deployed template's queries with the version gate, 2 faults of crash, idle disconnection, lost answer, rejection, failed reads and writes, writes that commit out of order; 1.3 million states | `NoSkip`, `VersionBarrier` |
| `replicator_busy_skip` | one disconnection while the queue is busy | **violated**: the checkpoint passes records that were not applied |
| `directory` | two accounts, a sub-user, two logins that differ in case, two requests at a time, 3 records; 0.7 million states | the newest record of a DN tells what is stored, records are true, logins stay scoped; without overlap no orphans, no logins that differ in case only, and replicas follow |
| `directory_replica` | one account, its sub-user, two requests | **violated**: two modifies that overlap leave a replica with an entry the server does not have |
| `role_links` | two roles, a policy, two requests at a time, one change each; 0.4 million states | a batch touches its own DN in others' lists only; without overlap the lists are symmetric |
| `passwords` | 4 words, lock after 3 failures for 2 ticks, history of 2, up to 5 passwords, SHA1 or bcrypt start; 14 thousand states under symmetry | attempts, lock, history, reuse and salt |
| `cleanup` | 2 processes, 2 credentials, batches of 1, 2 failed deletions; 0.17 million states | exclusion while no lock is taken for stale, nobody blocked by the dead, no leftover, success complete, ends |
| `cleanup_overlap` | 2 processes, 1 credential | **violated**: two runs hold the lock together |
| `server` | an account, its user, a role with the user's uuid and an access key, one request at a time; 0.12 million states | only the entitled act, searches are exact, what was stored can be deleted, the server always comes to listen |
| `capi_customers` | 2 processes, a customer, 2 digests, 2 requests at a time, `Expiry` and `Timeout` of a tick; 1.6 million states | logins are with a recent password, updates answer what they wrote, operators are those that were promised, and exist |
| `capi_entries` | a limit entry and a metadata entry with 2 fields, 2 requests; 2 members, a user of one, a key; 1.7 million states | only what was read is deleted, an undisturbed put succeeds, smartlogin admits the right keys |

The three violations are the project's findings; `PROJECT.json` quotes the sentence
of a doc or comment each of them contradicts.

A type invariant that is proved for every value of the constants is not checked again by
the runs, but for that of `CapiEntries`, which also says that no key is below a member that is
gone, and those of `RoleLinks` and `UfdsServer`.

**Bounds, and why they are enough.** Every bound is a constant and occurs in a guard
or in the configuration only.

* `MaxChange = 3` and `QueueSize = 2`: with ranges of three numbers a record can be
  inside, at the upper end of, and beyond a range, the next range begins in the
  middle, and the queue holds up to three records, of which the first, a middle
  one and the last fail. `MaxGap = 1` puts a hole at each of those places. Gaps
  are kept smaller than a range: with a wider one the real process announces
  "caughtup" and stays where it is until the sequence has moved on.
* `MaxFaults`: one fault where the run has liveness, two where a second fault has to
  hit the recovery from the first.
* Two slots, two processes: the races of these components are races of two. The
  proofs do away with the bound for the properties they cover. `MaxRecords = 3`
  lets a directory run through add, modify, delete and two overlapping requests
  after the first entry exists.
* `Words = 4`, `InHistory = 2`, `MaxPasswords = 5`: the history fills up, drops its
  oldest password, and that one is used again. `MaxTime = 4` with `Duration = 2`
  lets a lock expire and be set again. The run has one slot: all its properties are
  conditional on requests that do not overlap, and with overlap the code breaks
  them (below).
* `UfdsServer` has one slot in its run, because requests are whole operations here and the
  group and the questions about it are what could race: with one slot `ModifyGroup` cannot
  come in between, which is why `OnlyAuthorized` is proved for any number of slots.
  `MaxTime = 1` lets a credential expire, `Version = 1` lets buckets be missing, right or newer.
* `CapiCustomers`: one customer, since nothing relates two but the group, which is a set of
  them; `Expiry = Timeout = 1` lets a cached customer be as old as two ticks when it is used.
  `CapiEntries`: two values, one of which `parseInt` changes; its behaviours are of an entry or of
  the keys, which have no state in common, and `MCCapiEntries` chooses one.
* `CHECK_DEADLOCK FALSE` is there where the bound on the changelog ends the
  behaviours (`Directory`), where all runs of the job have ended, and where the
  replicator does stop for good.

**Fairness.** `Replicator!FairSpec`: `setInterval` fires again and again, servers
answer or fail, clients reconnect with a backoff for ever (`retries: Infinity`),
SMF restarts a process that exited; each is weak fairness of one group of actions.
Faults and remote writes are not fair. `EventuallyReplicated` is checked for
the faults after which the code does go on; those after which it does not are
listed below. `CleanupJob!FairSpec`: each process goes on, and deletions fail a
bounded number of times (`MaxFailures`); nothing forces a process to start or to be
killed. `UfdsServer!FairSpec`: moray is connected to in the end and the backoff ends (weak);
each of the three calls of the set-up, when it is made again and again, succeeds some time
(strong, as a failure disables it until the next try). Restarts are not bounded, so that
`EventuallyListens` says `[]<>`.


## The proofs

All theorems hold for every value of the constants that satisfies the named
assumptions of the modules (`SizeAssumption`, `OwnerAssumption`, ... ); these say no more
than that sizes are numbers, that sub-users have an account, that two kinds of DN
are disjoint, that the uuids in DNs are uuids, and that the value that stands for
"nothing" is not one of the others (`NoneAssumption`, `NoEntryAssumption`).

| Theorem | States |
|---|---|
| `ReplicatorProofs!TypesHold` | `Spec => []TypeOK` |
| `ReplicatorProofs!NoSkipHolds`, `VersionBarrierHolds` | `[]NoSkip` and `[]VersionBarrier`, provided the remote connection is not lost while the queue is processed (`"busydrop" \notin Faults`) |
| `ReplicatorProofs!CaughtUpHolds` | `CaughtUpComplete`, provided the same and that no gap is as wide as a range (`MaxGap < QueueSize`) |
| `ReplicatorProofs!NeverExitsHolds`, `ConvergedHolds`, `OrderedReplayHolds` | `[]NeverExits`, `[]Converged` and the refinement of `ChangelogReplica`, under `PlainReplay`, `Steady`, `WritesKept` and `Bootstrapped` (below) |
| `DirectoryProofs!TypesHold`, `LoginsScopedHolds`, `LastRecordHolds`, `RecordsTruthfulHolds` | for any number of requests under way |
| `DirectoryProofs!NoOrphansSerialHolds`, `LoginsDistinctSerialHolds`, `ReplicaFollowsSerialHolds` | the properties "without overlap", for any number of accounts, sub-users, logins and requests one after the other |
| `RoleLinksProofs!TypesHold`, `OnlyOwnLinkHolds`, `SymmetricSerialHolds` | all properties of `role_links`, for any account and lists of changes, the second for any number of requests under way |
| `PasswordsProofs!TypesHold` and six more | all properties of `passwords`, for any policy, passwords, clock and number of slots |
| `UfdsServerProofs!OnlyAuthorizedHolds`, `StoredDeletableHolds`, `ScopeExactHolds`, `ServesConfiguredHolds`, `OwnersAgree`, `TypesHold` | for any entries, binders and number of requests |
| `CapiProofs!TypesHold`, `LoginCurrentHolds`, `UpdateSeenHolds`, `CreateTruthfulHolds`, `OperatorsExistHolds` | for any number of processes, customers and requests, any expiry and timeout |
| `CapiEntriesProofs!TypesHold`, `DeletesWhatItSawHolds`, `PutAloneHolds`, `SmartloginRightHolds` | all properties of `capi_entries`, for any entries, fields, values, members, keys and number of requests |
| `CleanupProofs!TypesHold`, `ExclusiveHolds`, `RefusedHolds`, `NoLeftoverHolds`, `SuccessHolds` | for any number of processes, credentials and batch size |

*NoSkip.* A checkpoint is only ever written from `changenumber` or `searchnumber`, so
all numbers that may become the checkpoint have to be covered: `changenumber`, the
stored one, those of writes and reads under way (`NumbersInv`). That `changenumber`
stays covered when the worker moves it needs to know what the queue still holds
(`BusyInv`: all relevant records up to `searchnumber` are handled or queued, unless an
entry failed, in which case `onDrain` goes back). That `searchnumber` may be ahead when
no queue is running needs to know that the next search returns a record again
(`IdleInv`): this is the case of a search that ended with an error after delivering
entries. That only one of these activities goes on at a time is `PollInv` and
`ConnInv`, and the second is where the assumption is used: a disconnection while
the worker is busy lets a checkpoint read reset the numbers under it, which is
finding `replicator_busy_skip`. The invariant is `Replicator!IInv`; TLC confirms it when
`INVARIANT IInv` is added to `MCReplicatorRestart.cfg`.

*VersionBarrier, CaughtUp.* Both follow from `IInv` of the state before a step. A record is only
handled when it is the oldest of the queue (`cur`), and what is handled or queued is all there is
up to `searchnumber`, so that a refused version is never passed. When a search finds
nothing and the numbers are equal, everything below the range is covered and the range is
empty; `GapInv` (from any number up to the newest record the next one is at most `MaxGap + 1` away)
says that then nothing is above the range either. With `MaxGap >= QueueSize` this is false in the
code too, see below.

*Replay.* The view of the local directory and the set `handled` are related to the abstract
ones through the changelog: the remote is what all its records leave behind, the replica what
the handled ones do (`Mirrors`, with `Leaves`: the last record of a DN decides). For the next
record to have its effect it must find what its predecessors left (`History`: an add finds
no entry, a modify finds one and keeps its class), all handled numbers must be below it
(`Above(changenumber)`), and no other record may have been handled (`MatchedOnly`). `~exiting`
follows, as an add never finds an entry, and with it `NeverExits`; when all is handled the two
halves of `Mirrors` coincide (`Converged`); and each step handles the oldest pending record or none,
which is `ChangelogReplica!Next` or a stutter (`OrderedReplay`).

A record is never handled twice only as long as no checkpoint is read that is behind
`handled` (`ReadInv`). Either the checkpoint is read once, before anything was handled
(`NoReread`), and it does not matter whether later writes are lost; or the process does
reconnect, always at rest, when what it has written is stored or on its way in order
(`ReadsNewest`). Hence the hypotheses:

* `PlainReplay`: an entry keeps its class, and the local UFDS can delete what is replicated
  (a class that changes, or a refused delete, leaves entries behind: see below).
* `Steady`: no crash, lost answer, rejection, or disconnection of a busy process. After each
  of the first two the process may add an entry again and exit, a rejection is an exit, and the
  last is finding `replicator_busy_skip`.
* `WritesKept`: reconnections and lost or overtaken checkpoint writes do not come together, or one
  fault happens at most, as in the run `replicator`. With two TLC finds that the hypothesis is
  needed: the write of a checkpoint fails, the process reconnects, reads the old one, adds an
  entry again and exits.
* `Bootstrapped`: no entry in a query's scope is there before the changelog begins. An
  entry of another class that was copied over by hand would be deleted by a later record.

Each hypothesis holds in the instance of the run `replicator`.

*Directory.* The invariant says of a modify at its last call, and of a delete, that what
they hold is an entry that fits its DN (`ModifyLoaded`, `DeleteLoaded`), with
`LoginsScoped` of what is stored and `LastRecordInstalled`. It is inductive for any
number of requests because a batch writes the entry and its record together, and a
loaded entry, however old, is one that was scoped. `RecordsTruthful` is an action
property and follows from the guards of the batch that moray evaluates, not of the
checks made before.

Without overlap the argument is the opposite one: the checks are what counts. `SerialInv` says
that there is one request at most and that what its handlers have checked so far is still
true (`Checked`: there is no such entry, the parent is there, the login is free, what is loaded
is what is stored, there are no children), so that the batch keeps `NoOrphans`,
`DistinctIgnoringCase` and `ReplicaFollows`. A request that begins while another is under way sets
`overlapped`, and nothing more is promised.

*RoleLinks.* `TypeInv` adds to the types that a list names entries of the other kind only, so that a
request never relinks itself. `OnlyOwnLink` then follows from
the etags: what the batch puts is what was loaded, with or without one DN, and what was loaded is
what is stored. For `SymmetricSerial` the jobs still to load and those loaded are together what the
list asks for (`Expected`, `Serial`), the request's own entry is still as loaded, and
all entries to relink are there. `SymmetricCommit` then shows that the batch writes both sides of every
link it changes, with `ResultIs` for what at most one change makes of a list.

*CleanupJob.* `HolderHasFile` (a process that works owns the lock file unless one has been
removed as stale), `FileHeld` (the file's owner runs or was killed), `Alone`,
`AloneFindsFile`, `SeenAnother`, `RefusedForAnother` (whoever is refused has seen another
that was alive with it), `DueExpired` and `SuccessComplete`. `NoLeftover` follows from
`FileHeld`; it remains true after processes have removed each other's files, because
a process that ends unlinks whatever file is there.

*Passwords.* The properties are conditional on requests that do not overlap (`~disturbed`), and
so is the invariant (`PasswordInv`): there is at most one request (`Single`), and what it holds
of the entry is still true of it (`Fits`): an attempt is computed from the present entry, with
all but attempts and lock as stored, and its lock no earlier than the stored one (`Attempt`); a
change was found not to be a reuse. With that, `Counted`, `Remembered` and `Salted` are
inductive. `Salted` says more than `LegacySaltKept`: an account has had one SHA1 password
at most, and none in the history while it is the present one, so that dropping another
entry of the history never drops its salt.

*UfdsServer.* `AccessInv`: a request that waits for the group and whose binder is a member has
been entitled, since each change of the group looks at those who wait; a search under way
is entitled. `DeletableInv`: what is stored has the owner and parent of its DN, and was
forced, or is a user of another account, or passes a delete's validation, which depends on
no clock and no change (`ValidForDelete`), not even on the account that `preloadAccount` fills
in after the validation (`AddedDeletable`). `ScopeExact` needs that the owner stored with an
entry is the one its search asks for (`OwnersAgree`), and that what is below a DN ends with its
text (`FoundByText`). `ServingInv` is the type invariant with what makes it inductive: an owner
read off a DN is a uuid of it (`OwnerIsUuid`), and requests are served by a process that listens.

*CapiCustomers.* `TInv` (types, and which requests carry which arguments), then one invariant for
each theorem: what is cached or was read is no older than its age says (`FInv`); an update that
nobody has overwritten finds in its cache and in its answers the password it wrote (`CInv`); and
the life of a customer, from the uuid that is drawn to the deletion that takes it out of the
group (`LInv`).

*CapiEntries.* A request is `Sound` when a put brings a value and a del that has come to its
delete names the value it read: with that, only `ServeDelete` can make a value go. `EntriesInv`
says what a put that is still alone knows (`PutInformed`): whether there is an entry for it, and
that what it adds is missing. `LoginInv` is of the smartlogin in progress (`Justified`): what it
has found comes from those who had the key; and, while nothing changes, it has found all
there is but for the members whose search is still pending (`Exact`).

Only model-checked: liveness (`EventuallyReplicated`, `EventuallyListens`, the end of the cleanup
job), as the proof system has no rule for `ENABLED` here. All other properties of the passing
runs are proved, those of the replicator under the hypotheses above.
Statements about recursively defined data for every input would need induction
over an operator, which is out of the provers' reach; no module has a RECURSIVE
operator.


## What the model shows beyond the runs

Behaviours of the code that the actions contain, and that TLC finds when it is asked. For
the first three the property is in its module, and the run is the one named with the
property added to its configuration.

* `Replicator!NoStaleEntries`, with modifies of the objectclass: a modify after which a query no
  longer matches leaves the local entry (`instance.js:427` does not replicate the record, although
  `operations.js:160` has a scenario for it).
* `RoleLinks!PoliciesListRoles`, with `MaxChanges = 2` and one slot: a request with two changes of the
  same list writes the links of the last one only (`mod.js:173`; `docs/index.md:298-300`).
* `Passwords!NoLoginWhileLocked` with `passwords`: a bind of a locked account succeeds and unlocks
  it, because only compare looks at the lock (`salt.js:285`; `docs/index.md:181`).
* Replicator. After a crash between an add and its checkpoint the add is sent again;
  `ops.add` of an entry that exists ends the process, although `operations.js:114` says it
  is ignored, so `NeverExits` holds only without crashes. A disconnection while the
  queue is busy can leave it busy for ever. When a checkpoint read fails no timer is
  started; a second connection starts a second interval, and the first can no longer be
  cleared. With the template's queries a delete of an entry that another query's
  filter would match removes a local entry that was never replicated (`operations.js:292-293`).
  A gap wider than `queueSize` announces "caughtup" too early (`instance.js:731-732`).
  An exception of `JSON.parse` in `handleEntry` calls back twice (`instance.js:542-544`).
* Directory. A modify of a login is not checked ignoring case; an add and a delete that
  overlap leave an orphan; a modify that overlaps a delete brings the entry back. On a
  replica no account is preloaded, so the alias is not replayed when a login is
  (`docs/index.md:262`). An error of the search for entries of the same name is taken for
  "there are none" (`add.js:272`). `_del` of `common.js` would not call back on an error. The
  replicator relies on `guaranteeOrder` of moray's changelog bucket.
* Links. A role's own entry is put without an etag, so that overlapping requests can make
  role and policy disagree; a removal then meets an entry without a list and throws.
  A DN that is already on a list is pushed again.
* Passwords. A failed bind that overlaps a change of password puts the old password
  back. A bind of an account that still has its SHA1 salt hands it to bcrypt, which
  throws. `checkPwdHistory` throws without a policy; a failed compare without a policy
  clears the failures. After a lock has expired, one more failure locks again.
* Cleanup job. A deletion that fails for ever makes the job search, fail and search again,
  holding the lock; the test's mock hides it (`test/cleanup-expired-credentials.test.js:207`).
* Server. An administrators' group without members makes the next request of somebody who
  does not own its entry throw in the callback, and the process ends (`AuthorizeThrows`). A search
  of a subtree with a size limit may send less than the limit although there is more, as
  foreign DNs with the same ending are counted by moray and dropped afterwards. The
  validator's loop over optional attributes compares a number with an array
  (`lib/schema/validator.js:107`), so that neither their number nor `strict` is enforced, against
  `README.md:81-82`. A user that is added with another account's uuid as `account` and without the
  class `sdcaccountuser` gets that class after the validation (`add.js:143-160`), and can be
  changed or deleted with ManageDSAIT only: the exception in `StoredDeletable`.
* CAPI. When a create cannot add the customer to the operators, the call that should delete
  the customer is made on `req.ldap`, which is undefined: the customer stays. A `del` of the last
  dataset of a data center leaves an empty entry, which `put` takes for missing and tries to
  add for ever. A limit whose stored value is not what `parseInt` prints is never deleted, with
  200 as the answer. `loadMetadata` passes on the wrong error: a put becomes an add, a del throws.
  One default member of the administrator role that does not exist makes every smartlogin
  and every list fail. `keys.put` needs a modifyDN, which UFDS does not have. The fraud list is
  searched with scope 'one' below itself and never found.


## What is not modelled

* Several replicator instances in a process, and the loss of the local connection.
  Queries on other attributes than `objectclass`.
* In the write chains: the blacklist, the uniqueness of names of roles and policies,
  immutable attributes. Validation is in `UfdsServer`, with whole operations.
* The expiry of passwords (`pwdendtime`), their quality, the choice between the policies of
  an account and of the directory, and the `_replicated` requests that skip the checks.
  The changelog record of a bind's batch: `Directory` has the same batch.
* Lists that name a DN twice (`RoleLinks` keeps sets). Reuse of PIDs (`CleanupJob`).
* Classes other than accounts, users, roles, access keys and groups: they check the form of
  single attributes. The translation of filters, and searches of the changelog.
* CAPI: lists, searches by email, the translation between LDAP and XML or JSON, `keys.put`, the
  fraud list (no sequence of its requests gets past the second).
* `lib/keys.js` (fingerprints and attestation certificates are transformations of one entry
  with cryptographic libraries), the tools, the set-up of zones: no state of their own.


## Plan

Done, in this order: the replicator with its abstract specification and the proof of
`NoSkip`; the write chains with their proofs; links; passwords with their proofs; the
cleanup job with its proofs; CAPI's customers and its entries, with their proofs; the
server with schema, authorization and searches, with their proofs; the links; the write
chains without overlap; the replicator's refinement of `ChangelogReplica`.

Left to prove: a weaker promise for a replicator that crashes (each record handled at least once, in
order since the last start, until it exits), for which `ChangelogReplica` needs a restart that goes
back; `Converged` for modifies of the class; `SymmetricSerial` for requests that overlap on entries
that have no link in common.

Left to model: the expiry of passwords; `Directory` and `Replicator` composed, with the
replicator's local operations as the requests of `Directory`, so that the alias and the
etag-free modify are seen downstream.
