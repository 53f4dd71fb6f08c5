--------------------------- MODULE DirectoryProofs ---------------------------
(***************************************************************************)
(* Proofs about Directory, for any directory and any number of requests    *)
(* under way: its type invariant, LoginsScoped, LastRecordInstalled and    *)
(* RecordsTruthful.  The invariant says what the entry that a request has  *)
(* loaded is like, although the directory may have changed since.  The     *)
(* second half is about requests that do not overlap: NoOrphansSerial,     *)
(* LoginsDistinctSerial and ReplicaFollowsSerial.                          *)
(***************************************************************************)
EXTENDS Directory, TLAPS

AliasFits(dn, entry) == entry.alias = IF dn \in SubUsers THEN entry.login.name ELSE NoAlias

\* An entry as plain requests leave it, with the prefix its login should have.
Proper(dn, entry, scope) ==
    ~entry.imported /\ entry.login.scope = scope /\ AliasFits(dn, entry)

\* What an add is about to store.
AddWritten ==
    \A s \in Slots : req[s] # Idle /\ req[s].type = "add" =>
        /\ req[s].entry.alias = NoAlias
        /\ req[s].entry.imported \/ req[s].entry.login.scope = NoScope

\* A modify that has loaded its entry.
ModifyLoaded ==
    \A s \in Slots : req[s] # Idle /\ req[s].type = "modify" /\ req[s].step # "load" =>
        /\ req[s].entry \in Entries
        /\ OnlyPlain(req[s].dn) => Proper(req[s].dn, req[s].entry, NoScope)

\* A delete that has loaded its entry.
DeleteLoaded ==
    \A s \in Slots : req[s] # Idle /\ req[s].type = "delete" /\ req[s].step = "commit" =>
        req[s].entry \in Entries

\* What plain requests have stored.
EntriesProper ==
    \A dn \in DNs : Present(dn) /\ OnlyPlain(dn) => Proper(dn, dir[dn], Scope(dn))

IInv ==
    /\ TypeOK /\ AddWritten /\ ModifyLoaded /\ DeleteLoaded
    /\ EntriesProper /\ LastRecordInstalled

-----------------------------------------------------------------------------
(* The operators on entries *)

LEMMA NoneIsNoEntry == None \notin Entries
  BY NoAliasAssumption DEF None, Bare, Entries, ScopedLogins

LEMMA ScopeType == ASSUME NEW dn \in DNs PROVE Scope(dn) \in Accounts \cup {NoScope}
  BY OwnerAssumption DEF Scope, DNs

LEMMA PrefixedIs ==
    ASSUME NEW dn \in DNs, NEW login \in ScopedLogins
    PROVE  /\ Prefixed(dn, login) \in ScopedLogins
           /\ Prefixed(dn, login).name = login.name
           /\ Prefixed(dn, login).scope = IF login.scope = NoScope THEN Scope(dn) ELSE login.scope
           /\ Scope(dn) = NoScope => Prefixed(dn, login) = login
<1>1. [login EXCEPT !.scope = Scope(dn)] \in ScopedLogins
  BY ScopeType DEF ScopedLogins
<1>2. login.scope = NoScope /\ Scope(dn) = NoScope => [login EXCEPT !.scope = Scope(dn)] = login
  BY DEF ScopedLogins
<1> QED
  BY <1>1, <1>2 DEF Prefixed, ScopedLogins

\* What scopeSubAccount makes of an entry can be stored.
LEMMA ScopedIs ==
    ASSUME NEW dn \in DNs, NEW entry \in Entries
    PROVE  /\ Scoped(dn, entry) \in Entries
           /\ Scoped(dn, entry).imported = entry.imported
           /\ Scoped(dn, entry).data = entry.data
           /\ IF Preloaded(dn, entry)
                THEN /\ Scoped(dn, entry).login = Prefixed(dn, entry.login)
                     /\ Scoped(dn, entry).alias = entry.login.name
                ELSE Scoped(dn, entry) = entry
<1>1. entry.login \in ScopedLogins /\ entry.login.name \in Logins
  BY DEF Entries, ScopedLogins
<1>2. Prefixed(dn, entry.login) \in ScopedLogins
  BY <1>1, PrefixedIs
<1> QED
  BY <1>1, <1>2 DEF Scoped, Entries

\* What _subUser makes of it.
LEMMA UnscopedIs ==
    ASSUME NEW dn \in DNs, NEW entry \in Entries
    PROVE  /\ Unscoped(dn, entry) \in Entries
           /\ Unscoped(dn, entry).alias = entry.alias
           /\ Unscoped(dn, entry).data = entry.data
           /\ Unscoped(dn, entry).imported = entry.imported
           /\ Unscoped(dn, entry).login.name = entry.login.name
           /\ Unscoped(dn, entry).login.scope = IF dn \in SubUsers THEN NoScope ELSE entry.login.scope
<1>1. entry.login \in ScopedLogins
  BY DEF Entries
<1>2. [entry.login EXCEPT !.scope = NoScope] \in ScopedLogins
  BY <1>1 DEF ScopedLogins
<1> QED
  BY <1>1, <1>2 DEF Unscoped, Entries, ScopedLogins

LEMMA LoadedProper ==
    ASSUME TypeOK, EntriesProper, NEW dn \in DNs, Present(dn)
    PROVE  /\ Unscoped(dn, dir[dn]) \in Entries
           /\ OnlyPlain(dn) => Proper(dn, Unscoped(dn, dir[dn]), NoScope)
<1>1. dir[dn] \in Entries
  BY DEF TypeOK, Present
<1>2. dn \notin SubUsers => Scope(dn) = NoScope
  BY DEF Scope
<1> QED
  BY <1>1, <1>2, UnscopedIs DEF EntriesProper, Proper, AliasFits

\* What change() makes of a loaded entry can be stored.
LEMMA ChangedIs ==
    ASSUME NEW dn \in DNs, NEW entry \in Entries, NEW change \in Changes
    PROVE  /\ Changed(dn, entry, change) \in Entries
           /\ Changed(dn, entry, change).imported = entry.imported
           /\ change.attr = "data" =>
                /\ Changed(dn, entry, change).data = change.val
                /\ Changed(dn, entry, change).alias = entry.alias
                /\ Changed(dn, entry, change).login.name = entry.login.name
                /\ Changed(dn, entry, change).login.scope =
                        IF dn \in SubUsers THEN Scope(dn) ELSE entry.login.scope
           /\ change.attr = "login" /\ change.op = "replace" =>
                /\ Changed(dn, entry, change).data = entry.data
                /\ Changed(dn, entry, change).login =
                        IF Preloaded(dn, entry) THEN Prefixed(dn, change.val) ELSE change.val
                /\ Changed(dn, entry, change).alias =
                        IF Preloaded(dn, entry) THEN change.val.name ELSE entry.alias
<1>0. change.attr \in {"login", "data"}
  BY DEF Changes
<1>1. CASE change.attr = "login" /\ change.op = "replace"
  <2> DEFINE renamed == [entry EXCEPT !.login = change.val]
  <2>1. change.val \in ScopedLogins
    BY <1>1 DEF Changes
  <2>2. /\ renamed \in Entries /\ renamed.login = change.val /\ renamed.alias = entry.alias
        /\ renamed.data = entry.data /\ renamed.imported = entry.imported
    BY <2>1 DEF Entries
  <2>3. Changed(dn, entry, change) = Scoped(dn, renamed)
    BY <1>1 DEF Changed
  <2> HIDE DEF renamed
  <2>4. Preloaded(dn, renamed) <=> Preloaded(dn, entry)
    BY <2>2 DEF Preloaded
  <2> QED
    BY <1>1, <2>2, <2>3, <2>4, ScopedIs
<1>2. CASE change.attr = "login" /\ change.op # "replace"
  BY <1>2 DEF Changed
<1>3. CASE change.attr = "data"
  <2> DEFINE scope == IF dn \in SubUsers THEN Scope(dn) ELSE entry.login.scope
             login == [entry.login EXCEPT !.scope = scope]
             other == [entry EXCEPT !.data = change.val]
  <2>1. change.val \in Data
    BY <1>3 DEF Changes
  <2>2. entry.login \in ScopedLogins /\ scope \in Accounts \cup {NoScope}
    BY ScopeType DEF Entries, ScopedLogins
  <2>3. Changed(dn, entry, change) = [other EXCEPT !.login = login]
    BY <1>3, <2>1 DEF Changed, Entries, ScopedLogins
  <2> HIDE DEF scope
  <2>4. login \in ScopedLogins /\ login.name = entry.login.name /\ login.scope = scope
    BY <2>2 DEF ScopedLogins
  <2> HIDE DEF login
  <2>5. /\ other \in Entries /\ other.data = change.val /\ other.alias = entry.alias
        /\ other.imported = entry.imported
    BY <2>1 DEF Entries
  <2> HIDE DEF other
  <2> QED
    BY <1>3, <2>3, <2>4, <2>5 DEF Entries, scope
<1> QED
  BY <1>0, <1>1, <1>2, <1>3

LEMMA LoggedIs ==
    ASSUME NEW dn \in DNs, NEW change \in Changes
    PROVE  /\ Logged(dn, change) \in Changes
           /\ Logged(dn, change).attr = change.attr /\ Logged(dn, change).op = change.op
           /\ change.attr = "login" => Logged(dn, change).val = Prefixed(dn, change.val)
           /\ change.attr # "login" => Logged(dn, change) = change
<1>1. CASE change.attr = "login"
  <2>1. change.val \in ScopedLogins /\ Prefixed(dn, change.val) \in ScopedLogins
    BY <1>1, PrefixedIs DEF Changes
  <2>2. Logged(dn, change) = [change EXCEPT !.val = Prefixed(dn, change.val)]
    BY <1>1 DEF Logged
  <2> QED
    BY <1>1, <2>1, <2>2 DEF Changes
<1>2. CASE change.attr # "login"
  BY <1>2 DEF Logged
<1> QED
  BY <1>1, <1>2

\* A plain change of a proper entry leaves a proper one.
LEMMA ChangedProper ==
    ASSUME NEW dn \in DNs, NEW entry \in Entries, NEW change \in Changes,
           Proper(dn, entry, NoScope),
           change.attr = "login" =>
                change.op = "replace" /\ Logged(dn, change).val.scope \in {NoScope, Scope(dn)}
    PROVE  Proper(dn, Changed(dn, entry, change), Scope(dn))
<1>0. change.attr \in {"login", "data"} /\ (Preloaded(dn, entry) <=> dn \in SubUsers)
  BY DEF Changes, Proper, Preloaded
<1>1. dn \notin SubUsers => Scope(dn) = NoScope
  BY DEF Scope
<1>2. CASE change.attr = "data"
  BY <1>1, <1>2, ChangedIs DEF Proper, AliasFits
<1>3. CASE change.attr = "login"
  <2>1. change.val \in ScopedLogins /\ Logged(dn, change).val = Prefixed(dn, change.val)
    BY <1>3, LoggedIs DEF Changes
  <2>2. /\ Prefixed(dn, change.val).name = change.val.name
        /\ Prefixed(dn, change.val).scope = Scope(dn)
        /\ dn \notin SubUsers => Prefixed(dn, change.val) = change.val
    BY <1>1, <1>3, <2>1, PrefixedIs
  <2> QED
    BY <1>0, <1>3, <2>2, ChangedIs DEF Proper, AliasFits
<1> QED
  BY <1>0, <1>2, <1>3

-----------------------------------------------------------------------------
LEMMA InitIInv == Init => IInv
<1> SUFFICES ASSUME Init PROVE IInv
  OBVIOUS
<1>1. TypeOK
  <2>1. clog \in Seq(Records)
    BY DEF Init
  <2>2. dir \in [DNs -> Entries \cup {None}] /\ image \in [DNs -> Entries \cup {None}]
    BY DEF Init
  <2>3. req \in [Slots -> Requests \cup {Idle}] /\ overlapped \in BOOLEAN
    BY DEF Init
  <2> QED
    BY <2>1, <2>2, <2>3 DEF TypeOK
<1>2. AddWritten /\ ModifyLoaded /\ DeleteLoaded
  BY DEF Init, AddWritten, ModifyLoaded, DeleteLoaded
<1>3. EntriesProper
  BY DEF Init, EntriesProper, Present
<1>4. Len(clog) = 0
  BY DEF Init
<1>5. LastRecordInstalled
  BY <1>4 DEF LastRecordInstalled
<1> QED
  BY <1>1, <1>2, <1>3, <1>5 DEF IInv

(***************************************************************************)
(* A step leaves the directory and the changelog alone, or commits a batch *)
(* with an entry and the record of what became of it.                      *)
(***************************************************************************)
Commits(record) ==
    /\ dir' = [dir EXCEPT ![record.dn] = Result(record)]
    /\ Log(record)
    /\ record.type # "delete" /\ OnlyPlain(record.dn) /\ Plain(record) =>
        Proper(record.dn, record.entry, Scope(record.dn))
    /\ record.type = "add" => dir[record.dn] = None
    /\ record.type = "delete" => dir[record.dn] # None

Stored == <<dir, clog, image>>

\* What an add stores is proper, unless it is imported.
LEMMA AddProper ==
    ASSUME NEW dn \in DNs, NEW entry \in Entries, entry.alias = NoAlias,
           entry.imported \/ entry.login.scope = NoScope
    PROVE  /\ Scoped(dn, entry) \in Entries
           /\ Scoped(dn, entry).login.name = entry.login.name
           /\ Scoped(dn, entry).imported = entry.imported
           /\ entry.imported \/ Proper(dn, Scoped(dn, entry), Scope(dn))
<1>1. entry.login \in ScopedLogins
  BY DEF Entries
<1>2. dn \notin SubUsers => Scope(dn) = NoScope
  BY DEF Scope
<1> QED
  BY <1>1, <1>2, ScopedIs, PrefixedIs DEF Proper, AliasFits, Preloaded

LEMMA AddCommits ==
    ASSUME IInv, NEW s \in Slots, CommitAdd(s)
    PROVE  UNCHANGED Stored \/ \E record \in Records : Commits(record)
<1> DEFINE dn     == req[s].dn
           entry  == Scoped(dn, req[s].entry)
           record == [type |-> "add", dn |-> dn, change |-> NoChange, entry |-> entry]
<1>1. /\ dn \in DNs /\ req[s].entry \in Entries /\ req[s].entry.alias = NoAlias
      /\ req[s].entry.imported \/ req[s].entry.login.scope = NoScope
  BY DEF IInv, TypeOK, AddWritten, CommitAdd, At, Requests, Idle
<1>2. CASE ~(~Present(dn) /\ LoginFree(dn, entry.login))
  BY <1>2 DEF CommitAdd, Stored
<1>3. CASE ~Present(dn) /\ LoginFree(dn, entry.login)
  <2>1. dir' = [dir EXCEPT ![dn] = entry] /\ Log(record)
    BY <1>3 DEF CommitAdd
  <2>2. entry \in Entries /\ (entry.imported \/ Proper(dn, entry, Scope(dn)))
    BY <1>1, AddProper
  <2>3. record \in Records
    BY <1>1, <2>2 DEF Records
  <2>4. Commits(record)
    BY <1>3, <2>1, <2>2 DEF Commits, Result, Present, Plain
  <2> QED
    BY <2>3, <2>4
<1> QED
  BY <1>2, <1>3

LEMMA ModifyCommits ==
    ASSUME IInv, NEW s \in Slots, CommitModify(s)
    PROVE  UNCHANGED Stored \/ \E record \in Records : Commits(record)
<1> DEFINE dn     == req[s].dn
           change == req[s].change
           entry  == Changed(dn, req[s].entry, change)
           accepted == SchemaAccepts(req[s].entry, change) /\ LoginFree(dn, entry.login)
           record == [type |-> "modify", dn |-> dn, change |-> Logged(dn, change), entry |-> entry]
<1>1. dn \in DNs /\ change \in Changes
  BY DEF IInv, TypeOK, CommitModify, At, Requests, Idle
<1>2. /\ req[s].entry \in Entries
      /\ OnlyPlain(dn) => Proper(dn, req[s].entry, NoScope)
  BY DEF IInv, ModifyLoaded, CommitModify, At
<1>3. CASE ~accepted
  BY <1>3 DEF CommitModify, Stored
<1>4. CASE accepted
  <2>1. dir' = [dir EXCEPT ![dn] = entry] /\ Log(record)
    BY <1>4 DEF CommitModify
  <2>2. entry \in Entries /\ Logged(dn, change) \in Changes
        /\ Logged(dn, change).attr = change.attr /\ Logged(dn, change).op = change.op
    BY <1>1, <1>2, ChangedIs, LoggedIs
  <2>3. record \in Records
    BY <1>1, <2>2 DEF Records
  <2>4. OnlyPlain(dn) /\ Plain(record) => Proper(dn, entry, Scope(dn))
    <3>1. Plain(record) => (change.attr = "login" =>
                change.op = "replace" /\ Logged(dn, change).val.scope \in {NoScope, Scope(dn)})
      BY <2>2 DEF Plain
    <3> HIDE DEF record, dn, change
    <3> QED
      BY <1>1, <1>2, <3>1, ChangedProper
  <2>5. Commits(record)
    BY <2>1, <2>4 DEF Commits, Result
  <2> QED
    BY <2>3, <2>5
<1> QED
  BY <1>3, <1>4

LEMMA DeleteCommits ==
    ASSUME IInv, NEW s \in Slots, CommitDelete(s)
    PROVE  UNCHANGED Stored \/ \E record \in Records : Commits(record)
<1> DEFINE dn     == req[s].dn
           record == [type |-> "delete", dn |-> dn, change |-> NoChange, entry |-> req[s].entry]
<1>1. dn \in DNs
  BY DEF IInv, TypeOK, CommitDelete, At, Requests, Idle
<1>2. req[s].entry \in Entries
  BY DEF IInv, DeleteLoaded, CommitDelete, At
<1>3. CASE ~Present(dn)
  BY <1>3 DEF CommitDelete, Stored
<1>4. CASE Present(dn)
  <2>1. dir' = [dir EXCEPT ![dn] = None] /\ Log(record)
    BY <1>4 DEF CommitDelete
  <2>2. record \in Records
    BY <1>1, <1>2 DEF Records
  <2>3. Commits(record)
    BY <1>4, <2>1 DEF Commits, Result, Present
  <2> QED
    BY <2>2, <2>3
<1> QED
  BY <1>3, <1>4

LEMMA KindsOfSteps ==
    ASSUME IInv, [Next]_vars
    PROVE  UNCHANGED Stored \/ \E record \in Records : Commits(record)
<1>1. \/ UNCHANGED Stored
      \/ \E s \in Slots : CommitAdd(s) \/ CommitModify(s) \/ CommitDelete(s)
  BY DEF Next, AddStep, ModifyStep, DeleteStep, vars, Stored, Begin, BeginAdd, BeginModify,
         BeginDelete, Check, AddEntryExists, AddParentExists, AddPreloadAccount, ValidateLogin,
         ModifyLoad, ModifyPreloadAccount, DeleteEntryExists, ChildExists, DeleteLoad, MorayFails
<1> QED
  BY <1>1, AddCommits, ModifyCommits, DeleteCommits

-----------------------------------------------------------------------------
(* The type invariant *)

LEMMA ReplayedChangeType ==
    ASSUME NEW dn \in DNs, NEW held \in Entries, NEW change \in Changes
    PROVE  ReplayedChange(dn, held, change) \in Entries
<1> DEFINE loaded == Unscoped(dn, held)
<1>1. loaded \in Entries /\ Changed(dn, loaded, change) \in Entries
  BY UnscopedIs, ChangedIs
<1>2. change.attr \in {"login", "data"} /\ (change.attr = "login" => change.val \in ScopedLogins)
  BY DEF Changes
<1> HIDE DEF loaded
<1>3. change.attr = "login" => [loaded EXCEPT !.login = change.val] \in Entries
  BY <1>1, <1>2 DEF Entries
<1> QED
  BY <1>1, <1>2, <1>3 DEF ReplayedChange, loaded

LEMMA ReplayedType ==
    ASSUME TypeOK, NEW record \in Records
    PROVE  Replayed(record) \in Entries \cup {None}
<1>1. record.dn \in DNs /\ record.entry \in Entries /\ image[record.dn] \in Entries \cup {None}
  BY DEF TypeOK, Records
<1>2. record.type = "modify" => record.change \in Changes
  BY DEF Records
<1>3. record.type = "modify" /\ image[record.dn] # None =>
        ReplayedChange(record.dn, image[record.dn], record.change) \in Entries
  BY <1>1, <1>2, ReplayedChangeType
<1> QED
  BY <1>1, <1>3 DEF Replayed

LEMMA StoredTypeStep ==
    ASSUME IInv, [Next]_vars
    PROVE  /\ dir' \in [DNs -> Entries \cup {None}]
           /\ clog' \in Seq(Records)
           /\ image' \in [DNs -> Entries \cup {None}]
<1>1. CASE UNCHANGED Stored
  BY <1>1 DEF IInv, TypeOK, Stored
<1>2. ASSUME NEW record \in Records, Commits(record)
      PROVE  /\ dir' \in [DNs -> Entries \cup {None}]
             /\ clog' \in Seq(Records)
             /\ image' \in [DNs -> Entries \cup {None}]
  <2>1. Result(record) \in Entries \cup {None}
    BY DEF Result, Records
  <2>2. Replayed(record) \in Entries \cup {None}
    BY ReplayedType DEF IInv
  <2>3. dir' = [dir EXCEPT ![record.dn] = Result(record)] /\ clog' = Append(clog, record)
        /\ image' = [image EXCEPT ![record.dn] = Replayed(record)]
    BY <1>2 DEF Commits, Log
  <2>4. dir' \in [DNs -> Entries \cup {None}]
    BY <2>1, <2>3 DEF IInv, TypeOK
  <2>5. clog' \in Seq(Records)
    BY <2>3 DEF IInv, TypeOK
  <2>6. image' \in [DNs -> Entries \cup {None}]
    BY <2>2, <2>3 DEF IInv, TypeOK
  <2> QED
    BY <2>4, <2>5, <2>6
<1> QED
  BY <1>1, <1>2, KindsOfSteps

\* A changelog that is plain has been plain before.
LEMMA PlainBefore ==
    ASSUME IInv, [Next]_vars, NEW dn \in DNs, OnlyPlain(dn)'
    PROVE  OnlyPlain(dn)
<1>1. CASE UNCHANGED Stored
  BY <1>1 DEF OnlyPlain, Plain, Stored
<1>2. ASSUME NEW record \in Records, Commits(record) PROVE OnlyPlain(dn)
  <2>1. clog' = Append(clog, record) /\ clog \in Seq(Records)
    BY <1>2 DEF Commits, Log, IInv, TypeOK
  <2>2. /\ Len(clog') = Len(clog) + 1 /\ Len(clog) \in Nat
        /\ \A n \in 1 .. Len(clog) : clog'[n] = clog[n]
    BY <2>1
  <2> QED
    BY <2>2 DEF OnlyPlain, Plain
<1> QED
  BY <1>1, <1>2, KindsOfSteps

-----------------------------------------------------------------------------
(***************************************************************************)
(* The requests: what IInv says of each of them.                           *)
(***************************************************************************)
Sound(request) ==
    /\ request \in Requests \cup {Idle}
    /\ request.type = "add" =>
        /\ request.entry.alias = NoAlias
        /\ request.entry.imported \/ request.entry.login.scope = NoScope
    /\ request.type = "modify" /\ request.step # "load" =>
        /\ request.entry \in Entries
        /\ OnlyPlain(request.dn) => Proper(request.dn, request.entry, NoScope)
    /\ request.type = "delete" /\ request.step = "commit" => request.entry \in Entries

LEMMA SoundRequests ==
    ASSUME IInv, NEW s \in Slots
    PROVE  Sound(req[s])
  BY DEF IInv, TypeOK, AddWritten, ModifyLoaded, DeleteLoaded, Sound, Idle

\* Every step but those below ends a request or leaves it as it is.
LEMMA BeginSound ==
    ASSUME IInv, NEW s \in Slots, BeginAdd(s) \/ BeginModify(s) \/ BeginDelete(s)
    PROVE  \E request : Sound(request) /\ req' = [req EXCEPT ![s] = request]
<1>1. ASSUME NEW dn \in DNs, NEW login \in Written, NEW data \in Data, NEW imported \in BOOLEAN,
             login.scope = NoScope \/ imported
      PROVE  Sound([type |-> "add", step |-> "entryExists", dn |-> dn, change |-> NoChange,
                    entry |-> [login |-> login, alias |-> NoAlias, data |-> data,
                               imported |-> imported]])
  <2> DEFINE entry == [login |-> login, alias |-> NoAlias, data |-> data, imported |-> imported]
  <2>1. entry \in Entries /\ entry.alias = NoAlias /\ entry.login = login /\ entry.imported = imported
    BY WrittenAssumption DEF Entries
  <2> HIDE DEF entry
  <2>2. Sound([type |-> "add", step |-> "entryExists", dn |-> dn, change |-> NoChange,
               entry |-> entry])
    BY <1>1, <2>1 DEF Sound, Requests, AddSteps
  <2> QED
    BY <2>2 DEF entry
<1>2. ASSUME NEW dn \in DNs, NEW change \in Changes
      PROVE  Sound([type |-> "modify", step |-> "load", dn |-> dn,
                    change |-> change, entry |-> None])
  BY <1>2 DEF Sound, Requests, ModifySteps
<1>3. ASSUME NEW dn \in DNs
      PROVE  Sound([type |-> "delete", step |-> "entryExists", dn |-> dn,
                    change |-> NoChange, entry |-> None])
  BY <1>3 DEF Sound, Requests, DeleteSteps
<1> QED
  BY <1>1, <1>2, <1>3 DEF BeginAdd, BeginModify, BeginDelete, Begin

LEMMA FinishSound ==
    ASSUME NEW s \in Slots, Finish(s)
    PROVE  \E request : Sound(request) /\ req' = [req EXCEPT ![s] = request]
<1>1. Sound(Idle)
  BY DEF Sound, Idle
<1> QED
  BY <1>1 DEF Finish

\* A handler that only decides whether the chain goes on.
LEMMA CheckSound ==
    ASSUME IInv, NEW s \in Slots, NEW condition \in BOOLEAN, NEW step, Check(s, condition, step),
           \/ req[s].type = "add" /\ step \in AddSteps
           \/ req[s].type = "modify" /\ req[s].step # "load" /\ step \in ModifySteps \ {"load"}
           \/ req[s].type = "delete" /\ step \in DeleteSteps \ {"commit"},
           req[s] # Idle
    PROVE  \E request : Sound(request) /\ req' = [req EXCEPT ![s] = request]
<1>1. CASE Finish(s)
  BY <1>1, FinishSound
<1>2. CASE Continue(s, step)
  <2>1. Sound(req[s])
    BY SoundRequests
  <2>2. req' = [req EXCEPT ![s] = [req[s] EXCEPT !.step = step]]
    BY <1>2 DEF Continue, IInv, TypeOK
  <2>3. Sound([req[s] EXCEPT !.step = step])
    BY <2>1 DEF Sound, Requests, Idle
  <2> QED
    BY <2>2, <2>3
<1> QED
  BY <1>1, <1>2 DEF Check

LEMMA AddSound ==
    ASSUME IInv, NEW s \in Slots,
           \/ AddEntryExists(s) \/ AddParentExists(s) \/ AddPreloadAccount(s) \/ ValidateLogin(s)
    PROVE  \E request : Sound(request) /\ req' = [req EXCEPT ![s] = request]
  BY CheckSound DEF AddEntryExists, AddParentExists, AddPreloadAccount, ValidateLogin, At, AddSteps,
                    Present, ParentPresent, LoginTaken

LEMMA ModifySound ==
    ASSUME IInv, NEW s \in Slots, ModifyLoad(s) \/ ModifyPreloadAccount(s)
    PROVE  \E request : Sound(request) /\ req' = [req EXCEPT ![s] = request]
<1>1. CASE ModifyPreloadAccount(s)
  BY <1>1, CheckSound DEF ModifyPreloadAccount, At, ModifySteps, ParentPresent, Present
<1>2. CASE ModifyLoad(s) /\ ~Present(req[s].dn)
  BY <1>2, FinishSound DEF ModifyLoad
<1>3. CASE ModifyLoad(s) /\ Present(req[s].dn)
  <2> DEFINE loaded  == Unscoped(req[s].dn, dir[req[s].dn])
             request == [req[s] EXCEPT !.step = "preloadAccount", !.entry = loaded]
  <2>1. req' = [req EXCEPT ![s] = request]
    BY <1>3 DEF ModifyLoad, IInv, TypeOK
  <2>2. Sound(req[s]) /\ req[s] # Idle /\ req[s].type = "modify" /\ req[s].dn \in DNs
    BY <1>3, SoundRequests DEF ModifyLoad, At, Sound, Requests, Idle
  <2>3. loaded \in Entries /\ (OnlyPlain(req[s].dn) => Proper(req[s].dn, loaded, NoScope))
    BY <1>3, <2>2, LoadedProper DEF IInv
  <2> HIDE DEF loaded
  <2>4. Sound(request)
    BY <2>2, <2>3 DEF Sound, Requests, Idle, ModifySteps
  <2> QED
    BY <2>1, <2>4
<1> QED
  BY <1>1, <1>2, <1>3

LEMMA DeleteSound ==
    ASSUME IInv, NEW s \in Slots, DeleteEntryExists(s) \/ ChildExists(s) \/ DeleteLoad(s)
    PROVE  \E request : Sound(request) /\ req' = [req EXCEPT ![s] = request]
<1>1. CASE DeleteEntryExists(s) \/ ChildExists(s)
  BY <1>1, CheckSound DEF DeleteEntryExists, ChildExists, At, DeleteSteps, Present
<1>2. CASE DeleteLoad(s) /\ ~Present(req[s].dn)
  BY <1>2, FinishSound DEF DeleteLoad
<1>3. CASE DeleteLoad(s) /\ Present(req[s].dn)
  <2> DEFINE request == [req[s] EXCEPT !.step = "commit", !.entry = dir[req[s].dn]]
  <2>1. req' = [req EXCEPT ![s] = request]
    BY <1>3 DEF DeleteLoad, IInv, TypeOK
  <2>2. Sound(req[s]) /\ req[s] # Idle /\ req[s].type = "delete" /\ req[s].dn \in DNs
    BY <1>3, SoundRequests DEF DeleteLoad, At, Sound, Requests, Idle
  <2>3. dir[req[s].dn] \in Entries
    BY <1>3, <2>2 DEF Present, IInv, TypeOK
  <2>4. Sound(request)
    BY <2>2, <2>3 DEF Sound, Requests, Idle, DeleteSteps
  <2> QED
    BY <2>1, <2>4
<1> QED
  BY <1>1, <1>2, <1>3

LEMMA RequestsStep ==
    ASSUME IInv, [Next]_vars
    PROVE  req' \in [Slots -> Requests \cup {Idle}] /\ AddWritten' /\ ModifyLoaded' /\ DeleteLoaded'
<1>1. \/ UNCHANGED req
      \/ \E s \in Slots : \E request : Sound(request) /\ req' = [req EXCEPT ![s] = request]
  <2>1. CASE UNCHANGED vars
    BY <2>1 DEF vars
  <2>2. ASSUME NEW s \in Slots,
               CommitAdd(s) \/ CommitModify(s) \/ CommitDelete(s) \/ MorayFails(s)
        PROVE  \E request : Sound(request) /\ req' = [req EXCEPT ![s] = request]
    BY <2>2, FinishSound DEF CommitAdd, CommitModify, CommitDelete, MorayFails
  <2> QED
    BY <2>1, <2>2, BeginSound, AddSound, ModifySound, DeleteSound
    DEF Next, AddStep, ModifyStep, DeleteStep
<1>2. \A s \in Slots : Sound(req'[s])
  BY <1>1, SoundRequests DEF IInv, TypeOK
<1>3. req' \in [Slots -> Requests \cup {Idle}]
  BY <1>1, <1>2 DEF IInv, TypeOK, Sound
<1>4. AddWritten' /\ DeleteLoaded'
  BY <1>2 DEF Sound, AddWritten, DeleteLoaded
<1>5. ModifyLoaded'
  <2> SUFFICES ASSUME NEW s \in Slots, NEW dn \in DNs, req'[s].dn = dn,
                      req'[s] # Idle, req'[s].type = "modify", req'[s].step # "load"
               PROVE  /\ req'[s].entry \in Entries
                      /\ OnlyPlain(dn)' => Proper(dn, req'[s].entry, NoScope)
    <3>1. \A s \in Slots : req'[s] # Idle => req'[s].dn \in DNs
      BY <1>3 DEF Requests
    <3> QED
      BY <3>1 DEF ModifyLoaded, Proper, AliasFits
  <2>1. Sound(req'[s])
    BY <1>2
  <2>2. OnlyPlain(dn)' => OnlyPlain(dn)
    BY PlainBefore
  <2> QED
    BY <2>1, <2>2 DEF Sound
<1> QED
  BY <1>3, <1>4, <1>5

LEMMA TypeStep ==
    ASSUME IInv, [Next]_vars
    PROVE  TypeOK'
<1>1. overlapped' \in BOOLEAN
  BY DEF IInv, TypeOK, Next, AddStep, ModifyStep, DeleteStep, vars, Begin, BeginAdd, BeginModify,
         BeginDelete, Check, AddEntryExists, AddParentExists, AddPreloadAccount, ValidateLogin,
         ModifyLoad, ModifyPreloadAccount, DeleteEntryExists, ChildExists, DeleteLoad, MorayFails,
         CommitAdd, CommitModify, CommitDelete
<1> QED
  BY <1>1, StoredTypeStep, RequestsStep DEF TypeOK

-----------------------------------------------------------------------------
(* The entries and their records *)

LEMMA EntriesProperStep ==
    ASSUME IInv, [Next]_vars
    PROVE  EntriesProper'
<1> SUFFICES ASSUME NEW dn \in DNs, dir'[dn] # None, OnlyPlain(dn)'
             PROVE  Proper(dn, dir'[dn], Scope(dn))
  BY DEF EntriesProper, Present, Proper, AliasFits, Scope
<1>1. OnlyPlain(dn)
  BY PlainBefore
<1>2. CASE UNCHANGED Stored
  BY <1>1, <1>2 DEF IInv, EntriesProper, Present, Stored
<1>3. ASSUME NEW record \in Records, Commits(record) PROVE Proper(dn, dir'[dn], Scope(dn))
  <2>1. /\ dir' = [dir EXCEPT ![record.dn] = Result(record)]
        /\ clog' = Append(clog, record) /\ clog \in Seq(Records)
        /\ dir \in [DNs -> Entries \cup {None}]
    BY <1>3 DEF Commits, Log, IInv, TypeOK
  <2>2. CASE dn = record.dn
    <3>1. Plain(record)
      <4>1. clog'[Len(clog) + 1] = record /\ Len(clog) + 1 \in 1 .. Len(clog')
        BY <2>1
      <4> QED
        BY <2>2, <4>1 DEF OnlyPlain, Plain
    <3>2. dir'[dn] = Result(record)
      BY <2>1, <2>2
    <3> QED
      BY <1>1, <1>3, <2>2, <3>1, <3>2 DEF Commits, Result
  <2>3. CASE dn # record.dn
    BY <1>1, <2>1, <2>3 DEF IInv, EntriesProper, Present
  <2> QED
    BY <2>2, <2>3
<1> QED
  BY <1>2, <1>3, KindsOfSteps

LEMMA LastRecordStep ==
    ASSUME IInv, [Next]_vars
    PROVE  LastRecordInstalled'
<1>1. CASE UNCHANGED Stored
  BY <1>1 DEF IInv, LastRecordInstalled, Newest, Stored
<1>2. ASSUME NEW record \in Records, Commits(record) PROVE LastRecordInstalled'
  <2>1. /\ dir' = [dir EXCEPT ![record.dn] = Result(record)]
        /\ clog' = Append(clog, record)
        /\ clog \in Seq(Records)
        /\ record.dn \in DNs /\ dir \in [DNs -> Entries \cup {None}]
    BY <1>2 DEF Commits, Log, IInv, TypeOK, Records
  <2>2. /\ Len(clog') = Len(clog) + 1
        /\ clog'[Len(clog) + 1] = record
        /\ \A n \in 1 .. Len(clog) : clog'[n] = clog[n] /\ clog[n] \in Records
    BY <2>1
  <2> SUFFICES ASSUME NEW n \in 1 .. Len(clog'), Newest(n)'
               PROVE  dir'[clog'[n].dn] = Result(clog'[n])
    BY DEF LastRecordInstalled
  <2>3. CASE n = Len(clog) + 1
    BY <2>1, <2>2, <2>3
  <2>4. CASE n \in 1 .. Len(clog)
    <3>1. \A m \in (n + 1) .. Len(clog) : clog[m].dn # clog[n].dn
      BY <2>1, <2>2, <2>4 DEF Newest
    <3>2. record.dn # clog[n].dn
      BY <2>1, <2>2, <2>4 DEF Newest
    <3>3. dir[clog[n].dn] = Result(clog[n])
      BY <2>4, <3>1 DEF IInv, LastRecordInstalled, Newest
    <3>4. clog[n].dn \in DNs
      BY <2>2, <2>4 DEF Records
    <3> QED
      BY <2>1, <2>2, <2>4, <3>2, <3>3, <3>4
  <2> QED
    BY <2>1, <2>2, <2>3, <2>4
<1> QED
  BY <1>1, <1>2, KindsOfSteps

-----------------------------------------------------------------------------
(* Theorems *)

LEMMA Invariance == Spec => []IInv
<1>1. ASSUME IInv, [Next]_vars PROVE IInv'
  BY <1>1, TypeStep, RequestsStep, EntriesProperStep, LastRecordStep DEF IInv
<1> QED
  BY <1>1, InitIInv, PTL DEF Spec

\* The directory, the changelog and the requests keep their types.
THEOREM TypesHold == Spec => []TypeOK
<1>1. IInv => TypeOK
  BY DEF IInv
<1> QED
  BY <1>1, Invariance, PTL

\* However the requests interleave, the login of an entry that was neither
\* imported nor written otherwise than plainly names its account, and the
\* alias of a sub-user is its login's name (scopeSubAccount, _subUser, change).
THEOREM LoginsScopedHolds == Spec => []LoginsScoped
<1>1. IInv => LoginsScoped
  BY DEF IInv, EntriesProper, Proper, AliasFits, LoginsScoped
<1> QED
  BY <1>1, Invariance, PTL

\* However the requests interleave, the newest record of a DN in the
\* changelog is what the directory holds (save, changelog, commit).
THEOREM LastRecordHolds == Spec => []LastRecordInstalled
<1>1. IInv => LastRecordInstalled
  BY DEF IInv
<1> QED
  BY <1>1, Invariance, PTL

\* Every record of an add or a delete is of a change that took place (the
\* null etag of save, the delete of the batch).
THEOREM RecordsTruthfulHolds == Spec => RecordsTruthful
<1> DEFINE Truthful ==
        LET record == clog'[Len(clog')]
        IN  /\ record.type = "add" => dir[record.dn] = None
            /\ record.type = "delete" => dir[record.dn] # None
<1>1. ASSUME IInv, [Next]_vars PROVE [clog' # clog => Truthful]_vars
  <2>1. CASE UNCHANGED Stored
    BY <2>1 DEF Stored
  <2>2. ASSUME NEW record \in Records, Commits(record) PROVE Truthful
    <3>1. clog' = Append(clog, record) /\ clog \in Seq(Records)
      BY <1>1, <2>2 DEF Commits, Log, IInv, TypeOK
    <3>2. clog'[Len(clog')] = record
      BY <3>1
    <3> QED
      BY <2>2, <3>2 DEF Commits
  <2> QED
    BY <1>1, <2>1, <2>2, KindsOfSteps
<1> QED
  BY <1>1, Invariance, PTL DEF Spec, RecordsTruthful

-----------------------------------------------------------------------------
(***************************************************************************)
(* Requests that do not overlap: what a handler has checked is still true  *)
(* when its successors and the batch rely on it.                           *)
(***************************************************************************)
Childless(dn) == \A sub \in SubUsers : Owner[sub] = dn => ~Present(sub)

Checked(r) ==
    /\ r.type = "add" =>
        /\ r.step # "entryExists" => ~Present(r.dn)
        /\ r.step \in {"preloadAccount", "validateLogin", "commit"} => ParentPresent(r.dn)
        /\ r.step = "commit" => r.entry.imported \/ ~LoginTaken(r.dn, r.entry.login.name)
    /\ r.type = "modify" /\ r.step # "load" => Present(r.dn) /\ r.entry = Unscoped(r.dn, dir[r.dn])
    /\ r.type = "delete" /\ r.step \in {"load", "commit"} => Childless(r.dn)

NoRename == \A n \in 1 .. Len(clog) : Plain(clog[n]) /\ clog[n].change.attr # "login"

\* A replica has an entry exactly where the directory has one.
SamePresence == \A dn \in DNs : dir[dn] = None <=> image[dn] = None

\* What is true of the entries stored.
Held ==
    /\ NoOrphans
    /\ NoRename => DistinctIgnoringCase
    /\ SamePresence
    /\ ReplicaFollows

SerialInv ==
    ~overlapped =>
        /\ \A s, t \in Slots : req[s] # Idle /\ req[t] # Idle => s = t
        /\ \A s \in Slots : req[s] # Idle => Checked(req[s])
        /\ Held

\* A request that begins has checked nothing yet.
LEMMA BeginChecked ==
    ASSUME IInv, NEW s \in Slots, BeginAdd(s) \/ BeginModify(s) \/ BeginDelete(s)
    PROVE  \E request : Begin(s, request) /\ Checked(request)
<1>1. CASE BeginAdd(s)
  BY <1>1 DEF BeginAdd, Checked
<1>2. CASE BeginModify(s)
  BY <1>2 DEF BeginModify, Checked
<1>3. CASE BeginDelete(s)
  BY <1>3 DEF BeginDelete, Checked
<1> QED
  BY <1>1, <1>2, <1>3

\* A handler before the batch ends the request, or passes it on with what it
\* has checked.
Passes(s) ==
    /\ req[s] # Idle
    /\ UNCHANGED <<dir, clog, image, overlapped>>
    /\ \/ Finish(s)
       \/ \E r : req' = [req EXCEPT ![s] = r] /\ (Checked(req[s]) => Checked(r))

LEMMA CheckPasses ==
    ASSUME IInv, NEW s \in Slots, req[s] # Idle, NEW condition \in BOOLEAN, NEW step,
           Check(s, condition, step),
           Checked(req[s]) /\ condition => Checked([req[s] EXCEPT !.step = step])
    PROVE  Passes(s)
<1>1. CASE Finish(s)
  BY <1>1 DEF Passes, Check
<1>2. CASE condition /\ Continue(s, step)
  <2>1. req' = [req EXCEPT ![s] = [req[s] EXCEPT !.step = step]]
    BY <1>2 DEF Continue, IInv, TypeOK
  <2> QED
    BY <1>2, <2>1 DEF Passes, Check
<1> QED
  BY <1>1, <1>2 DEF Check

LEMMA StepsPass ==
    ASSUME IInv, NEW s \in Slots,
           \/ AddEntryExists(s) \/ AddParentExists(s) \/ AddPreloadAccount(s) \/ ValidateLogin(s)
           \/ ModifyLoad(s) \/ ModifyPreloadAccount(s)
           \/ DeleteEntryExists(s) \/ ChildExists(s) \/ DeleteLoad(s)
    PROVE  Passes(s)
<1> DEFINE r == req[s]
           After(step) == [r EXCEPT !.step = step]
<1>1. req[s] # Idle /\ r \in Requests
  BY DEF AddEntryExists, AddParentExists, AddPreloadAccount, ValidateLogin, ModifyLoad,
         ModifyPreloadAccount, DeleteEntryExists, ChildExists, DeleteLoad, At, IInv, TypeOK
<1>2. ASSUME NEW step
      PROVE  /\ After(step).step = step /\ After(step).type = r.type /\ After(step).dn = r.dn
             /\ After(step).entry = r.entry
  BY <1>1 DEF Requests
<1>3. CASE AddEntryExists(s)
  <2>1. Check(s, ~Present(r.dn), "parentExists") /\ r.type = "add"
    BY <1>3 DEF AddEntryExists, At
  <2>2. Checked(r) /\ ~Present(r.dn) => Checked(After("parentExists"))
    BY <1>2, <2>1 DEF Checked
  <2> QED
    BY <1>1, <2>1, <2>2, CheckPasses DEF Present
<1>4. CASE AddParentExists(s)
  <2>1. Check(s, ParentPresent(r.dn), "preloadAccount") /\ r.type = "add" /\ r.step = "parentExists"
    BY <1>4 DEF AddParentExists, At
  <2>2. Checked(r) /\ ParentPresent(r.dn) => Checked(After("preloadAccount"))
    BY <1>2, <2>1 DEF Checked
  <2> QED
    BY <1>1, <2>1, <2>2, CheckPasses DEF ParentPresent
<1>5. CASE AddPreloadAccount(s)
  <2>1. /\ Check(s, r.entry.imported \/ ParentPresent(r.dn), "validateLogin")
        /\ r.type = "add" /\ r.step = "preloadAccount" /\ r.entry.imported \in BOOLEAN
    BY <1>1, <1>5 DEF AddPreloadAccount, At, Requests, Entries
  <2>2. Checked(r) => Checked(After("validateLogin"))
    BY <1>2, <2>1 DEF Checked
  <2> QED
    BY <1>1, <2>1, <2>2, CheckPasses DEF ParentPresent
<1>6. CASE ValidateLogin(s)
  <2>1. /\ Check(s, r.entry.imported \/ ~LoginTaken(r.dn, r.entry.login.name), "commit")
        /\ r.type = "add" /\ r.step = "validateLogin" /\ r.entry.imported \in BOOLEAN
    BY <1>1, <1>6 DEF ValidateLogin, At, Requests, Entries
  <2>2. Checked(r) /\ (r.entry.imported \/ ~LoginTaken(r.dn, r.entry.login.name)) =>
            Checked(After("commit"))
    BY <1>2, <2>1 DEF Checked
  <2> QED
    BY <1>1, <2>1, <2>2, CheckPasses DEF LoginTaken
<1>7. CASE ModifyLoad(s)
  <2> DEFINE n == [r EXCEPT !.step = "preloadAccount", !.entry = Unscoped(r.dn, dir[r.dn])]
  <2>1. /\ r.type = "modify" /\ UNCHANGED <<dir, clog, image, overlapped>>
        /\ Finish(s) \/ (Present(r.dn) /\ req' = [req EXCEPT ![s] = n])
    BY <1>7 DEF ModifyLoad, At, IInv, TypeOK
  <2>2. n.type = r.type /\ n.dn = r.dn /\ n.entry = Unscoped(r.dn, dir[r.dn])
    BY <1>1 DEF Requests
  <2> HIDE DEF n
  <2>3. Present(r.dn) => Checked(n)
    BY <2>1, <2>2 DEF Checked
  <2> QED
    BY <1>1, <2>1, <2>3 DEF Passes
<1>8. CASE ModifyPreloadAccount(s)
  <2>1. /\ Check(s, r.entry.imported \/ ParentPresent(r.dn), "commit")
        /\ r.type = "modify" /\ r.step = "preloadAccount"
        /\ (r.entry.imported \/ ParentPresent(r.dn)) \in BOOLEAN
    BY <1>1, <1>8 DEF ModifyPreloadAccount, At, ParentPresent, IInv, ModifyLoaded, Entries
  <2>2. Checked(r) => Checked(After("commit"))
    BY <1>2, <2>1 DEF Checked
  <2> QED
    BY <1>1, <2>1, <2>2, CheckPasses
<1>9. CASE DeleteEntryExists(s)
  <2>1. Check(s, Present(r.dn), "childExists") /\ r.type = "delete"
    BY <1>9 DEF DeleteEntryExists, At
  <2>2. Checked(After("childExists"))
    BY <1>2, <2>1 DEF Checked
  <2> QED
    BY <1>1, <2>1, <2>2, CheckPasses DEF Present
<1>10. CASE ChildExists(s)
  <2>1. Check(s, Childless(r.dn), "load") /\ r.type = "delete"
    BY <1>10 DEF ChildExists, At, Childless
  <2>2. Childless(r.dn) => Checked(After("load"))
    BY <1>2, <2>1 DEF Checked
  <2> QED
    BY <1>1, <2>1, <2>2, CheckPasses DEF Childless
<1>11. CASE DeleteLoad(s)
  <2> DEFINE n == [r EXCEPT !.step = "commit", !.entry = dir[r.dn]]
  <2>1. /\ r.type = "delete" /\ r.step = "load" /\ UNCHANGED <<dir, clog, image, overlapped>>
        /\ Finish(s) \/ (Present(r.dn) /\ req' = [req EXCEPT ![s] = n])
    BY <1>11 DEF DeleteLoad, At, IInv, TypeOK
  <2>2. n.type = r.type /\ n.dn = r.dn
    BY <1>1 DEF Requests
  <2> HIDE DEF n
  <2>3. Checked(r) => Checked(n)
    BY <2>1, <2>2 DEF Checked
  <2> QED
    BY <1>1, <2>1, <2>3 DEF Passes
<1> QED
  BY <1>3, <1>4, <1>5, <1>6, <1>7, <1>8, <1>9, <1>10, <1>11

-----------------------------------------------------------------------------
\* A modify of a plain entry that is as it was loaded: a change of data keeps
\* the stored login, a replaced login is stored as it is logged.
LEMMA ChangedKeeps ==
    ASSUME IInv, NEW dn \in DNs, Present(dn), OnlyPlain(dn), NEW change \in Changes,
           NEW entry, entry = Changed(dn, Unscoped(dn, dir[dn]), change)
    PROVE  /\ change.attr = "login" /\ change.op = "replace" =>
                entry.data = dir[dn].data /\ entry.login = Logged(dn, change).val
           /\ change.attr = "data" => entry.login = dir[dn].login /\ entry.data = change.val
<1> DEFINE old    == dir[dn]
           loaded == Unscoped(dn, old)
<1>1. old \in Entries /\ old.login \in ScopedLogins /\ old.login.scope = Scope(dn) /\ ~old.imported
  BY DEF IInv, TypeOK, Present, EntriesProper, Proper, Entries
<1>2. /\ loaded \in Entries /\ loaded.data = old.data /\ loaded.imported = old.imported
      /\ loaded.login.name = old.login.name
      /\ loaded.login.scope = IF dn \in SubUsers THEN NoScope ELSE old.login.scope
  BY <1>1, UnscopedIs
<1>3. entry \in Entries /\ entry.login \in ScopedLogins
  BY <1>2, ChangedIs DEF Entries
<1> HIDE DEF loaded
<1>4. ASSUME change.attr = "login", change.op = "replace"
      PROVE  entry.data = old.data /\ entry.login = Logged(dn, change).val
  <2>1. change.val \in ScopedLogins /\ Logged(dn, change).val = Prefixed(dn, change.val)
    BY <1>4, LoggedIs DEF Changes
  <2>2. dn \notin SubUsers => Prefixed(dn, change.val) = change.val
    BY <2>1, PrefixedIs DEF Scope
  <2>3. Preloaded(dn, loaded) <=> dn \in SubUsers
    BY <1>1, <1>2 DEF Preloaded
  <2> QED
    BY <1>2, <1>4, <2>1, <2>2, <2>3, ChangedIs DEF loaded
<1>5. ASSUME change.attr = "data" PROVE entry.login = old.login /\ entry.data = change.val
  <2>1. /\ entry.data = change.val /\ entry.login.name = loaded.login.name
        /\ entry.login.scope = IF dn \in SubUsers THEN Scope(dn) ELSE loaded.login.scope
    BY <1>2, <1>5, ChangedIs DEF loaded
  <2>2. entry.login.scope = old.login.scope /\ entry.login.name = old.login.name
    BY <1>1, <1>2, <2>1
  <2> HIDE DEF old
  <2> QED
    BY <1>1, <1>3, <2>1, <2>2 DEF ScopedLogins
<1> QED
  BY <1>4, <1>5

\* What the batch of a request that is alone commits: a record that says
\* what became of the entry, and what the handlers have checked.
Alone(record) ==
    /\ Commits(record)
    /\ record.type = "add" =>
        /\ ParentPresent(record.dn)
        /\ record.entry.imported \/ ~LoginTaken(record.dn, record.entry.login.name)
    /\ record.type = "modify" =>
        /\ Present(record.dn)
        /\ OnlyPlain(record.dn) /\ Plain(record) =>
            /\ record.change.attr = "login" =>
                record.entry.data = dir[record.dn].data /\ record.entry.login = record.change.val
            /\ record.change.attr = "data" =>
                record.entry.login = dir[record.dn].login /\ record.entry.data = record.change.val
    /\ record.type = "delete" => Childless(record.dn)

LEMMA CommitAlone ==
    ASSUME IInv, NEW s \in Slots, CommitAdd(s) \/ CommitModify(s) \/ CommitDelete(s),
           Checked(req[s])
    PROVE  UNCHANGED Stored \/ \E record \in Records : Alone(record)
<1> DEFINE r == req[s]
<1>0. r.dn \in DNs /\ r \in Requests
  BY DEF CommitAdd, CommitModify, CommitDelete, At, IInv, TypeOK, Requests
<1>1. CASE CommitAdd(s)
  <2> DEFINE entry == Scoped(r.dn, r.entry)
             record == [type |-> "add", dn |-> r.dn, change |-> NoChange, entry |-> entry]
  <2>1. /\ r.type = "add" /\ r.step = "commit" /\ r.entry \in Entries /\ r.entry.alias = NoAlias
        /\ r.entry.imported \/ r.entry.login.scope = NoScope
    BY <1>0, <1>1 DEF CommitAdd, At, Requests, IInv, AddWritten
  <2>2. CASE ~(~Present(r.dn) /\ LoginFree(r.dn, entry.login))
    BY <1>1, <2>2 DEF CommitAdd, Stored
  <2>3. CASE ~Present(r.dn) /\ LoginFree(r.dn, entry.login)
    <3>1. dir' = [dir EXCEPT ![r.dn] = entry] /\ Log(record)
      BY <1>1, <2>3 DEF CommitAdd
    <3>2. /\ entry \in Entries /\ (entry.imported \/ Proper(r.dn, entry, Scope(r.dn)))
          /\ entry.login.name = r.entry.login.name /\ entry.imported = r.entry.imported
      BY <1>0, <2>1, AddProper
    <3>3. ParentPresent(r.dn) /\ (r.entry.imported \/ ~LoginTaken(r.dn, r.entry.login.name))
      BY <2>1 DEF Checked
    <3>4. /\ record.type = "add" /\ record.dn = r.dn /\ record.entry = entry
          /\ record \in Records
      BY <1>0, <3>2 DEF Records
    <3> HIDE DEF record, entry, r
    <3>5. Alone(record)
      BY <2>3, <3>1, <3>2, <3>3, <3>4 DEF Alone, Commits, Result, Present, Plain
    <3> QED
      BY <3>4, <3>5
  <2> QED
    BY <2>2, <2>3
<1>2. CASE CommitModify(s)
  <2> DEFINE entry == Changed(r.dn, r.entry, r.change)
             logged == Logged(r.dn, r.change)
             accepted == SchemaAccepts(r.entry, r.change) /\ LoginFree(r.dn, entry.login)
             record == [type |-> "modify", dn |-> r.dn, change |-> logged, entry |-> entry]
  <2>1. r.type = "modify" /\ r.step = "commit" /\ r.change \in Changes
    BY <1>0, <1>2 DEF CommitModify, At, Requests
  <2>2. /\ r.entry \in Entries
        /\ OnlyPlain(r.dn) => Proper(r.dn, r.entry, NoScope)
    BY <1>2 DEF IInv, ModifyLoaded, CommitModify, At
  <2>3. CASE ~accepted
    BY <1>2, <2>3 DEF CommitModify, Stored
  <2>4. CASE accepted
    <3>1. dir' = [dir EXCEPT ![r.dn] = entry] /\ Log(record)
      BY <1>2, <2>4 DEF CommitModify
    <3>2. entry \in Entries /\ logged \in Changes /\ logged.attr = r.change.attr
          /\ logged.op = r.change.op /\ (logged.attr # "login" => logged.val = r.change.val)
      BY <1>0, <2>1, <2>2, ChangedIs, LoggedIs
    <3>3. Present(r.dn) /\ r.entry = Unscoped(r.dn, dir[r.dn])
      BY <2>1 DEF Checked
    <3>4. OnlyPlain(r.dn) =>
            /\ r.change.attr = "login" /\ r.change.op = "replace" =>
                  entry.data = dir[r.dn].data /\ entry.login = logged.val
            /\ r.change.attr = "data" =>
                  entry.login = dir[r.dn].login /\ entry.data = r.change.val
      BY <1>0, <2>1, <3>3, ChangedKeeps
    <3>5. /\ record.type = "modify" /\ record.dn = r.dn /\ record.entry = entry
          /\ record.change = logged /\ record \in Records
      BY <1>0, <2>1, <3>2 DEF Records
    <3>6. Plain(record) => (r.change.attr = "login" =>
                r.change.op = "replace" /\ logged.val.scope \in {NoScope, Scope(r.dn)})
      BY <3>2 DEF Plain
    <3>7. OnlyPlain(r.dn) /\ Plain(record) => Proper(r.dn, entry, Scope(r.dn))
      <4> HIDE DEF record, r
      <4> QED
        BY <1>0, <2>1, <2>2, <3>6, ChangedProper
    <3> HIDE DEF record, entry, r, logged
    <3>8. Alone(record)
      BY <3>1, <3>2, <3>3, <3>4, <3>5, <3>6, <3>7 DEF Alone, Commits, Result
    <3> QED
      BY <3>5, <3>8
  <2> QED
    BY <2>3, <2>4
<1>3. CASE CommitDelete(s)
  <2> DEFINE record == [type |-> "delete", dn |-> r.dn, change |-> NoChange, entry |-> r.entry]
  <2>1. r.type = "delete" /\ r.step = "commit" /\ r.entry \in Entries /\ Childless(r.dn)
    BY <1>0, <1>3 DEF CommitDelete, At, IInv, DeleteLoaded, Checked
  <2>2. CASE ~Present(r.dn)
    BY <1>3, <2>2 DEF CommitDelete, Stored
  <2>3. CASE Present(r.dn)
    <3>1. dir' = [dir EXCEPT ![r.dn] = None] /\ Log(record)
      BY <1>3, <2>3 DEF CommitDelete
    <3>2. record.type = "delete" /\ record.dn = r.dn /\ record \in Records
      BY <1>0, <2>1 DEF Records
    <3> HIDE DEF record, r
    <3>3. Alone(record)
      BY <2>1, <2>3, <3>1, <3>2 DEF Alone, Commits, Result, Present
    <3> QED
      BY <3>2, <3>3
  <2> QED
    BY <2>2, <2>3
<1> QED
  BY <1>1, <1>2, <1>3

\* What a replica makes of a login that is replaced, or of other data.
LEMMA ReplayedKeeps ==
    ASSUME NEW dn \in DNs, NEW held \in Entries, NEW change \in Changes, change.op = "replace",
           held.login.scope = Scope(dn)
    PROVE  /\ change.attr = "login" =>
                /\ ReplayedChange(dn, held, change).login = change.val
                /\ ReplayedChange(dn, held, change).data = held.data
           /\ change.attr = "data" =>
                /\ ReplayedChange(dn, held, change).login = held.login
                /\ ReplayedChange(dn, held, change).data = change.val
<1> DEFINE loaded  == Unscoped(dn, held)
           changed == Changed(dn, loaded, change)
<1>1. /\ loaded \in Entries /\ loaded.data = held.data /\ loaded.login.name = held.login.name
      /\ loaded.login.scope = IF dn \in SubUsers THEN NoScope ELSE held.login.scope
  BY UnscopedIs
<1>2. SchemaAccepts(loaded, change)
  BY DEF SchemaAccepts
<1>3. CASE change.attr = "login"
  <2>1. ReplayedChange(dn, held, change) = [loaded EXCEPT !.login = change.val]
    BY <1>2, <1>3 DEF ReplayedChange
  <2> HIDE DEF loaded
  <2> QED
    BY <1>1, <1>3, <2>1 DEF Entries
<1>4. CASE change.attr = "data"
  <2>1. ReplayedChange(dn, held, change) = changed
    BY <1>2, <1>4 DEF ReplayedChange
  <2>2. /\ changed \in Entries /\ changed.data = change.val
        /\ changed.login.name = loaded.login.name
        /\ changed.login.scope = IF dn \in SubUsers THEN Scope(dn) ELSE loaded.login.scope
    BY <1>1, <1>4, ChangedIs
  <2> HIDE DEF loaded, changed
  <2>3. changed.login \in ScopedLogins /\ held.login \in ScopedLogins
    BY <2>2 DEF Entries
  <2>4. changed.login = held.login
    BY <1>1, <2>2, <2>3 DEF ScopedLogins
  <2> QED
    BY <1>4, <2>1, <2>2, <2>4
<1> QED
  BY <1>3, <1>4 DEF Changes

\* After the batch no sub-user is without its account, no two logins differ
\* in case only and a replica has the same entries.
LEMMA AloneKeeps ==
    ASSUME IInv, Held, [Next]_vars, NEW record \in Records, Alone(record)
    PROVE  Held'
<1> USE DEF Held
<1> DEFINE d == record.dn
<1>1. /\ d \in DNs /\ record.entry \in Entries /\ record.type \in {"add", "modify", "delete"}
      /\ dir \in [DNs -> Entries \cup {None}] /\ image \in [DNs -> Entries \cup {None}]
      /\ clog \in Seq(Records)
  BY DEF Records, IInv, TypeOK
<1>2. /\ \A dn \in DNs : dir'[dn] = IF dn = d THEN Result(record) ELSE dir[dn]
      /\ \A dn \in DNs : image'[dn] = IF dn = d THEN Replayed(record) ELSE image[dn]
      /\ clog' = Append(clog, record)
  BY <1>1 DEF Alone, Commits, Log
<1>3. record.type # "delete" => Result(record) = record.entry /\ Result(record) # None
  BY <1>1, NoneIsNoEntry DEF Result
<1>4. NoOrphans'
  <2> SUFFICES ASSUME NEW sub \in SubUsers, dir'[sub] # None PROVE dir'[Owner[sub]] # None
    BY DEF NoOrphans, Present
  <2>1. sub \in DNs /\ Owner[sub] \in DNs /\ sub # Owner[sub]
    BY OwnerAssumption, DisjointAssumption DEF DNs
  <2>2. CASE sub = d
    <3>1. record.type # "delete"
      BY <1>1, <1>2, <2>1, <2>2 DEF Result
    <3>2. Present(Owner[sub])
      BY <1>1, <2>2, <3>1 DEF Alone, ParentPresent, NoOrphans
    <3> QED
      BY <1>2, <2>1, <2>2, <3>2 DEF Present
  <2>3. CASE sub # d /\ Owner[sub] = d
    <3>1. Present(sub)
      BY <1>2, <2>1, <2>3 DEF Present
    <3>2. record.type # "delete"
      BY <2>3, <3>1 DEF Alone, Childless
    <3> QED
      BY <1>2, <1>3, <2>1, <2>3, <3>2
  <2>4. CASE sub # d /\ Owner[sub] # d
    BY <1>2, <2>1, <2>4 DEF NoOrphans, Present
  <2> QED
    BY <2>2, <2>3, <2>4
<1>5. (NoRename => DistinctIgnoringCase)'
  <2> SUFFICES ASSUME NoRename' PROVE DistinctIgnoringCase'
    OBVIOUS
  <2>1. NoRename /\ Plain(record) /\ record.change.attr # "login" /\ OnlyPlain(d)
    <3>1. /\ Len(clog') = Len(clog) + 1 /\ clog'[Len(clog) + 1] = record
          /\ \A n \in 1 .. Len(clog) : clog'[n] = clog[n]
      BY <1>1, <1>2
    <3>2. Len(clog) \in Nat
      BY <1>1
    <3> QED
      BY <3>1, <3>2 DEF NoRename, Plain, OnlyPlain
  <2>2. DistinctIgnoringCase
    BY <2>1
  <2> SUFFICES ASSUME NEW dn \in DNs, NEW other \in DNs, dn # other,
                      dir'[dn] # None, dir'[other] # None
               PROVE  \/ dir'[dn].login.scope # dir'[other].login.scope
                      \/ Canonical[dir'[dn].login.name] # Canonical[dir'[other].login.name]
    BY DEF DistinctIgnoringCase, Present
  <2>3. ASSUME NEW x \in DNs, x # d, Present(x), record.type # "delete"
        PROVE  \/ record.entry.login.scope # dir[x].login.scope
               \/ Canonical[record.entry.login.name] # Canonical[dir[x].login.name]
    <3>1. CASE record.type = "add"
      <4>1. record.entry.login.scope = Scope(d) /\ ~LoginTaken(d, record.entry.login.name)
        BY <2>1, <3>1 DEF Alone, Commits, Proper, Plain
      <4> QED
        BY <2>3, <4>1 DEF LoginTaken
    <3>2. CASE record.type = "modify"
      <4>1. record.entry.login = dir[d].login /\ Present(d)
        BY <2>1, <3>2 DEF Alone, Records, Changes
      <4> QED
        BY <1>1, <2>2, <2>3, <4>1 DEF DistinctIgnoringCase
    <3> QED
      BY <1>1, <2>3, <3>1, <3>2
  <2>4. d \in {dn, other} => record.type # "delete"
    BY <1>2 DEF Result
  <2>5. CASE dn = d
    BY <1>2, <1>3, <2>3, <2>4, <2>5 DEF Present
  <2>6. CASE other = d
    BY <1>2, <1>3, <2>3, <2>4, <2>6 DEF Present
  <2>7. CASE dn # d /\ other # d
    BY <1>2, <2>2, <2>7 DEF DistinctIgnoringCase, Present
  <2> QED
    BY <2>5, <2>6, <2>7
<1>6. record.type = "modify" => /\ dir[d] # None /\ image[d] \in Entries /\ record.change \in Changes
                               /\ Replayed(record) = ReplayedChange(d, image[d], record.change)
  BY <1>1 DEF Alone, Present, SamePresence, Replayed, Records
<1>7. record.type = "delete" => Replayed(record) = None
  <2>1. ASSUME record.type = "delete", NEW sub \in SubUsers, Owner[sub] = d PROVE image[sub] = None
    BY <2>1 DEF Alone, Childless, Present, SamePresence, DNs
  <2> QED
    BY <2>1 DEF Replayed
<1>8. record.type = "add" => Replayed(record) = record.entry /\ dir[d] = None
  BY <1>1 DEF Alone, Commits, SamePresence, Replayed
<1>9. SamePresence'
  <2>1. Result(record) = None <=> Replayed(record) = None
    BY <1>1, <1>3, <1>6, <1>7, <1>8, ReplayedChangeType, NoneIsNoEntry DEF Result
  <2> QED
    BY <1>2, <2>1 DEF SamePresence
<1>10. ReplicaFollows'
  <2> SUFFICES ASSUME NEW dn \in DNs, OnlyPlain(dn)' PROVE SameButAlias(dir'[dn], image'[dn])
    BY DEF ReplicaFollows, SameButAlias
  <2>1. OnlyPlain(dn)
    BY PlainBefore
  <2>2. CASE dn # d
    BY <1>2, <2>1, <2>2 DEF ReplicaFollows
  <2>3. CASE dn = d
    <3>1. Plain(record)
      <4>1. clog'[Len(clog) + 1] = record /\ Len(clog) + 1 \in 1 .. Len(clog')
        BY <1>1, <1>2
      <4> QED
        BY <2>3, <4>1 DEF OnlyPlain, Plain
    <3>2. SameButAlias(Result(record), Replayed(record))
      <4>1. CASE record.type = "modify"
        <5>1. PICK held, change : held = image[d] /\ change = record.change
          OBVIOUS
        <5>2. /\ dir[d] \in Entries /\ held \in Entries /\ change \in Changes
              /\ dir[d].login = held.login /\ dir[d].data = held.data
          BY <1>1, <1>6, <2>1, <2>3, <4>1, <5>1 DEF ReplicaFollows, SameButAlias
        <5>3. /\ change.attr = "login" =>
                    record.entry.data = dir[d].data /\ record.entry.login = change.val
              /\ change.attr = "data" =>
                    record.entry.login = dir[d].login /\ record.entry.data = change.val
          BY <2>1, <2>3, <3>1, <4>1, <5>1 DEF Alone
        <5>4. change.op = "replace"
          BY <3>1, <5>1, <5>2 DEF Plain, Changes
        <5>5. dir[d].login.scope = Scope(d)
          BY <1>6, <2>1, <2>3, <4>1 DEF IInv, EntriesProper, Proper, Present
        <5>6. /\ ReplayedChange(d, held, change).login = record.entry.login
              /\ ReplayedChange(d, held, change).data = record.entry.data
          <6>1. held.login.scope = Scope(d) /\ change.attr \in {"login", "data"}
            BY <5>2, <5>5 DEF Changes
          <6> HIDE DEF d
          <6> QED
            BY <1>1, <5>2, <5>3, <5>4, <6>1, ReplayedKeeps
        <5> QED
          BY <1>3, <1>6, <4>1, <5>1, <5>6 DEF SameButAlias
      <4>2. CASE record.type # "modify"
        BY <1>1, <1>3, <1>7, <1>8, <4>2 DEF Result, SameButAlias
      <4> QED
        BY <4>1, <4>2
    <3> QED
      BY <1>2, <2>3, <3>2
  <2> QED
    BY <2>2, <2>3
<1> QED
  BY <1>4, <1>5, <1>9, <1>10

-----------------------------------------------------------------------------
LEMMA SerialInit == Init => SerialInv
<1> SUFFICES ASSUME Init PROVE SerialInv
  OBVIOUS
<1>1. \A dn \in DNs : dir[dn] = None /\ image[dn] = None
  BY DEF Init
<1>2. SubUsers \subseteq DNs
  BY DEF DNs
<1> QED
  BY <1>1, <1>2 DEF Init, SerialInv, Held, NoOrphans, DistinctIgnoringCase, SamePresence,
                    ReplicaFollows, SameButAlias, Present

\* What is said of the directory stays true while it is left alone.
LEMMA SerialFrame ==
    ASSUME UNCHANGED <<dir, clog, image>>
    PROVE  /\ \A r : Checked(r) => Checked(r)'
           /\ Held => Held'
<1>1. \A r : Checked(r) => Checked(r)'
  BY DEF Checked, Childless, Present, ParentPresent, LoginTaken
<1> QED
  BY <1>1 DEF Held, NoOrphans, NoRename, DistinctIgnoringCase, SamePresence, ReplicaFollows, OnlyPlain,
              Plain, Present

LEMMA SerialStep == ASSUME IInv, SerialInv, [Next]_vars PROVE SerialInv'
<1> SUFFICES ASSUME ~overlapped'
             PROVE  /\ \A s, t \in Slots : req'[s] # Idle /\ req'[t] # Idle => s = t
                    /\ \A s \in Slots : req'[s] # Idle => Checked(req[s])'
                    /\ Held'
  BY DEF SerialInv
<1> DEFINE Goal == /\ \A s, t \in Slots : req'[s] # Idle /\ req'[t] # Idle => s = t
                   /\ \A s \in Slots : req'[s] # Idle => Checked(req[s])'
                   /\ Held'
<1>1. CASE UNCHANGED vars
  <2>1. UNCHANGED <<dir, clog, image>> /\ UNCHANGED req /\ ~overlapped
    BY <1>1 DEF vars
  <2> QED
    BY <2>1, SerialFrame DEF SerialInv
<1>2. ASSUME NEW s \in Slots, BeginAdd(s) \/ BeginModify(s) \/ BeginDelete(s) PROVE Goal
  <2>1. PICK r : Begin(s, r) /\ Checked(r)
    BY <1>2, BeginChecked
  <2>2. /\ ~overlapped /\ UNCHANGED <<dir, clog, image>>
        /\ \A t \in Slots : req'[t] = IF t = s THEN r ELSE Idle
    BY <2>1 DEF Begin, IInv, TypeOK
  <2>3. Checked(r)'
    BY <2>1, <2>2, SerialFrame
  <2>4. Held'
    BY <2>2, SerialFrame DEF SerialInv
  <2> QED
    BY <2>2, <2>3, <2>4
<1>3. ASSUME NEW s \in Slots, Passes(s) PROVE Goal
  <2>1. /\ ~overlapped /\ UNCHANGED <<dir, clog, image>> /\ req[s] # Idle
        /\ \A t \in Slots : t # s => req[t] = Idle
    BY <1>3 DEF Passes, SerialInv
  <2>2. \/ \A t \in Slots : req'[t] = Idle
        \/ \E r : Checked(r) /\ \A t \in Slots : req'[t] = IF t = s THEN r ELSE Idle
    BY <1>3, <2>1 DEF Passes, Finish, SerialInv, IInv, TypeOK
  <2>3. Held'
    BY <2>1, SerialFrame DEF SerialInv
  <2> QED
    BY <2>1, <2>2, <2>3, SerialFrame
<1>4. ASSUME NEW s \in Slots, MorayFails(s) PROVE Goal
  BY <1>3, <1>4 DEF MorayFails, Passes
<1>5. ASSUME NEW s \in Slots, CommitAdd(s) \/ CommitModify(s) \/ CommitDelete(s) PROVE Goal
  <2>1. /\ ~overlapped /\ req[s] # Idle /\ Finish(s)
        /\ \A t \in Slots : t # s => req[t] = Idle
    BY <1>5 DEF CommitAdd, CommitModify, CommitDelete, At, SerialInv
  <2>2. \A t \in Slots : req'[t] = Idle
    BY <2>1 DEF Finish, IInv, TypeOK
  <2>3. UNCHANGED Stored \/ \E record \in Records : Alone(record)
    BY <1>5, <2>1, CommitAlone DEF SerialInv
  <2>4. Held'
    <3>1. CASE UNCHANGED Stored
      BY <2>1, <3>1, SerialFrame DEF SerialInv, Stored
    <3>2. ASSUME NEW record \in Records, Alone(record)
          PROVE  Held'
      BY <2>1, <3>2, AloneKeeps DEF SerialInv
    <3> QED
      BY <2>3, <3>1, <3>2
  <2> QED
    BY <2>2, <2>4
<1> QED
  BY <1>1, <1>2, <1>3, <1>4, <1>5, StepsPass DEF Next, AddStep, ModifyStep, DeleteStep

LEMMA SerialInvariance == Spec => []SerialInv
<1>1. IInv /\ SerialInv /\ [Next]_vars => SerialInv'
  BY SerialStep
<1> QED
  BY <1>1, SerialInit, Invariance, PTL DEF Spec

\* While requests do not overlap no sub-user is left without its account
\* (parentExists, preloadAccount and childExists).
THEOREM NoOrphansSerialHolds == Spec => []NoOrphansSerial
<1>1. SerialInv => NoOrphansSerial
  BY DEF SerialInv, Held, NoOrphansSerial
<1> QED
  BY <1>1, SerialInvariance, PTL

\* While requests do not overlap and nobody is renamed, no two logins of an
\* account, or of the directory, differ in case only (validateLogin).
THEOREM LoginsDistinctSerialHolds == Spec => []LoginsDistinctSerial
<1>1. SerialInv => LoginsDistinctSerial
  BY DEF SerialInv, Held, LoginsDistinctSerial, NoRename
<1> QED
  BY <1>1, SerialInvariance, PTL

\* While requests do not overlap, a UFDS that replays the changelog has the
\* same entries, their alias excepted (changelog and the replicated chains).
THEOREM ReplicaFollowsSerialHolds == Spec => []ReplicaFollowsSerial
<1>1. SerialInv => ReplicaFollowsSerial
  BY DEF SerialInv, Held, ReplicaFollowsSerial
<1> QED
  BY <1>1, SerialInvariance, PTL

=============================================================================
