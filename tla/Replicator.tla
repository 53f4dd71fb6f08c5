----------------------------- MODULE Replicator -----------------------------
(***************************************************************************)
(* One replicator instance (lib/ufds-replicator/instance.js, operations.js *)
(* and checkpoint.js): it polls the changelog of a remote UFDS, queues the *)
(* records that may concern it, applies them one at a time to the local    *)
(* UFDS, and keeps the next changenumber to ask for in a checkpoint entry  *)
(* of the local UFDS.                                                      *)
(*                                                                         *)
(* An action is one callback of the process, or one step of a server whose *)
(* answer the process waits for.  Node runs a callback to its end, so a    *)
(* callback is atomic; everything between two callbacks can interleave.    *)
(***************************************************************************)
EXTENDS ReplicationData

CONSTANTS
    QueueSize,      \* width of the changenumber range one search asks for
    MaxChange,      \* bound: changenumbers the remote hands out
    MaxGap,         \* bound: consecutive changenumbers lost to aborted writes
    MaxFaults,      \* bound: faults in a behaviour
    Faults          \* the kinds of fault that may happen

FaultKinds ==
    {"search",      \* a changelog search ends with an error
     "op",          \* an operation on the local UFDS fails and has no effect
     "lost",        \* an operation takes effect but an error is returned
     "reject",      \* the local UFDS answers ConstraintViolation
     "set",         \* writing the checkpoint fails or its answer is lost
     "reorder",     \* a checkpoint write commits before one sent earlier
     "get",         \* reading the checkpoint fails
     "drop",        \* the remote connection closes, nothing being processed
     "busydrop",    \* the remote connection closes, whatever is going on
     "crash"}       \* the process stops and is started again

ASSUME SizeAssumption ==
    /\ QueueSize \in Nat \ {0}
    /\ MaxChange \in Nat
    /\ MaxGap \in Nat
    /\ MaxFaults \in Nat

ASSUME FaultsAssumption == Faults \subseteq FaultKinds

NoNumber == -1      \* no checkpoint entry, no search under way

VARIABLES
    \* the remote UFDS
    remote,         \* its directory
    clog,           \* its changelog: changenumber -> record
    nextNumber,     \* the changenumber of its next write
    \* the local UFDS
    local,          \* its directory
    cp,             \* the changenumber of the checkpoint entry
    \* connection state of the process
    up,             \* the process runs
    connected,      \* self.remoteUfds is set
    epoch,          \* how often this process has connected
    ckptReady,      \* self.checkpoint.dn is known
    gets,           \* checkpoint reads under way
    timer,          \* the interval of self.timer is active
    leaked,         \* an interval self.timer no longer refers to is active
    exiting,        \* process.exit(1) is scheduled
    \* the poll loop
    currPolling, changenumber, searchnumber, caughtUp,
    search,         \* lower end of the search under way, or NoNumber
    seen,           \* the changenumbers below it are those the remote looked
                    \* at for the search, or NoNumber: it has not looked yet
    \* the serial queue
    queue,          \* changenumbers queued, the one being handled included
    worker,         \* what the queue's worker is doing
    cur,            \* the changenumber the worker handles
    queueError,
    sets,           \* checkpoint writes under way
    \* bookkeeping
    handled,        \* changenumbers the worker has handled with success
    faults          \* faults so far

remoteVars == <<remote, clog, nextNumber>>
localVars  == <<local, cp>>
connVars   == <<up, connected, epoch, ckptReady, gets, timer, leaked, exiting>>
pollVars   == <<currPolling, changenumber, searchnumber, caughtUp, search, seen>>
queueVars  == <<queue, worker, cur, queueError>>
vars == <<remoteVars, localVars, connVars, pollVars, queueVars, sets, handled, faults>>

-----------------------------------------------------------------------------
Numbers == 1 .. MaxChange

Owners == {"entry", "range", "none"}

\* A checkpoint write: the number, the callback that waits for its answer
\* and whether the server has committed it.
SetRecords == [n : Nat, owner : Owners, committed : BOOLEAN]

\* A checkpoint read: the connection it was made for and what it returned.
GetRecords == [epoch : Nat, read : BOOLEAN, val : Nat \cup {NoNumber}]

WorkerStates == {"idle", "begin", "op", "set", "stuck"}

RemoteTypeOK ==
    /\ remote \in [DNs -> MaybeEntry]
    /\ nextNumber \in Nat \ {0}
    /\ DOMAIN clog \subseteq 1 .. (nextNumber - 1)
    /\ \A n \in DOMAIN clog : clog[n] \in Changes

LocalTypeOK ==
    /\ local \in [DNs -> MaybeEntry]
    /\ cp \in Nat \cup {NoNumber}

ConnTypeOK ==
    /\ up \in BOOLEAN /\ connected \in BOOLEAN /\ ckptReady \in BOOLEAN
    /\ timer \in BOOLEAN /\ leaked \in BOOLEAN /\ exiting \in BOOLEAN
    /\ epoch \in Nat
    /\ gets \subseteq GetRecords

PollTypeOK ==
    /\ currPolling \in BOOLEAN /\ caughtUp \in BOOLEAN
    /\ changenumber \in Nat /\ searchnumber \in Nat
    /\ search \in Nat \cup {NoNumber}
    /\ seen \in Nat \cup {NoNumber}

QueueTypeOK ==
    /\ queue \subseteq DOMAIN clog
    /\ worker \in WorkerStates
    /\ cur \in Nat
    /\ queueError \in BOOLEAN

TypeOK ==
    /\ RemoteTypeOK /\ LocalTypeOK /\ ConnTypeOK /\ PollTypeOK /\ QueueTypeOK
    /\ sets \subseteq SetRecords
    /\ handled \subseteq DOMAIN clog
    /\ faults \in Nat

Fault(kind) ==
    /\ kind \in Faults
    /\ faults < MaxFaults
    /\ faults' = faults + 1

-----------------------------------------------------------------------------
(***************************************************************************)
(* The process before it connects: nothing of its state survives a crash.  *)
(* Entries present on both sides at installation (the bootstrap tree) are  *)
(* outside the replication profile.                                        *)
(***************************************************************************)
Init ==
    /\ remote \in [DNs -> MaybeEntry]
    /\ \A dn \in DNs : remote[dn] # None => ~Eligible(dn, remote[dn])
    /\ local = remote
    /\ clog = <<>>
    /\ nextNumber = 1
    /\ cp = NoNumber
    /\ up = TRUE /\ connected = FALSE /\ epoch = 0
    /\ ckptReady = FALSE /\ gets = {}
    /\ timer = FALSE /\ leaked = FALSE /\ exiting = FALSE
    /\ currPolling = FALSE /\ changenumber = 0 /\ searchnumber = 0
    /\ caughtUp = FALSE /\ search = NoNumber /\ seen = NoNumber
    /\ queue = {} /\ worker = "idle" /\ cur = 0 /\ queueError = FALSE
    /\ sets = {}
    /\ handled = {}
    /\ faults = 0

-----------------------------------------------------------------------------
(***************************************************************************)
(* The remote UFDS.  Its writes are serial here: a record and the change   *)
(* it describes commit in one moray batch.  A batch that aborts after its  *)
(* sequence number was drawn leaves a gap.                                 *)
(***************************************************************************)
Record(change) ==
    /\ nextNumber <= MaxChange
    /\ clog' = [n \in DOMAIN clog \cup {nextNumber} |->
                    IF n = nextNumber THEN change ELSE clog[n]]
    /\ nextNumber' = nextNumber + 1

RemoteAdd(dn, entry) ==
    /\ remote[dn] = None
    /\ remote' = [remote EXCEPT ![dn] = entry]
    /\ Record(Change("add", dn, "data", entry))

RemoteModify(dn, attr, entry) ==
    /\ remote[dn] # None
    /\ attr \in MutableAttrs
    /\ entry = ApplyChanges(remote[dn], Change("modify", dn, attr, entry))
    /\ entry # remote[dn]
    /\ remote' = [remote EXCEPT ![dn] = entry]
    /\ Record(Change("modify", dn, attr, entry))

RemoteDelete(dn) ==
    /\ remote[dn] # None
    /\ remote' = [remote EXCEPT ![dn] = None]
    /\ Record(Change("delete", dn, "data", remote[dn]))

RemoteWrite ==
    /\ \E dn \in DNs :
        \/ \E entry \in Entries : RemoteAdd(dn, entry)
        \/ \E attr \in Attrs, entry \in Entries : RemoteModify(dn, attr, entry)
        \/ RemoteDelete(dn)
    /\ UNCHANGED <<localVars, connVars, pollVars, queueVars, sets, handled, faults>>

RemoteAbort ==
    /\ nextNumber < MaxChange
    /\ \E n \in DOMAIN clog \cup {0} : nextNumber <= n + MaxGap
    /\ nextNumber' = nextNumber + 1
    /\ UNCHANGED <<remote, clog, localVars, connVars, pollVars, queueVars, sets, handled, faults>>

-----------------------------------------------------------------------------
(***************************************************************************)
(* Checkpoint.set.  It writes to self.dn, which a new Checkpoint object    *)
(* does not have until its first read returned; ldapjs then throws, and    *)
(* replicator.js only logs the exception, so the callback is never called. *)
(***************************************************************************)
CheckpointSet(n, owner, pending) ==
    IF ckptReady
      THEN pending \cup {[n |-> n, owner |-> owner, committed |-> FALSE]}
      ELSE pending

\* poll(): a search for the next range, unless one is being processed.
StartSearch(from) ==
    /\ currPolling' = TRUE
    /\ search' = from
    /\ seen' = NoNumber

Poll ==
    /\ up
    /\ timer \/ leaked
    /\ ~currPolling
    /\ connected
    /\ StartSearch(changenumber)
    /\ UNCHANGED <<remoteVars, localVars, connVars, changenumber, searchnumber, caughtUp,
                   queueVars, sets, handled, faults>>

-----------------------------------------------------------------------------
(***************************************************************************)
(* Connecting, the checkpoint read that follows, and losing the connection *)
(***************************************************************************)

\* init/connect: a new client and a new Checkpoint, whose read is sent.
Connect ==
    /\ up
    /\ ~connected
    /\ connected' = TRUE
    /\ epoch' = epoch + 1
    /\ ckptReady' = FALSE
    /\ gets' = gets \cup {[epoch |-> epoch + 1, read |-> FALSE, val |-> NoNumber]}
    /\ UNCHANGED <<remoteVars, localVars, up, timer, leaked, exiting, pollVars, queueVars,
                   sets, handled, faults>>

\* The local UFDS evaluates the checkpoint search.
ReadCheckpoint(g) ==
    /\ g \in gets
    /\ ~g.read
    /\ gets' = (gets \ {g}) \cup {[g EXCEPT !.read = TRUE, !.val = cp]}
    /\ UNCHANGED <<remoteVars, localVars, up, connected, epoch, ckptReady, timer, leaked, exiting,
                   pollVars, queueVars, sets, handled, faults>>

\* Mutant: the timer is not started again.
OnCheckpointNoTimer(g, n) ==
    /\ changenumber' = n
    /\ searchnumber' = n
    /\ ckptReady' = (ckptReady \/ g.epoch = epoch)
    /\ gets' = gets \ {g}
    /\ IF currPolling \/ ~connected
         THEN UNCHANGED <<currPolling, search, seen>>
         ELSE StartSearch(n)
    /\ UNCHANGED <<remoteVars, local, up, connected, epoch, exiting, caughtUp, queueVars,
                   timer, leaked, sets, handled, faults>>

\* Checkpoint.get returns the number n: onCheckpoint resets both numbers,
\* starts a timer and polls at once.
OnCheckpoint(g, n) ==
    /\ changenumber' = n
    /\ searchnumber' = n
    /\ leaked' = (leaked \/ timer)
    /\ timer' = TRUE
    /\ ckptReady' = (ckptReady \/ g.epoch = epoch)
    /\ gets' = gets \ {g}
    /\ IF currPolling \/ ~connected
         THEN UNCHANGED <<currPolling, search, seen>>
         ELSE StartSearch(n)
    /\ UNCHANGED <<remoteVars, local, up, connected, epoch, exiting, caughtUp, queueVars,
                   sets, handled, faults>>

CheckpointFound(g) ==
    /\ g \in gets
    /\ g.read
    /\ g.val # NoNumber
    /\ OnCheckpoint(g, g.val)
    /\ UNCHANGED cp

\* No checkpoint entry: get creates one at 0.
CheckpointCreated(g) ==
    /\ g \in gets
    /\ g.read
    /\ g.val = NoNumber
    /\ cp = NoNumber
    /\ OnCheckpoint(g, 0)
    /\ cp' = 0

\* The read fails, or another read has created the entry in the meantime:
\* onCheckpoint reports the error and starts no timer.
CheckpointFailed(g) ==
    /\ g \in gets
    /\ \/ Fault("get") /\ UNCHANGED ckptReady
       \/ /\ g.read /\ g.val = NoNumber /\ cp # NoNumber
          /\ ckptReady' = (ckptReady \/ g.epoch = epoch)
          /\ UNCHANGED faults
    /\ gets' = gets \ {g}
    /\ UNCHANGED <<remoteVars, localVars, up, connected, epoch, timer, leaked, exiting,
                   pollVars, queueVars, sets, handled>>

Idle == worker = "idle" /\ gets = {}

\* Mutant: the upper end of the range is left out.
WindowOpen == {n \in DOMAIN clog : search <= n /\ n < search + QueueSize /\ n < seen}

\* The records that a search which started at `search' returns: those that
\* were there when the remote looked.
Window == {n \in DOMAIN clog : search <= n /\ n <= search + QueueSize /\ n < seen}

\* A search under way ends with an error after the entries up to one of its
\* range, or none, were delivered: they are dropped, but searchnumber and
\* caughtUp have moved.
AbortSearch ==
    /\ currPolling' = FALSE
    /\ search' = NoNumber
    /\ seen' = NoNumber
    /\ \/ UNCHANGED <<searchnumber, caughtUp>>
       \/ /\ searchnumber' \in Window
          /\ caughtUp' = FALSE
    /\ UNCHANGED changenumber

\* handleClose.
Drop ==
    /\ up
    /\ connected
    /\ \/ Idle /\ Fault("drop")
       \/ Fault("busydrop")
    /\ connected' = FALSE
    /\ timer' = FALSE
    /\ IF search = NoNumber THEN UNCHANGED pollVars ELSE AbortSearch
    /\ UNCHANGED <<remoteVars, localVars, up, epoch, ckptReady, gets, leaked, exiting,
                   queueVars, sets, handled>>

SearchFails ==
    /\ up
    /\ search # NoNumber
    /\ Fault("search")
    /\ AbortSearch
    /\ UNCHANGED <<remoteVars, localVars, connVars, queueVars, sets, handled>>

-----------------------------------------------------------------------------
(***************************************************************************)
(* The remote evaluates the search, and goes on writing while its answer   *)
(* is on the way: onSearchEntry for every record found, then onSearchEnd.  *)
(***************************************************************************)
Look ==
    /\ search # NoNumber
    /\ seen = NoNumber
    /\ seen' = nextNumber
    /\ UNCHANGED <<remoteVars, localVars, connVars, currPolling, changenumber, searchnumber,
                   caughtUp, search, queueVars, sets, handled, faults>>

SearchEnds ==
    /\ up
    /\ search # NoNumber
    /\ seen # NoNumber
    /\ search' = NoNumber
    /\ seen' = NoNumber

Relevant(n) == CouldReplicate(clog[n])

Newest(n, S) == n \in S /\ \A m \in S : m <= n

\* Nothing received and nothing skipped before: the end of the changelog.
NoNewEntries ==
    /\ SearchEnds
    /\ Window = {}
    /\ changenumber = searchnumber
    /\ currPolling' = queueError
    /\ caughtUp' = (caughtUp \/ ~queueError)
    /\ UNCHANGED <<remoteVars, localVars, connVars, changenumber, searchnumber, queueVars,
                   sets, handled, faults>>

\* Records were received but none concerns this replica: the number after
\* the last of them is checkpointed, and polling resumes once it is.
NoMatchInRange ==
    /\ SearchEnds
    /\ \A n \in Window : ~Relevant(n)
    /\ Window = {} => changenumber # searchnumber
    /\ caughtUp' = (caughtUp /\ Window = {})
    /\ \E last \in Window \cup {searchnumber} :
        /\ Newest(last, Window) \/ Window = {}
        /\ searchnumber' = last + 1
        /\ changenumber' = last + 1
        /\ sets' = CheckpointSet(last + 1, "range", sets)
    /\ UNCHANGED <<remoteVars, localVars, connVars, currPolling, queueVars, handled, faults>>

\* The records that may concern it are sorted and pushed onto the queue.
EnqueueMatches ==
    /\ SearchEnds
    /\ \E n \in Window : Relevant(n)
    /\ \E last \in Window : Newest(last, Window) /\ searchnumber' = last
    /\ caughtUp' = FALSE
    /\ queue' = queue \cup {n \in Window : Relevant(n)}
    /\ worker' = IF worker = "idle" THEN "begin" ELSE worker
    /\ UNCHANGED <<remoteVars, localVars, connVars, currPolling, changenumber, cur, queueError,
                   sets, handled, faults>>

-----------------------------------------------------------------------------
\* Mutant: onDrain jumps past the last record even after an error.
EntryDoneAlwaysJumps(n, error, pending) ==
    /\ queue' = queue \ {n}
    /\ cur' = 0
    /\ UNCHANGED <<search, seen, caughtUp>>
    /\ IF queue \subseteq {n}
         THEN /\ worker' = "idle"
              /\ queueError' = FALSE
              /\ currPolling' = FALSE
              /\ searchnumber' = searchnumber + 1
              /\ changenumber' = searchnumber + 1
              /\ sets' = CheckpointSet(searchnumber + 1, "none", pending)
         ELSE /\ worker' = "begin"
              /\ queueError' = error
              /\ sets' = pending
              /\ UNCHANGED <<currPolling, changenumber, searchnumber>>

(***************************************************************************)
(* The worker calls back for record n; error tells whether the rest of the *)
(* queue is to be skipped.  When the queue is empty onDrain runs in the    *)
(* same callback: it allows polling again and, without an error, jumps     *)
(* past the last record received.                                          *)
(***************************************************************************)
EntryDone(n, error, pending) ==
    /\ queue' = queue \ {n}
    /\ cur' = 0
    /\ UNCHANGED <<search, seen, caughtUp>>
    /\ IF queue \subseteq {n}
         THEN /\ worker' = "idle"
              /\ queueError' = FALSE
              /\ currPolling' = FALSE
              /\ searchnumber' = searchnumber + 1
              /\ changenumber' = IF error THEN changenumber ELSE searchnumber + 1
              /\ sets' = IF error THEN pending
                                  ELSE CheckpointSet(searchnumber + 1, "none", pending)
         ELSE /\ worker' = "begin"
              /\ queueError' = error
              /\ sets' = pending
              /\ UNCHANGED <<currPolling, changenumber, searchnumber>>

\* Mutant: the records are not sorted before they are queued.
TakeAnyEntry ==
    /\ up
    /\ worker = "begin"
    /\ \E n \in queue :
        IF queueError
          THEN EntryDone(n, TRUE, sets)
          ELSE /\ worker' = "op"
               /\ cur' = n
               /\ UNCHANGED <<pollVars, queue, queueError, sets>>
    /\ UNCHANGED <<remoteVars, localVars, connVars, handled, faults>>

\* handleEntry takes the oldest queued record and, after an error, skips it.
TakeEntry ==
    /\ up
    /\ worker = "begin"
    /\ \E n \in queue :
        /\ \A m \in queue : n <= m
        /\ IF queueError
             THEN EntryDone(n, TRUE, sets)
             ELSE /\ worker' = "op"
                  /\ cur' = n
                  /\ UNCHANGED <<pollVars, queue, queueError, sets>>
    /\ UNCHANGED <<remoteVars, localVars, connVars, handled, faults>>

\* Mutant: the number in memory waits for the checkpoint.
UpdateKeepsNumber ==
    /\ handled' = handled \cup {cur}
    /\ sets' = CheckpointSet(cur + 1, "entry", sets)
    /\ worker' = IF ckptReady THEN "set" ELSE "stuck"
    /\ UNCHANGED <<pollVars, queue, cur, queueError>>

\* update() without an error: the number after the record is checkpointed
\* before the next record is taken.
Update ==
    /\ handled' = handled \cup {cur}
    /\ changenumber' = cur + 1
    /\ sets' = CheckpointSet(cur + 1, "entry", sets)
    /\ worker' = IF ckptReady THEN "set" ELSE "stuck"
    /\ UNCHANGED <<currPolling, searchnumber, caughtUp, search, seen, queue, cur, queueError>>

\* Mutant: the version is not compared.
HandlingAnyVersion(type) ==
    /\ up
    /\ worker = "op"
    /\ clog[cur].type = type

Handling(type) ==
    /\ up
    /\ worker = "op"
    /\ clog[cur].type = type
    /\ ~VersionTooNew(clog[cur])

\* A record announcing a schema this UFDS does not have stops the queue.
RefuseVersion ==
    /\ up
    /\ worker = "op"
    /\ VersionTooNew(clog[cur])
    /\ EntryDone(cur, TRUE, sets)
    /\ UNCHANGED <<remoteVars, localVars, connVars, handled, faults>>

\* ops.add: an entry that exists already makes the process exit after two
\* seconds; until then it is an error that skips the rest of the queue.
AddEntry(change) ==
    IF local[change.dn] = None
      THEN /\ local' = [local EXCEPT ![change.dn] = change.entry]
           /\ Update
           /\ UNCHANGED exiting
      ELSE /\ exiting' = TRUE
           /\ EntryDone(cur, TRUE, sets)
           /\ UNCHANGED <<local, handled>>

\* delEntry: a refusal because of local children is ignored.
DeleteLocal(change) ==
    /\ local' = IF change.dn \in NonLeaf THEN local
                                          ELSE [local EXCEPT ![change.dn] = None]
    /\ Update
    /\ UNCHANGED exiting

SkipChange ==
    /\ Update
    /\ UNCHANGED <<local, exiting>>

ModifyLocal(change) ==
    /\ local' = [local EXCEPT ![change.dn] = ApplyChanges(@, change)]
    /\ Update
    /\ UNCHANGED exiting

ReplicateAdd ==
    /\ Handling("add")
    /\ AddEntry(clog[cur])
    /\ UNCHANGED <<remoteVars, cp, up, connected, epoch, ckptReady, gets, timer, leaked, faults>>

\* The five scenarios of ops.modify.
ReplicateModify ==
    /\ Handling("modify")
    /\ LET change == clog[cur]
           known  == local[change.dn] # None
           localMatch  == known /\ Matches(local[change.dn])
           remoteMatch == Matches(change.entry)
       IN  CASE ~known /\ remoteMatch -> AddEntry(change)
             [] known /\ remoteMatch -> ModifyLocal(change)
             [] localMatch /\ ~remoteMatch -> DeleteLocal(change)
             [] OTHER -> SkipChange
    /\ UNCHANGED <<remoteVars, cp, up, connected, epoch, ckptReady, gets, timer, leaked, faults>>

\* The three scenarios of ops.del.
ReplicateDelete ==
    /\ Handling("delete")
    /\ LET change == clog[cur]
       IN  IF local[change.dn] # None /\ Matches(local[change.dn])
             THEN DeleteLocal(change)
             ELSE SkipChange
    /\ UNCHANGED <<remoteVars, cp, up, connected, epoch, ckptReady, gets, timer, leaked, faults>>

\* The local UFDS answers with an error that changed nothing.
OperationFails ==
    /\ up
    /\ worker = "op"
    /\ ~VersionTooNew(clog[cur])
    /\ Fault("op")
    /\ EntryDone(cur, TRUE, sets)
    /\ UNCHANGED <<remoteVars, localVars, connVars, handled>>

\* The local UFDS has done the operation, but its connection breaks before
\* the answer: the error is the same.
OperationAnswerLost ==
    /\ up
    /\ worker = "op"
    /\ ~VersionTooNew(clog[cur])
    /\ Fault("lost")
    /\ LET change == clog[cur]
           known  == local[change.dn] # None
       IN  local' = [local EXCEPT ![change.dn] =
                        CASE change.type = "add" /\ ~known -> change.entry
                          [] change.type = "modify" /\ known /\ Matches(change.entry) -> ApplyChanges(@, change)
                          [] change.type = "modify" /\ ~known /\ Matches(change.entry) -> change.entry
                          [] change.type = "delete" /\ known /\ Matches(@)
                                /\ change.dn \notin NonLeaf -> None
                          [] OTHER -> @]
    /\ EntryDone(cur, TRUE, sets)
    /\ UNCHANGED <<remoteVars, cp, connVars, handled>>

\* An add or a modify answered by ConstraintViolation ends the process too.
OperationRejected ==
    /\ up
    /\ worker = "op"
    /\ clog[cur].type # "delete"
    /\ ~VersionTooNew(clog[cur])
    /\ Fault("reject")
    /\ exiting' = TRUE
    /\ EntryDone(cur, TRUE, sets)
    /\ UNCHANGED <<remoteVars, localVars, up, connected, epoch, ckptReady, gets, timer, leaked, handled>>

-----------------------------------------------------------------------------
(***************************************************************************)
(* Checkpoint writes.  The callback of a record's or of a range's write    *)
(* continues the loop; onDrain's only logs, and the loop does not wait for *)
(* it, so that a later write can be under way at the same time.  The local *)
(* UFDS serves them concurrently: committing them out of order is a fault. *)
(***************************************************************************)
CommitCheckpoint(s) ==
    /\ s \in sets
    /\ ~s.committed
    /\ IF \E t \in sets : ~t.committed /\ t.n < s.n THEN Fault("reorder") ELSE UNCHANGED faults
    /\ cp' = s.n
    /\ sets' = (sets \ {s}) \cup (IF s.owner = "none" THEN {} ELSE {[s EXCEPT !.committed = TRUE]})
    /\ UNCHANGED <<remoteVars, local, connVars, pollVars, queueVars, handled>>

\* The answer, error or not, reaches the callback of updateChangenumber.
AnswerCheckpoint(s) ==
    /\ up
    /\ s \in sets
    /\ \E error \in BOOLEAN :
        /\ IF error THEN Fault("set") ELSE s.committed /\ UNCHANGED faults
        /\ \/ /\ s.owner = "entry" /\ worker = "set"
              /\ EntryDone(cur, error, sets \ {s})
           \/ /\ s.owner = "range"
              /\ currPolling' = FALSE
              /\ sets' = sets \ {s}
              /\ UNCHANGED <<changenumber, searchnumber, caughtUp, search, seen, queueVars>>
    /\ UNCHANGED <<remoteVars, localVars, connVars, handled>>

LoseCheckpoint(s) ==
    /\ s \in sets
    /\ s.owner = "none"
    /\ Fault("set")
    /\ sets' = sets \ {s}
    /\ UNCHANGED <<remoteVars, localVars, connVars, pollVars, queueVars, handled>>

-----------------------------------------------------------------------------
(***************************************************************************)
(* The process stops: it crashes, it is stopped, or the exit it scheduled  *)
(* happens.  Writes already sent may still be committed.                   *)
(***************************************************************************)
Halt ==
    /\ up' = FALSE /\ connected' = FALSE /\ epoch' = 0
    /\ ckptReady' = FALSE /\ gets' = {}
    /\ timer' = FALSE /\ leaked' = FALSE /\ exiting' = FALSE
    /\ currPolling' = FALSE /\ changenumber' = 0 /\ searchnumber' = 0
    /\ caughtUp' = FALSE /\ search' = NoNumber /\ seen' = NoNumber
    /\ queue' = {} /\ worker' = "idle" /\ cur' = 0 /\ queueError' = FALSE
    /\ sets' = {[s EXCEPT !.owner = "none"] : s \in {t \in sets : ~t.committed}}
    /\ UNCHANGED <<remoteVars, localVars, handled>>

Crash == up /\ Fault("crash") /\ Halt

Exit == up /\ exiting /\ Halt /\ UNCHANGED faults

\* The service manager starts the process again.
Restart ==
    /\ ~up
    /\ up' = TRUE
    /\ UNCHANGED <<remoteVars, localVars, connected, epoch, ckptReady, gets, timer, leaked,
                   exiting, pollVars, queueVars, sets, handled, faults>>

-----------------------------------------------------------------------------
ConnectionStep ==
    \/ Connect
    \/ \E g \in gets : ReadCheckpoint(g) \/ CheckpointFound(g) \/ CheckpointCreated(g)

SearchStep == Look \/ NoNewEntries \/ NoMatchInRange \/ EnqueueMatches

WorkerStep ==
    \/ TakeEntry \/ RefuseVersion
    \/ ReplicateAdd \/ ReplicateModify \/ ReplicateDelete

CheckpointStep == \E s \in sets : CommitCheckpoint(s) \/ AnswerCheckpoint(s)

FaultStep ==
    \/ Drop \/ SearchFails
    \/ OperationFails \/ OperationAnswerLost \/ OperationRejected
    \/ \E g \in gets : CheckpointFailed(g)
    \/ \E s \in sets : LoseCheckpoint(s)
    \/ Crash

Next ==
    \/ RemoteWrite \/ RemoteAbort
    \/ Poll \/ ConnectionStep \/ SearchStep \/ WorkerStep \/ CheckpointStep
    \/ FaultStep
    \/ Exit \/ Restart

Spec == Init /\ [][Next]_vars

\* setInterval keeps firing, servers answer and clients reconnect with a
\* backoff for ever (retries: Infinity), and SMF restarts the process.
Fairness ==
    /\ WF_vars(Poll)
    /\ WF_vars(ConnectionStep)
    /\ WF_vars(SearchStep)
    /\ WF_vars(WorkerStep)
    /\ WF_vars(CheckpointStep)
    /\ WF_vars(Exit \/ Restart)

FairSpec == Spec /\ Fairness

-----------------------------------------------------------------------------
(***************************************************************************)
(* Properties                                                              *)
(***************************************************************************)

\* Every record below a changenumber that may concern the replica has been
\* handled, and the remote has not yet to hand out a smaller number.
Covered(n) ==
    /\ n <= nextNumber
    /\ \A m \in DOMAIN clog : m < n /\ Relevant(m) => m \in handled

\* The checkpoint never passes a record that has not been applied: what a
\* restarted process will not ask for again is already on the replica
\* (updateChangenumber, onDrain, onSearchEnd, Checkpoint.set).
NoSkip == cp # NoNumber => Covered(cp)

\* Nothing published after a schema version this UFDS does not have is
\* applied (the version check of handleEntry).
VersionBarrier ==
    \A m \in DOMAIN clog : VersionTooNew(clog[m]) /\ Relevant(m) =>
        \A n \in handled : n < m

\* Once every record has been applied the replica holds exactly the entries
\* of the remote that the replication profile selects.
Converged ==
    (\A n \in DOMAIN clog : Relevant(n) => n \in handled) => View(local) = View(remote)

\* 'caughtup' is only emitted when everything that had been published when
\* the remote evaluated the search has been applied (onSearchEnd).  What is
\* published while the answer is on the way is left for the next search.
CaughtUpComplete ==
    [][caughtUp' /\ ~caughtUp =>
        /\ seen # NoNumber
        /\ \A n \in DOMAIN clog : n < seen /\ Relevant(n) => n \in handled]_vars

\* The process is never made to exit by an entry that exists already
\* (ops.add), that is, it never adds an entry a second time.
NeverExits == ~exiting

\* A process that has asked for everything holds no entry of the profile
\* that the remote no longer has in it (scenario 3 of ops.modify: the entry
\* used to match and is deleted).  CouldReplicate drops such a record, so the
\* code does not have this property (README).
NoStaleEntries ==
    (\A n \in DOMAIN clog : n < changenumber) =>
        \A dn \in DNs : View(local)[dn] # None => View(remote)[dn] # None

\* Every published record that may concern the replica is applied (the poll
\* loop goes on).
EventuallyReplicated ==
    \A n \in Numbers :
        (n \in DOMAIN clog /\ Relevant(n)) ~> n \in handled

\* The replica implements the ordered, exactly-once replay of the changelog
\* (poll, onSearchEnd, handleEntry, ops.add, ops.modify, ops.del).
Abstract == INSTANCE ChangelogReplica WITH done <- handled, image <- View(local)

OrderedReplay == Abstract!Spec

-----------------------------------------------------------------------------
(***************************************************************************)
(* Why NoSkip holds as long as the remote connection is not lost while the *)
(* queue is processed: the invariant that the proofs in ReplicatorProofs   *)
(* use.                                                                    *)
(***************************************************************************)

\* At most one checkpoint read is under way, and while one is, or while the
\* remote is disconnected, the poll loop rests.
ConnInv ==
    /\ ~leaked
    /\ \A g, h \in gets : g = h
    /\ (gets # {} \/ ~connected) => worker = "idle" /\ search = NoNumber /\ ~timer
    /\ ~connected => gets = {}

\* One thing happens at a time: a search, a busy queue, or the checkpoint
\* write that ends a range without matches; currPolling is set meanwhile.
PollInv ==
    /\ search # NoNumber => currPolling /\ worker = "idle" /\ search = changenumber
    /\ worker # "idle" => currPolling
    /\ \A s \in sets : s.owner = "range" =>
            /\ currPolling /\ worker = "idle" /\ search = NoNumber
            /\ \A t \in sets : t.owner = "range" => t = s

\* Every changenumber that is, or may become, the number to ask for next.
NumbersInv ==
    /\ Covered(changenumber)
    /\ cp # NoNumber => Covered(cp)
    /\ \A s \in sets : Covered(s.n)
    /\ \A g \in gets : g.val # NoNumber => Covered(g.val)

\* searchnumber only differs from changenumber when the next search is sure
\* to return a record again.
IdleInv ==
    worker = "idle" =>
        /\ queue = {}
        /\ ~queueError
        /\ \/ searchnumber = changenumber
           \/ \E n \in DOMAIN clog : changenumber <= n /\ n <= changenumber + QueueSize

\* The queue holds what is left of the range up to searchnumber.
BusyInv ==
    worker # "idle" =>
        /\ searchnumber \in DOMAIN clog
        /\ changenumber <= searchnumber + 1
        /\ searchnumber <= changenumber + QueueSize
        /\ \A n \in queue : n <= searchnumber
        /\ worker \in {"begin", "op"} => \A n \in queue : changenumber <= n
        /\ worker # "begin" => /\ cur \in queue
                               /\ ~queueError
                               /\ \A n \in queue : cur <= n
        /\ worker \in {"set", "stuck"} => cur \in handled /\ changenumber = cur + 1
        /\ ~queueError =>
              \A m \in DOMAIN clog : m <= searchnumber /\ Relevant(m) => m \in handled \cup queue

\* What the remote has looked at for the search under way: it was sure to
\* find the record that IdleInv speaks of.
SeenInv ==
    seen # NoNumber =>
        /\ search # NoNumber
        /\ seen <= nextNumber
        /\ \/ searchnumber = changenumber
           \/ \E n \in DOMAIN clog :
                changenumber <= n /\ n <= changenumber + QueueSize /\ n < seen

IInv == TypeOK /\ ConnInv /\ PollInv /\ NumbersInv /\ IdleInv /\ BusyInv /\ SeenInv

=============================================================================
