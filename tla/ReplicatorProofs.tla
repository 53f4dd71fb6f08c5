--------------------------- MODULE ReplicatorProofs ---------------------------
(***************************************************************************)
(* What TLAPS proves about Replicator for every value of its constants:    *)
(*   - the types, for every kind of fault (TypesHold);                     *)
(*   - that the checkpoint never passes a record that was not applied      *)
(*     (NoSkipHolds), that nothing published after a newer schema version  *)
(*     is applied (VersionBarrierHolds) and that "caughtup" is not         *)
(*     announced early (CaughtUpHolds), as long as the remote connection   *)
(*     is not lost while the queue is processed;                           *)
(*   - that the process replays the changelog in order and once            *)
(*     (OrderedReplayHolds), ends with the selected entries of the remote  *)
(*     (ConvergedHolds) and never adds an entry twice (NeverExitsHolds),   *)
(*     as long as its checkpoint is not behind what it has applied.        *)
(***************************************************************************)
EXTENDS Replicator, TLAPS

(***************************************************************************)
(* Types                                                                   *)
(***************************************************************************)

\* TypeOK is not inductive alone: a record counts as handled because it was
\* queued, and it was queued because it is in the changelog.
TypeInv ==
    /\ TypeOK
    /\ worker = "op" => cur \in queue

\* A part of the state that a step leaves alone keeps its types.
LEMMA FrameRemote == RemoteTypeOK /\ UNCHANGED remoteVars => RemoteTypeOK'
BY DEF RemoteTypeOK, remoteVars

\* The local UFDS, left alone.
LEMMA FrameLocal == LocalTypeOK /\ UNCHANGED localVars => LocalTypeOK'
BY DEF LocalTypeOK, localVars

\* The connection state, left alone.
LEMMA FrameConn == ConnTypeOK /\ UNCHANGED connVars => ConnTypeOK'
BY DEF ConnTypeOK, connVars

\* The poll loop, left alone.
LEMMA FramePoll == PollTypeOK /\ UNCHANGED pollVars => PollTypeOK'
BY DEF PollTypeOK, pollVars

\* The queue, left alone, of a changelog that may have grown.
LEMMA FrameQueue ==
    QueueTypeOK /\ DOMAIN clog \subseteq DOMAIN clog' /\ UNCHANGED queueVars => QueueTypeOK'
BY DEF QueueTypeOK, queueVars

\* The state before the process connects is well typed (Init).
LEMMA TypeInit == Init => TypeInv
<1> SUFFICES ASSUME Init PROVE TypeInv
    OBVIOUS
<1>1. DOMAIN clog = {}
    BY DEF Init
<1>2. RemoteTypeOK
    BY <1>1 DEF Init, RemoteTypeOK
<1>3. LocalTypeOK
    BY DEF Init, LocalTypeOK
<1>4. ConnTypeOK
    BY DEF Init, ConnTypeOK
<1>5. PollTypeOK
    BY DEF Init, PollTypeOK
<1>6. QueueTypeOK
    BY DEF Init, QueueTypeOK, WorkerStates
<1> QED BY <1>2, <1>3, <1>4, <1>5, <1>6 DEF Init, TypeInv, TypeOK

\* The writes of the remote keep the types (changelog.js writes one record).
LEMMA TypeRemote ==
    ASSUME TypeInv, RemoteWrite \/ RemoteAbort PROVE TypeInv'
<1> USE DEF TypeInv, TypeOK
<1>1. /\ UNCHANGED <<localVars, connVars, pollVars, queueVars, sets, handled, faults>>
      /\ UNCHANGED <<worker, cur, queue>>
    BY DEF RemoteWrite, RemoteAbort, queueVars
<1>2. RemoteTypeOK' /\ DOMAIN clog \subseteq DOMAIN clog'
    <2>1. CASE RemoteAbort
        BY <2>1 DEF RemoteAbort, RemoteTypeOK
    <2>2. CASE RemoteWrite
        <3>1. PICK dn \in DNs :
                \/ \E entry \in Entries : RemoteAdd(dn, entry)
                \/ \E attr \in Attrs, entry \in Entries : RemoteModify(dn, attr, entry)
                \/ RemoteDelete(dn)
            BY <2>2 DEF RemoteWrite
        <3>2. remote[dn] # None => remote[dn] \in Entries
            BY DEF MaybeEntry, RemoteTypeOK
        <3>3. \E change \in Changes : Record(change)
            BY <3>1, <3>2 DEF RemoteAdd, RemoteModify, RemoteDelete, Change, Changes, Attrs
        <3>4. remote' \in [DNs -> MaybeEntry]
            BY <3>1 DEF RemoteAdd, RemoteModify, RemoteDelete, MaybeEntry, RemoteTypeOK
        <3>5. PICK change \in Changes : Record(change)
            BY <3>3
        <3> QED BY <3>4, <3>5 DEF Record, RemoteTypeOK
    <2> QED BY <2>1, <2>2
<1> QED BY <1>1, <1>2, FrameLocal, FrameConn, FramePoll, FrameQueue DEF QueueTypeOK

\* Checkpoint.set adds the record of a write, or nothing.
LEMMA CheckpointSetType ==
    ASSUME NEW n \in Nat, NEW owner \in Owners, NEW pending, pending \subseteq SetRecords
    PROVE  CheckpointSet(n, owner, pending) \subseteq SetRecords
<1>1. [n |-> n, owner |-> owner, committed |-> FALSE] \in SetRecords
    BY DEF SetRecords
<1> QED BY <1>1 DEF CheckpointSet

\* The end of a record, onDrain included, keeps the types (handleEntry).
LEMMA EntryDoneType ==
    ASSUME TypeInv, UNCHANGED clog,
           NEW n, NEW error \in BOOLEAN, NEW pending, pending \subseteq SetRecords,
           EntryDone(n, error, pending)
    PROVE  PollTypeOK' /\ QueueTypeOK' /\ sets' \subseteq SetRecords /\ worker' # "op"
<1> USE DEF TypeInv, TypeOK, PollTypeOK, QueueTypeOK
<1>1. CheckpointSet(searchnumber + 1, "none", pending) \subseteq SetRecords
    BY CheckpointSetType DEF Owners
<1>2. sets' \subseteq SetRecords
    BY <1>1 DEF EntryDone
<1>3. PollTypeOK'
    <2>1. CASE queue \subseteq {n}
        <3>1. changenumber' \in {changenumber, searchnumber + 1}
            BY <2>1 DEF EntryDone
        <3>2. /\ changenumber' \in Nat /\ searchnumber' \in Nat
              /\ search' \in Nat \cup {NoNumber} /\ seen' \in Nat \cup {NoNumber}
            BY <2>1, <3>1 DEF EntryDone
        <3>3. currPolling' \in BOOLEAN /\ caughtUp' \in BOOLEAN
            BY <2>1, Zenon DEF EntryDone
        <3> QED BY <3>2, <3>3
    <2>2. CASE ~(queue \subseteq {n})
        BY <2>2 DEF EntryDone
    <2> QED BY <2>1, <2>2
<1>4. QueueTypeOK' /\ worker' # "op"
    BY DEF EntryDone, WorkerStates
<1> QED BY <1>2, <1>3, <1>4

\* A handled record, with its checkpoint write, keeps the types (update).
LEMMA UpdateType ==
    ASSUME TypeInv, worker = "op", UNCHANGED clog, Update
    PROVE  /\ PollTypeOK' /\ QueueTypeOK' /\ sets' \subseteq SetRecords
           /\ handled' \subseteq DOMAIN clog' /\ worker' # "op"
<1> USE DEF TypeInv, TypeOK, PollTypeOK, QueueTypeOK
<1>1. CheckpointSet(cur + 1, "entry", sets) \subseteq SetRecords
    BY CheckpointSetType DEF Owners
<1>2. sets' \subseteq SetRecords
    BY <1>1 DEF Update
<1>3. PollTypeOK'
    BY DEF Update
<1>4. QueueTypeOK' /\ worker' # "op"
    BY DEF Update, WorkerStates
<1> QED BY <1>2, <1>3, <1>4 DEF Update

\* Reading the checkpoint, connecting and disconnecting keep the types.
LEMMA TypeConnection ==
    ASSUME TypeInv,
           \/ ConnectionStep \/ Drop \/ SearchFails \/ Poll
           \/ \E g \in gets : CheckpointFailed(g)
    PROVE  TypeInv'
<1> USE DEF TypeInv, TypeOK
<1> USE FrameRemote, FrameLocal, FrameConn, FramePoll, FrameQueue
<1>1. CASE Connect
    <2>1. epoch \in Nat /\ gets \subseteq GetRecords
        BY DEF ConnTypeOK
    <2>2. [epoch |-> epoch + 1, read |-> FALSE, val |-> NoNumber] \in GetRecords
        BY <2>1 DEF GetRecords
    <2>3. gets' = gets \cup {[epoch |-> epoch + 1, read |-> FALSE, val |-> NoNumber]}
        BY <1>1 DEF Connect
    <2>4. gets' \subseteq GetRecords
        BY <2>1, <2>2, <2>3, Zenon
    <2>5. epoch' \in Nat
        BY <1>1, <2>1 DEF Connect
    <2>6. ConnTypeOK'
        BY <1>1, <2>4, <2>5, Zenon DEF Connect, ConnTypeOK
    <2> QED BY <1>1, <2>6 DEF Connect, remoteVars, queueVars
<1>2. CASE \E g \in gets : ReadCheckpoint(g)
    BY <1>2 DEF ReadCheckpoint, GetRecords, ConnTypeOK, LocalTypeOK, remoteVars, queueVars
<1>3. ASSUME NEW g \in gets, NEW n \in Nat, OnCheckpoint(g, n), cp' \in Nat \cup {NoNumber}
      PROVE  TypeInv'
    <2>1. ConnTypeOK' /\ PollTypeOK'
        BY <1>3 DEF OnCheckpoint, StartSearch, ConnTypeOK, PollTypeOK
    <2>2. LocalTypeOK'
        BY <1>3 DEF OnCheckpoint, LocalTypeOK
    <2> QED BY <1>3, <2>1, <2>2 DEF OnCheckpoint, remoteVars, queueVars
<1>4. CASE \E g \in gets : CheckpointFound(g)
    BY <1>3, <1>4 DEF CheckpointFound, GetRecords, ConnTypeOK, LocalTypeOK
<1>5. CASE \E g \in gets : CheckpointCreated(g)
    BY <1>3, <1>5 DEF CheckpointCreated
<1>6. ASSUME AbortSearch PROVE PollTypeOK'
    <2>1. Window \subseteq Nat
        BY DEF Window, RemoteTypeOK
    <2>2. searchnumber' \in Nat /\ caughtUp' \in BOOLEAN
        BY <1>6, <2>1 DEF AbortSearch, PollTypeOK
    <2> QED BY <1>6, <2>2 DEF AbortSearch, PollTypeOK
<1>7. CASE Drop
    <2>1. PollTypeOK'
        BY <1>6, <1>7 DEF Drop
    <2>2. ConnTypeOK'
        BY <1>7 DEF Drop, ConnTypeOK
    <2>3. faults' \in Nat
        BY <1>7 DEF Drop, Fault
    <2> QED BY <1>7, <2>1, <2>2, <2>3 DEF Drop, remoteVars, queueVars
<1>8. CASE SearchFails
    BY <1>6, <1>8 DEF SearchFails, Fault, remoteVars, queueVars
<1>9. CASE Poll
    BY <1>9 DEF Poll, StartSearch, PollTypeOK, remoteVars, queueVars
<1>10. CASE \E g \in gets : CheckpointFailed(g)
    <2>1. faults' \in Nat
        BY <1>10 DEF CheckpointFailed, Fault
    <2>3. ckptReady' \in BOOLEAN
        BY <1>10, Zenon DEF CheckpointFailed, ConnTypeOK
    <2>2. ConnTypeOK'
        BY <1>10, <2>3 DEF CheckpointFailed, ConnTypeOK
    <2> QED BY <1>10, <2>1, <2>2 DEF CheckpointFailed, remoteVars, queueVars
<1> QED BY <1>1, <1>2, <1>4, <1>5, <1>7, <1>8, <1>9, <1>10 DEF ConnectionStep

\* The three ways a search ends keep the types (onSearchEnd).
LEMMA TypeSearch == ASSUME TypeInv, SearchStep PROVE TypeInv'
<1> USE DEF TypeInv, TypeOK
<1> USE FrameRemote, FrameLocal, FrameConn, FramePoll, FrameQueue
<1>1. Window \subseteq DOMAIN clog /\ Window \subseteq Nat
    BY DEF Window, RemoteTypeOK
<1>2. CASE NoNewEntries
    BY <1>2 DEF NoNewEntries, SearchEnds, remoteVars, queueVars, PollTypeOK, QueueTypeOK
<1>5. CASE Look
    <2>1. PollTypeOK'
        BY <1>5 DEF Look, PollTypeOK, RemoteTypeOK
    <2> QED BY <1>5, <2>1 DEF Look, remoteVars, queueVars
<1>3. CASE NoMatchInRange
    <2>1. PICK last \in Window \cup {searchnumber} :
              /\ searchnumber' = last + 1
              /\ changenumber' = last + 1
              /\ sets' = CheckpointSet(last + 1, "range", sets)
        BY <1>3 DEF NoMatchInRange
    <2>2. last + 1 \in Nat
        BY <1>1, <2>1 DEF PollTypeOK
    <2>3. sets' \subseteq SetRecords
        BY <2>1, <2>2, CheckpointSetType DEF Owners
    <2>4. PollTypeOK'
        BY <1>3, <2>1, <2>2 DEF NoMatchInRange, SearchEnds, PollTypeOK
    <2> QED BY <1>3, <2>3, <2>4 DEF NoMatchInRange, remoteVars, queueVars
<1>4. CASE EnqueueMatches
    <2>1. PollTypeOK'
        BY <1>1, <1>4 DEF EnqueueMatches, SearchEnds, Newest, PollTypeOK
    <2>2. QueueTypeOK' /\ (worker' = "op" => cur' \in queue')
        BY <1>1, <1>4 DEF EnqueueMatches, QueueTypeOK, WorkerStates, remoteVars
    <2> QED BY <1>4, <2>1, <2>2 DEF EnqueueMatches, remoteVars
<1> QED BY <1>2, <1>3, <1>4, <1>5 DEF SearchStep

\* What EntryDone or Update does to the queue, and an operation to the local
\* UFDS, keeps the types (the branches of ops.add, ops.modify and ops.del).
LEMMA OperationType ==
    ASSUME TypeInv, worker = "op", UNCHANGED clog,
           NEW change \in Changes,
           \/ AddEntry(change) \/ DeleteLocal(change) \/ SkipChange
           \/ local[change.dn] # None /\ ModifyLocal(change)
    PROVE  /\ PollTypeOK' /\ QueueTypeOK' /\ sets' \subseteq SetRecords
           /\ handled' \subseteq DOMAIN clog' /\ worker' # "op"
           /\ local' \in [DNs -> MaybeEntry] /\ exiting' \in BOOLEAN
<1> USE DEF TypeInv, TypeOK
<1>1. change.dn \in DNs /\ change.entry \in MaybeEntry
    BY DEF Changes, MaybeEntry
<1>2. local \in [DNs -> MaybeEntry] /\ exiting \in BOOLEAN
    BY DEF LocalTypeOK, ConnTypeOK
<1>3. CASE AddEntry(change)
    <2>1. CASE local[change.dn] = None
        BY <1>1, <1>2, <1>3, <2>1, UpdateType DEF AddEntry
    <2>2. CASE local[change.dn] # None
        BY <1>2, <1>3, <2>2, EntryDoneType DEF AddEntry
    <2> QED BY <2>1, <2>2
<1>4. CASE DeleteLocal(change)
    <2>1. local' \in [DNs -> MaybeEntry]
        BY <1>1, <1>2, <1>4 DEF DeleteLocal, MaybeEntry
    <2> QED BY <1>2, <1>4, <2>1, UpdateType DEF DeleteLocal
<1>5. CASE SkipChange
    BY <1>2, <1>5, UpdateType DEF SkipChange
<1>6. CASE local[change.dn] # None /\ ModifyLocal(change)
    <2>1. local[change.dn] \in Entries
        BY <1>1, <1>2, <1>6 DEF MaybeEntry
    <2>2. ApplyChanges(local[change.dn], change) \in MaybeEntry
        BY <2>1 DEF ApplyChanges, Changes, Entries, MaybeEntry
    <2> QED BY <1>1, <1>2, <1>6, <2>2, UpdateType DEF ModifyLocal
<1> QED BY <1>3, <1>4, <1>5, <1>6

\* The worker's steps keep the types (handleEntry and operations.js).
LEMMA TypeWorker ==
    ASSUME TypeInv,
           \/ WorkerStep \/ OperationFails \/ OperationAnswerLost \/ OperationRejected
    PROVE  TypeInv'
<1> USE DEF TypeInv, TypeOK
<1>1. TRUE \in BOOLEAN /\ sets \subseteq SetRecords
    OBVIOUS
<1>2. CASE TakeEntry
    <2>1. PICK n \in queue :
            IF queueError THEN EntryDone(n, TRUE, sets)
            ELSE worker' = "op" /\ cur' = n /\ UNCHANGED <<pollVars, queue, queueError, sets>>
        BY <1>2 DEF TakeEntry
    <2>2. RemoteTypeOK' /\ LocalTypeOK' /\ ConnTypeOK' /\ UNCHANGED <<clog, handled, faults>>
        BY <1>2, FrameRemote, FrameLocal, FrameConn DEF TakeEntry, remoteVars
    <2>3. CASE queueError
        BY <1>1, <2>1, <2>2, <2>3, EntryDoneType
    <2>4. CASE ~queueError
        <3>1. n \in Nat
            BY DEF QueueTypeOK, RemoteTypeOK
        <3>2. QueueTypeOK' /\ cur' \in queue'
            BY <2>1, <2>2, <2>4, <3>1 DEF QueueTypeOK, WorkerStates
        <3> QED BY <2>1, <2>2, <2>4, <3>2, FramePoll
    <2> QED BY <2>3, <2>4
<1>3. CASE RefuseVersion \/ OperationFails \/ OperationRejected \/ OperationAnswerLost
    <2>1. EntryDone(cur, TRUE, sets) /\ UNCHANGED <<remoteVars, clog, handled>>
        BY <1>3 DEF RefuseVersion, OperationFails, OperationRejected, OperationAnswerLost, remoteVars
    <2>2. PollTypeOK' /\ QueueTypeOK' /\ sets' \subseteq SetRecords /\ worker' # "op"
        BY <1>1, <2>1, EntryDoneType
    <2>3. ConnTypeOK' /\ faults' \in Nat
        <3>1. CASE OperationRejected
            BY <3>1 DEF OperationRejected, ConnTypeOK, Fault
        <3>2. CASE RefuseVersion \/ OperationFails \/ OperationAnswerLost
            <4>1. UNCHANGED connVars
                BY <3>2 DEF RefuseVersion, OperationFails, OperationAnswerLost
            <4>2. faults' \in Nat
                <5>1. CASE RefuseVersion
                    BY <5>1 DEF RefuseVersion
                <5>2. CASE OperationFails \/ OperationAnswerLost
                    <6>1. Fault("op") \/ Fault("lost")
                        BY <5>2, Zenon DEF OperationFails, OperationAnswerLost
                    <6> QED BY <6>1 DEF Fault
                <5> QED BY <3>2, <5>1, <5>2
            <4> QED BY <4>1, <4>2, FrameConn
        <3> QED BY <1>3, <3>1, <3>2
    <2>4. LocalTypeOK'
        <3>1. CASE OperationAnswerLost
            <4>1. clog[cur] \in Changes /\ worker = "op"
                BY <3>1 DEF OperationAnswerLost, QueueTypeOK, RemoteTypeOK
            <4>2. clog[cur].dn \in DNs /\ clog[cur].entry \in Entries
                BY <4>1 DEF Changes
            <4>3. local[clog[cur].dn] # None =>
                    ApplyChanges(local[clog[cur].dn], clog[cur]) \in MaybeEntry
                BY <4>1, <4>2 DEF ApplyChanges, Changes, Entries, MaybeEntry, LocalTypeOK
            <4>4. \E result \in MaybeEntry : local' = [local EXCEPT ![clog[cur].dn] = result]
                BY <3>1, <4>2, <4>3 DEF OperationAnswerLost, MaybeEntry, LocalTypeOK
            <4>5. cp' = cp
                BY <3>1 DEF OperationAnswerLost
            <4> QED BY <4>2, <4>4, <4>5 DEF LocalTypeOK
        <3>2. CASE RefuseVersion \/ OperationFails \/ OperationRejected
            BY <3>2, FrameLocal DEF RefuseVersion, OperationFails, OperationRejected
        <3> QED BY <1>3, <3>1, <3>2
    <2> QED BY <2>1, <2>2, <2>3, <2>4, FrameRemote
<1>4. CASE ReplicateAdd \/ ReplicateModify \/ ReplicateDelete
    <2>1. /\ worker = "op"
          /\ UNCHANGED <<remoteVars, cp, up, connected, epoch, ckptReady, gets, timer, leaked, faults>>
          /\ \/ AddEntry(clog[cur]) \/ DeleteLocal(clog[cur]) \/ SkipChange
             \/ local[clog[cur].dn] # None /\ ModifyLocal(clog[cur])
        BY <1>4 DEF ReplicateAdd, ReplicateModify, ReplicateDelete, Handling
    <2>2. clog[cur] \in Changes /\ UNCHANGED clog
        BY <2>1 DEF QueueTypeOK, RemoteTypeOK, remoteVars
    <2>3. /\ PollTypeOK' /\ QueueTypeOK' /\ sets' \subseteq SetRecords
          /\ handled' \subseteq DOMAIN clog' /\ worker' # "op"
          /\ local' \in [DNs -> MaybeEntry] /\ exiting' \in BOOLEAN
        BY <2>1, <2>2, OperationType
    <2>4. ConnTypeOK' /\ LocalTypeOK'
        BY <2>1, <2>3 DEF ConnTypeOK, LocalTypeOK
    <2> QED BY <2>1, <2>3, <2>4, FrameRemote
<1> QED BY <1>2, <1>3, <1>4 DEF WorkerStep

\* Commits and answers of checkpoint writes keep the types (Checkpoint.set).
LEMMA TypeCheckpoint ==
    ASSUME TypeInv, NEW s \in sets,
           CommitCheckpoint(s) \/ AnswerCheckpoint(s) \/ LoseCheckpoint(s)
    PROVE  TypeInv'
<1> USE DEF TypeInv, TypeOK
<1>1. s \in SetRecords /\ sets \ {s} \subseteq SetRecords
    OBVIOUS
<1>2. s.n \in Nat /\ [s EXCEPT !.committed = TRUE] \in SetRecords
    BY <1>1 DEF SetRecords
<1>3. CASE CommitCheckpoint(s)
    <2>1. sets' \subseteq SetRecords /\ cp' \in Nat
        BY <1>2, <1>3 DEF CommitCheckpoint
    <2>2. faults' \in Nat
        BY <1>3 DEF CommitCheckpoint, Fault
    <2>3. LocalTypeOK'
        BY <1>3, <2>1 DEF CommitCheckpoint, LocalTypeOK
    <2> QED BY <1>3, <2>1, <2>2, <2>3, FrameRemote, FrameConn, FramePoll, FrameQueue
            DEF CommitCheckpoint, remoteVars, queueVars
<1>4. CASE AnswerCheckpoint(s)
    <2>1. PICK error \in BOOLEAN :
            /\ IF error THEN Fault("set") ELSE s.committed /\ UNCHANGED faults
            /\ \/ EntryDone(cur, error, sets \ {s})
               \/ /\ currPolling' = FALSE
                  /\ sets' = sets \ {s}
                  /\ UNCHANGED <<changenumber, searchnumber, caughtUp, search, seen, queueVars>>
        BY <1>4 DEF AnswerCheckpoint
    <2>2. UNCHANGED <<remoteVars, localVars, connVars, clog, handled>>
        BY <1>4 DEF AnswerCheckpoint, remoteVars
    <2>3. faults' \in Nat
        BY <2>1 DEF Fault
    <2>4. CASE EntryDone(cur, error, sets \ {s})
        BY <1>1, <2>2, <2>3, <2>4, EntryDoneType, FrameRemote, FrameLocal, FrameConn
    <2>5. CASE /\ currPolling' = FALSE
               /\ sets' = sets \ {s}
               /\ UNCHANGED <<changenumber, searchnumber, caughtUp, search, seen, queueVars>>
        <3>1. PollTypeOK'
            BY <2>5 DEF PollTypeOK
        <3> QED BY <2>2, <2>3, <2>5, <3>1, FrameRemote, FrameLocal, FrameConn, FrameQueue
                DEF queueVars
    <2> QED BY <2>1, <2>4, <2>5
<1>5. CASE LoseCheckpoint(s)
    BY <1>1, <1>5, FrameRemote, FrameLocal, FrameConn, FramePoll, FrameQueue
       DEF LoseCheckpoint, Fault, remoteVars, queueVars
<1> QED BY <1>3, <1>4, <1>5

\* Stopping and starting the process keeps the types (replicator.js, SMF).
LEMMA TypeProcess == ASSUME TypeInv, Crash \/ Exit \/ Restart PROVE TypeInv'
<1> USE DEF TypeInv, TypeOK
<1>1. CASE Restart
    <2>1. ConnTypeOK'
        BY <1>1 DEF Restart, ConnTypeOK
    <2> QED BY <1>1, <2>1, FrameRemote, FrameLocal, FramePoll, FrameQueue
            DEF Restart, remoteVars, queueVars
<1>2. CASE Crash \/ Exit
    <2>1. Halt /\ faults' \in Nat
        BY <1>2 DEF Crash, Exit, Fault
    <2>2. \A t \in sets : [t EXCEPT !.owner = "none"] \in SetRecords
        BY DEF SetRecords, Owners
    <2>3. sets' \subseteq SetRecords
        BY <2>1, <2>2 DEF Halt
    <2>4. ConnTypeOK' /\ PollTypeOK' /\ QueueTypeOK' /\ worker' # "op"
        BY <2>1 DEF Halt, ConnTypeOK, PollTypeOK, QueueTypeOK, WorkerStates
    <2> QED BY <2>1, <2>3, <2>4, FrameRemote, FrameLocal DEF Halt, remoteVars
<1> QED BY <1>1, <1>2

\* A step that changes nothing keeps the types.
LEMMA TypeStutter == TypeInv /\ UNCHANGED vars => TypeInv'
<1> SUFFICES ASSUME TypeInv, UNCHANGED vars PROVE TypeInv'
    OBVIOUS
<1>1. UNCHANGED <<remoteVars, localVars, connVars, pollVars, queueVars, sets, handled, faults>>
    BY DEF vars
<1>2. RemoteTypeOK' /\ LocalTypeOK' /\ ConnTypeOK' /\ PollTypeOK' /\ QueueTypeOK'
    BY <1>1, FrameRemote, FrameLocal, FrameConn, FramePoll, FrameQueue
       DEF TypeInv, TypeOK, remoteVars
<1> QED BY <1>1, <1>2 DEF TypeInv, TypeOK, remoteVars, queueVars

\* Every step keeps the types.
LEMMA TypeStep == ASSUME TypeInv, [Next]_vars PROVE TypeInv'
<1>1. CASE RemoteWrite \/ RemoteAbort
    BY <1>1, TypeRemote
<1>2. CASE ConnectionStep \/ Drop \/ SearchFails \/ Poll
           \/ \E g \in gets : CheckpointFailed(g)
    BY <1>2, TypeConnection
<1>3. CASE SearchStep
    BY <1>3, TypeSearch
<1>4. CASE WorkerStep \/ OperationFails \/ OperationAnswerLost \/ OperationRejected
    BY <1>4, TypeWorker
<1>5. CASE \E s \in sets : CommitCheckpoint(s) \/ AnswerCheckpoint(s) \/ LoseCheckpoint(s)
    BY <1>5, TypeCheckpoint
<1>6. CASE Crash \/ Exit \/ Restart
    BY <1>6, TypeProcess
<1>7. CASE UNCHANGED vars
    BY <1>7, TypeStutter
<1> QED BY <1>1, <1>2, <1>3, <1>4, <1>5, <1>6, <1>7 DEF Next, FaultStep, CheckpointStep

\* In every behaviour, with every kind of fault, the changelog, the
\* checkpoint and the loop's numbers keep their types: no fault makes the
\* process poll from, or store, something that is not a changenumber.
THEOREM TypesHold == Spec => []TypeOK
<1>1. TypeInv /\ [Next]_vars => TypeInv'
    BY TypeStep
<1>2. TypeInv => TypeOK
    BY DEF TypeInv
<1> QED BY TypeInit, <1>1, <1>2, PTL DEF Spec

-----------------------------------------------------------------------------
(***************************************************************************)
(* The checkpoint.  NoSkip alone is not inductive: what is written to the  *)
(* checkpoint comes from changenumber and searchnumber, which onDrain,     *)
(* onSearchEnd and update move at different times.  IInv says why they may *)
(* be moved: at any time one thing happens (ConnInv, PollInv), every       *)
(* number that may reach the checkpoint is safe (NumbersInv), and the      *)
(* queue holds what is left up to searchnumber (IdleInv, BusyInv).         *)
(***************************************************************************)

\* IInv without the types.
Progress == ConnInv /\ PollInv /\ NumbersInv /\ IdleInv /\ BusyInv

\* Nothing a step does to the changelog or to the set of handled records
\* makes a number unsafe: records get higher numbers, and stay handled.
Grows ==
    /\ nextNumber <= nextNumber'
    /\ nextNumber' \in Nat
    /\ handled \subseteq handled'
    /\ DOMAIN clog \subseteq DOMAIN clog'
    /\ \A m \in DOMAIN clog' :
          \/ m \in DOMAIN clog /\ clog'[m] = clog[m]
          \/ m \in Nat /\ nextNumber <= m

\* What Covered says of the next state.
CoveredNext(n) ==
    /\ n <= nextNumber'
    /\ \A m \in DOMAIN clog' : m < n /\ CouldReplicate(clog'[m]) => m \in handled'

\* A safe number stays safe.
LEMMA CoveredStable ==
    ASSUME TypeOK, Grows PROVE \A n \in Nat : Covered(n) => CoveredNext(n)
<1> SUFFICES ASSUME NEW n \in Nat, Covered(n) PROVE CoveredNext(n)
    OBVIOUS
<1>1. nextNumber \in Nat /\ DOMAIN clog \subseteq Nat
    BY DEF TypeOK, RemoteTypeOK
<1>2. n <= nextNumber'
    BY <1>1 DEF Covered, Grows
<1>3. ASSUME NEW m \in DOMAIN clog', m < n, CouldReplicate(clog'[m]) PROVE m \in handled'
    <2>1. m \in DOMAIN clog /\ clog'[m] = clog[m]
        BY <1>1, <1>3 DEF Covered, Grows
    <2>2. m \in handled
        BY <1>3, <2>1 DEF Covered, Relevant
    <2> QED BY <2>2 DEF Grows
<1> QED BY <1>2, <1>3 DEF CoveredNext

\* The changelog and the handled records are left alone.
LEMMA NothingGrows ==
    ASSUME TypeOK, UNCHANGED <<clog, nextNumber, handled>> PROVE Grows
<1>1. nextNumber \in Nat /\ UNCHANGED clog /\ UNCHANGED nextNumber /\ UNCHANGED handled
    BY DEF TypeOK, RemoteTypeOK
<1> QED BY <1>1 DEF Grows

\* The numbers that exist stay safe; a step that makes a new one shows that
\* the new one is.
LEMMA NumbersStable ==
    ASSUME TypeOK, NumbersInv, Grows,
           CoveredNext(changenumber'),
           cp' = cp \/ (cp' \in Nat /\ CoveredNext(cp')),
           \A s \in sets' : (\E t \in sets : t.n = s.n) \/ CoveredNext(s.n),
           \A g \in gets' : (\E h \in gets : h.val = g.val) \/ g.val = NoNumber \/ CoveredNext(g.val)
    PROVE  NumbersInv'
<1>1. cp \in Nat \cup {NoNumber} /\ sets \subseteq SetRecords /\ gets \subseteq GetRecords
    BY DEF TypeOK, LocalTypeOK, ConnTypeOK
<1>3. \A s \in sets' : CoveredNext(s.n)
    <2> SUFFICES ASSUME NEW s \in sets' PROVE CoveredNext(s.n)
        OBVIOUS
    <2>1. CASE \E t \in sets : t.n = s.n
        <3>1. PICK t \in sets : t.n = s.n
            BY <2>1
        <3>2. t.n \in Nat
            BY <1>1 DEF SetRecords
        <3> QED BY <3>1, <3>2, CoveredStable DEF NumbersInv
    <2> QED BY <2>1
<1>4. \A g \in gets' : g.val # NoNumber => CoveredNext(g.val)
    <2> SUFFICES ASSUME NEW g \in gets', g.val # NoNumber PROVE CoveredNext(g.val)
        OBVIOUS
    <2>1. CASE \E h \in gets : h.val = g.val
        <3>1. PICK h \in gets : h.val = g.val
            BY <2>1
        <3>2. h.val \in Nat
            BY <1>1, <3>1 DEF GetRecords
        <3> QED BY <3>1, <3>2, CoveredStable DEF NumbersInv
    <2> QED BY <2>1
<1>5. cp' # NoNumber => CoveredNext(cp')
    <2>1. CASE cp' = cp
        BY <1>1, <2>1, CoveredStable DEF NumbersInv
    <2> QED BY <2>1
<1> QED BY <1>3, <1>4, <1>5 DEF NumbersInv, Covered, CoveredNext, Relevant


\* The process before it connects (Init).
LEMMA SafeInit == Init => Progress
<1> SUFFICES ASSUME Init PROVE Progress
    OBVIOUS
<1>1. DOMAIN clog = {}
    BY DEF Init
<1> QED BY <1>1 DEF Init, Progress, ConnInv, PollInv, NumbersInv, IdleInv, BusyInv, Covered, NoNumber

\* A write of the remote gets a number that is not below any safe number,
\* and the records of the queue's range are already there (changelog.js).
LEMMA SafeRemote ==
    ASSUME TypeOK, Progress, RemoteWrite \/ RemoteAbort PROVE Progress'
<1>1. UNCHANGED <<cp, up, connected, ckptReady, gets, timer, leaked, currPolling, changenumber,
                  searchnumber, search, queue, worker, cur, queueError, sets, handled>>
    BY DEF RemoteWrite, RemoteAbort, localVars, connVars, pollVars, queueVars
<1>2. /\ nextNumber \in Nat /\ DOMAIN clog \subseteq Nat
      /\ \A n \in DOMAIN clog : n < nextNumber
    BY DEF TypeOK, RemoteTypeOK
<1>3. Grows
    <2>1. CASE RemoteAbort
        BY <1>1, <1>2, <2>1 DEF RemoteAbort, Grows
    <2>2. CASE RemoteWrite
        <3>1. \E change : Record(change)
            BY <2>2 DEF RemoteWrite, RemoteAdd, RemoteModify, RemoteDelete
        <3>2. PICK change : Record(change)
            BY <3>1
        <3>3. nextNumber' = nextNumber + 1 /\ DOMAIN clog' = DOMAIN clog \cup {nextNumber}
            BY <3>2 DEF Record
        <3>4. \A m \in DOMAIN clog : clog'[m] = clog[m]
            BY <1>2, <3>2 DEF Record
        <3> QED BY <1>1, <1>2, <3>3, <3>4 DEF Grows
    <2> QED BY <2>1, <2>2
<1>4. CoveredNext(changenumber')
    BY <1>1, <1>3, CoveredStable DEF Progress, NumbersInv, TypeOK, PollTypeOK
<1>5. NumbersInv'
    BY <1>1, <1>3, <1>4, NumbersStable DEF Progress
<1>6. ConnInv' /\ PollInv'
    BY <1>1 DEF Progress, ConnInv, PollInv
<1>7. IdleInv'
    BY <1>1, <1>3 DEF Progress, IdleInv, Grows
<1>8. BusyInv'
    <2>1. searchnumber \in DOMAIN clog =>
            \A m \in DOMAIN clog' : m <= searchnumber => m \in DOMAIN clog /\ clog'[m] = clog[m]
        BY <1>2, <1>3 DEF Grows
    <2>2. worker # "idle" => searchnumber \in DOMAIN clog /\ searchnumber \in DOMAIN clog'
        BY <1>3 DEF Progress, BusyInv, Grows
    <2>3. worker # "idle" /\ ~queueError =>
            \A m \in DOMAIN clog' :
                m <= searchnumber /\ CouldReplicate(clog'[m]) => m \in handled \cup queue
        BY <2>1, <2>2 DEF Progress, BusyInv, Relevant
    <2> QED BY <1>1, <2>2, <2>3 DEF Progress, BusyInv, Relevant
<1> QED BY <1>5, <1>6, <1>7, <1>8 DEF Progress

\* Connecting and reading the checkpoint: the loop rests meanwhile, and
\* starts again at a number that the checkpoint held (onCheckpoint).
LEMMA SafeConnection ==
    ASSUME TypeOK, Progress,
           ConnectionStep \/ \E g \in gets : CheckpointFailed(g)
    PROVE  Progress'
<1>2. UNCHANGED <<clog, nextNumber, handled, sets, queue, worker, cur, queueError>>
    BY DEF ConnectionStep, Connect, ReadCheckpoint, CheckpointFound, CheckpointCreated,
           CheckpointFailed, OnCheckpoint, remoteVars, queueVars
<1>3. Grows
    BY <1>2, NothingGrows
<1>4. CASE Connect
    <2>1. UNCHANGED <<cp, timer, leaked, currPolling, changenumber, searchnumber, search>>
        BY <1>4 DEF Connect, localVars, pollVars
    <2>2. gets = {} /\ ~connected
        BY <1>4 DEF Connect, Progress, ConnInv
    <2>3. connected' /\ gets' = {[epoch |-> epoch + 1, read |-> FALSE, val |-> NoNumber]}
        BY <1>4, <2>2 DEF Connect
    <2>4. ConnInv'
        BY <1>2, <2>1, <2>2, <2>3 DEF Progress, ConnInv
    <2>5. NumbersInv'
        <3>1. CoveredNext(changenumber')
            BY <1>3, <2>1, CoveredStable DEF Progress, NumbersInv, TypeOK, PollTypeOK
        <3> QED BY <1>2, <1>3, <2>1, <2>3, <3>1, NumbersStable DEF Progress
    <2> QED BY <1>2, <2>1, <2>4, <2>5 DEF Progress, PollInv, IdleInv, BusyInv, Relevant
<1>5. CASE \E g \in gets : ReadCheckpoint(g)
    <2>1. PICK g \in gets : ReadCheckpoint(g)
        BY <1>5
    <2>2. UNCHANGED <<cp, connected, timer, leaked, currPolling, changenumber, searchnumber, search>>
        BY <2>1 DEF ReadCheckpoint, localVars, pollVars
    <2>3. gets = {g} /\ gets' = {[g EXCEPT !.read = TRUE, !.val = cp]}
        BY <2>1 DEF ReadCheckpoint, Progress, ConnInv
    <2>4. g \in GetRecords
        BY DEF TypeOK, ConnTypeOK
    <2>5. \A h \in gets' : h.val = cp
        BY <2>3, <2>4 DEF GetRecords
    <2>6. ConnInv'
        BY <1>2, <2>2, <2>3 DEF Progress, ConnInv
    <2>7. NumbersInv'
        <3>1. CoveredNext(changenumber')
            BY <1>3, <2>2, CoveredStable DEF Progress, NumbersInv, TypeOK, PollTypeOK
        <3>2. cp = NoNumber \/ CoveredNext(cp)
            BY <1>3, CoveredStable DEF Progress, NumbersInv, TypeOK, LocalTypeOK
        <3> QED BY <1>2, <1>3, <2>2, <2>5, <3>1, <3>2, NumbersStable DEF Progress
    <2> QED BY <1>2, <2>2, <2>6, <2>7 DEF Progress, PollInv, IdleInv, BusyInv, Relevant
<1>6. ASSUME NEW g \in gets, NEW n \in Nat, OnCheckpoint(g, n), CoveredNext(n),
             cp' = cp \/ (cp' \in Nat /\ CoveredNext(cp'))
      PROVE  Progress'
    <2>1. gets' = {} /\ connected /\ worker = "idle" /\ search = NoNumber /\ ~timer /\ ~leaked
        BY <1>6 DEF OnCheckpoint, Progress, ConnInv
    <2>2. changenumber' = n /\ searchnumber' = n /\ connected' = connected
        BY <1>6 DEF OnCheckpoint
    <2>3. leaked' = FALSE
        BY <1>6, <2>1, Zenon DEF OnCheckpoint
    <2>4. ConnInv'
        BY <1>2, <2>1, <2>2, <2>3 DEF ConnInv
    <2>5. PollInv'
        <3>1. CASE currPolling
            BY <1>2, <1>6, <2>1, <3>1 DEF OnCheckpoint, Progress, PollInv
        <3>2. CASE ~currPolling
            BY <1>2, <1>6, <2>1, <3>2 DEF OnCheckpoint, StartSearch, Progress, PollInv
        <3> QED BY <3>1, <3>2
    <2>6. NumbersInv'
        BY <1>2, <1>3, <1>6, <2>1, <2>2, NumbersStable DEF Progress
    <2>7. IdleInv' /\ BusyInv'
        BY <1>2, <2>1, <2>2 DEF Progress, IdleInv, BusyInv
    <2> QED BY <2>4, <2>5, <2>6, <2>7 DEF Progress
<1>7. CASE \E g \in gets : CheckpointFound(g)
    <2>1. PICK g \in gets : CheckpointFound(g)
        BY <1>7
    <2>2. g.val \in Nat
        BY <2>1 DEF CheckpointFound, TypeOK, ConnTypeOK, GetRecords
    <2>3. CoveredNext(g.val)
        BY <1>3, <2>1, <2>2, CoveredStable DEF CheckpointFound, Progress, NumbersInv
    <2> QED BY <1>6, <2>1, <2>2, <2>3 DEF CheckpointFound
<1>8. CASE \E g \in gets : CheckpointCreated(g)
    <2>1. PICK g \in gets : CheckpointCreated(g)
        BY <1>8
    <2>2. Covered(0)
        BY DEF Covered, TypeOK, RemoteTypeOK
    <2>3. CoveredNext(0)
        BY <1>3, <2>2, CoveredStable
    <2> QED BY <1>6, <2>1, <2>3 DEF CheckpointCreated
<1>9. CASE \E g \in gets : CheckpointFailed(g)
    <2>1. PICK g \in gets : CheckpointFailed(g)
        BY <1>9
    <2>2. UNCHANGED <<cp, connected, timer, leaked, currPolling, changenumber, searchnumber, search>>
        BY <2>1 DEF CheckpointFailed, localVars, pollVars
    <2>3. gets' \subseteq gets
        BY <2>1 DEF CheckpointFailed
    <2>4. ConnInv'
        BY <1>2, <2>2, <2>3 DEF Progress, ConnInv
    <2>5. NumbersInv'
        <3>1. CoveredNext(changenumber')
            BY <1>3, <2>2, CoveredStable DEF Progress, NumbersInv, TypeOK, PollTypeOK
        <3> QED BY <1>2, <1>3, <2>2, <2>3, <3>1, NumbersStable DEF Progress
    <2> QED BY <1>2, <2>2, <2>4, <2>5 DEF Progress, PollInv, IdleInv, BusyInv, Relevant
<1> QED BY <1>4, <1>5, <1>7, <1>8, <1>9 DEF ConnectionStep

\* A failed search may have moved searchnumber, but then its record is still
\* in the range of the next one (onSearch, handleClose).
LEMMA SafeAbort ==
    ASSUME TypeOK, Progress, search # NoNumber, AbortSearch,
           UNCHANGED <<clog, worker, queue, queueError, sets>>
    PROVE  IdleInv' /\ PollInv' /\ BusyInv'
<1>1. worker = "idle" /\ search = changenumber
    BY DEF Progress, PollInv
<1>2. \A s \in sets : s.owner # "range"
    BY DEF Progress, PollInv
<1>3. changenumber' = changenumber /\ search' = NoNumber
    BY DEF AbortSearch
<1>4. IdleInv'
    <2>1. CASE UNCHANGED searchnumber
        BY <1>1, <1>3, <2>1 DEF Progress, IdleInv
    <2>2. CASE searchnumber' \in Window
        BY <1>1, <1>3, <2>2 DEF Progress, IdleInv, Window
    <2> QED BY <2>1, <2>2 DEF AbortSearch
<1>5. PollInv' /\ BusyInv'
    BY <1>1, <1>2, <1>3 DEF PollInv, BusyInv
<1> QED BY <1>4, <1>5

\* Polling, failing searches and the loss of an idle connection (poll,
\* onSearch, handleClose).
LEMMA SafePoll ==
    ASSUME TypeOK, Progress, "busydrop" \notin Faults, Poll \/ SearchFails \/ Drop
    PROVE  Progress'
<1>1. /\ UNCHANGED <<clog, nextNumber, handled, sets, cp, gets, queue, worker, cur, queueError>>
      /\ UNCHANGED leaked
    BY DEF Poll, SearchFails, Drop, remoteVars, localVars, connVars, queueVars
<1>2. UNCHANGED changenumber
    BY DEF Poll, SearchFails, Drop, AbortSearch, pollVars
<1>3. NumbersInv'
    <2>1. Grows
        BY <1>1, NothingGrows
    <2>2. CoveredNext(changenumber')
        BY <1>2, <2>1, CoveredStable DEF Progress, NumbersInv, TypeOK, PollTypeOK
    <2> QED BY <1>1, <2>1, <2>2, NumbersStable DEF Progress
<1>4. CASE Poll
    <2>1. /\ ~currPolling /\ currPolling' /\ search' = changenumber /\ connected
          /\ timer /\ UNCHANGED <<connected, timer, searchnumber>>
        BY <1>4 DEF Poll, StartSearch, connVars, Progress, ConnInv
    <2>2. worker = "idle" /\ gets = {} /\ \A s \in sets : s.owner # "range"
        BY <2>1 DEF Progress, PollInv, ConnInv
    <2>3. ConnInv' /\ PollInv'
        BY <1>1, <1>2, <2>1, <2>2 DEF Progress, ConnInv, PollInv
    <2>4. IdleInv' /\ BusyInv'
        BY <1>1, <1>2, <2>1, <2>2 DEF Progress, IdleInv, BusyInv
    <2> QED BY <1>3, <2>3, <2>4 DEF Progress
<1>5. CASE SearchFails
    <2>1. search # NoNumber /\ AbortSearch /\ UNCHANGED <<connected, timer>>
        BY <1>5 DEF SearchFails, connVars
    <2>2. ConnInv'
        BY <1>1, <2>1 DEF Progress, ConnInv, AbortSearch
    <2> QED BY <1>1, <1>3, <2>1, <2>2, SafeAbort DEF Progress
<1>6. CASE Drop
    <2>1. worker = "idle" /\ gets = {} /\ ~connected' /\ ~timer'
        BY <1>6 DEF Drop, Idle, Fault
    <2>2. CASE search = NoNumber
        <3>1. UNCHANGED <<currPolling, changenumber, searchnumber, search>>
            BY <1>6, <2>2 DEF Drop, pollVars
        <3> QED BY <1>1, <1>3, <2>1, <2>2, <3>1 DEF Progress, ConnInv, PollInv, IdleInv, BusyInv
    <2>3. CASE search # NoNumber
        <3>1. AbortSearch
            BY <1>6, <2>3 DEF Drop
        <3>2. ConnInv'
            BY <1>1, <2>1, <3>1 DEF Progress, ConnInv, AbortSearch
        <3> QED BY <1>1, <1>3, <2>3, <3>1, <3>2, SafeAbort DEF Progress
    <2> QED BY <2>2, <2>3
<1> QED BY <1>4, <1>5, <1>6

\* The end of a search: a range without a match is passed as a whole, and a
\* match is queued before the loop moves on (onSearchEnd).
LEMMA SafeSearch ==
    ASSUME TypeOK, Progress, SeenInv, NoNewEntries \/ NoMatchInRange \/ EnqueueMatches
    PROVE  Progress'
<1>1. /\ UNCHANGED <<clog, nextNumber, handled, cp, gets, connected, timer, leaked>>
      /\ search # NoNumber /\ search' = NoNumber /\ seen # NoNumber
    BY DEF SearchEnds, NoNewEntries, NoMatchInRange, EnqueueMatches, remoteVars, localVars, connVars
<1>2. /\ worker = "idle" /\ search = changenumber /\ currPolling
      /\ queue = {} /\ ~queueError
      /\ \A s \in sets : s.owner # "range"
    BY <1>1 DEF Progress, PollInv, IdleInv
<1>3. gets = {} /\ connected
    BY <1>1 DEF Progress, ConnInv
<1>4. Grows
    BY <1>1, NothingGrows
<1>5. DOMAIN clog \subseteq Nat /\ changenumber \in Nat /\ searchnumber \in Nat /\ nextNumber \in Nat
      /\ seen \in Nat
      /\ \A n \in DOMAIN clog : n + 1 <= nextNumber
    BY <1>1 DEF TypeOK, RemoteTypeOK, PollTypeOK
<1>6. ConnInv'
    BY <1>1, <1>3 DEF Progress, ConnInv
<1>7. Covered(changenumber)
    BY DEF Progress, NumbersInv
<1>8. CASE NoNewEntries
    <2>1. UNCHANGED <<changenumber, searchnumber, queue, worker, cur, queueError, sets>>
        BY <1>8 DEF NoNewEntries, queueVars
    <2>2. CoveredNext(changenumber')
        BY <1>4, <1>5, <1>7, <2>1, CoveredStable
    <2>3. NumbersInv'
        BY <1>1, <1>4, <2>1, <2>2, NumbersStable DEF Progress
    <2> QED BY <1>1, <1>2, <1>6, <2>1, <2>3 DEF Progress, PollInv, IdleInv, BusyInv
<1>9. CASE NoMatchInRange
    <2>1. Window # {}
        BY <1>1, <1>2, <1>9 DEF NoMatchInRange, SeenInv, Window
    <2>2. PICK last \in Window :
              /\ Newest(last, Window)
              /\ searchnumber' = last + 1
              /\ changenumber' = last + 1
              /\ sets' = CheckpointSet(last + 1, "range", sets)
        BY <1>9, <2>1 DEF NoMatchInRange, Newest
    <2>3. UNCHANGED <<currPolling, queue, worker, cur, queueError>>
        BY <1>9 DEF NoMatchInRange, queueVars
    <2>4. last \in DOMAIN clog /\ last + 1 \in Nat
        BY <1>5, <2>2 DEF Window
    <2>5. Covered(last + 1)
        <3>1. ASSUME NEW m \in DOMAIN clog, m < last + 1, Relevant(m) PROVE m \in handled
            <4>1. CASE m < changenumber
                BY <1>7, <3>1, <4>1 DEF Covered
            <4>2. CASE ~(m < changenumber)
                <5>1. m \in Window
                    BY SizeAssumption, <1>2, <1>5, <2>2, <3>1, <4>2 DEF Window
                <5> QED BY <1>9, <3>1, <5>1 DEF NoMatchInRange
            <4> QED BY <4>1, <4>2
        <3> QED BY <1>5, <2>4, <3>1 DEF Covered
    <2>6. CoveredNext(last + 1)
        BY <1>4, <2>4, <2>5, CoveredStable
    <2>7. \A s \in sets' : s \in sets \/ (s.n = last + 1 /\ s.owner = "range"
                                             /\ s = [n |-> last + 1, owner |-> "range", committed |-> FALSE])
        BY <2>2 DEF CheckpointSet
    <2>8. NumbersInv'
        BY <1>1, <1>4, <2>2, <2>6, <2>7, NumbersStable DEF Progress
    <2>9. PollInv'
        BY <1>1, <1>2, <2>3, <2>7 DEF PollInv
    <2>10. IdleInv' /\ BusyInv'
        BY <1>2, <2>2, <2>3 DEF IdleInv, BusyInv
    <2> QED BY <1>6, <2>8, <2>9, <2>10 DEF Progress
<1>10. CASE EnqueueMatches
    <2>1. PICK last \in Window : Newest(last, Window) /\ searchnumber' = last
        BY <1>10 DEF EnqueueMatches
    <2>2. /\ queue' = {n \in Window : Relevant(n)} /\ worker' = "begin" /\ ~queueError'
          /\ UNCHANGED <<currPolling, changenumber, cur, queueError, sets>>
        BY <1>2, <1>10 DEF EnqueueMatches
    <2>3. \A n \in Window : n \in DOMAIN clog /\ changenumber <= n /\ n <= last
                              /\ n <= changenumber + QueueSize
        BY <1>2, <2>1 DEF Window, Newest
    <2>4. ASSUME NEW m \in DOMAIN clog, m <= last, Relevant(m) PROVE m \in handled \cup queue'
        <3>1. CASE m < changenumber
            BY <1>7, <2>4, <3>1 DEF Covered
        <3>2. CASE ~(m < changenumber)
            BY SizeAssumption, <1>2, <1>5, <2>1, <2>2, <2>3, <2>4, <3>2 DEF Window
        <3> QED BY <3>1, <3>2
    <2>5. CoveredNext(changenumber')
        BY <1>4, <1>5, <1>7, <2>2, CoveredStable
    <2>6. NumbersInv'
        BY <1>1, <1>4, <2>2, <2>5, NumbersStable DEF Progress
    <2>7. PollInv' /\ IdleInv'
        BY <1>1, <1>2, <2>2 DEF PollInv, IdleInv
    <2>8. BusyInv'
        <3>1. /\ searchnumber' \in DOMAIN clog'
              /\ changenumber' <= searchnumber' + 1
              /\ searchnumber' <= changenumber' + QueueSize
              /\ \A n \in queue' : changenumber' <= n /\ n <= searchnumber'
            BY <1>1, <1>5, <2>1, <2>2, <2>3
        <3>2. \A m \in DOMAIN clog' :
                  m <= searchnumber' /\ CouldReplicate(clog'[m]) => m \in handled' \cup queue'
            BY <1>1, <2>1, <2>4 DEF Relevant
        <3> QED BY <2>2, <3>1, <3>2 DEF BusyInv, Relevant
    <2> QED BY <1>6, <2>6, <2>7, <2>8 DEF Progress
<1> QED BY <1>8, <1>9, <1>10

\* What the remote looks at is what it has published so far.
LEMMA SafeLook == ASSUME TypeOK, Progress, Look PROVE Progress'
<1>1. UNCHANGED <<clog, nextNumber, handled, cp, connected, gets, timer, leaked, currPolling,
                  changenumber, searchnumber, search, queue, worker, cur, queueError, sets>>
    BY DEF Look, remoteVars, localVars, connVars, queueVars
<1> QED BY <1>1 DEF Progress, ConnInv, PollInv, NumbersInv, IdleInv, BusyInv, Covered, Relevant

\* A record is done: the queue goes on with the next, or onDrain jumps past
\* the range, which is only safe when no record of it was skipped; otherwise
\* the last record received keeps the next search from passing it.
LEMMA SafeEntryDone ==
    ASSUME TypeOK, Progress, worker # "idle",
           UNCHANGED <<clog, nextNumber, handled, cp, gets, connected, timer, leaked>>,
           NEW n \in queue, NEW error \in BOOLEAN, NEW pending, pending \subseteq sets,
           EntryDone(n, error, pending),
           \/ error /\ worker \in {"begin", "op"}
           \/ worker = "set" /\ n = cur
    PROVE  Progress'
<1>1. /\ DOMAIN clog \subseteq Nat /\ changenumber \in Nat /\ searchnumber \in Nat /\ nextNumber \in Nat
      /\ \A m \in DOMAIN clog : m + 1 <= nextNumber
      /\ queue \subseteq Nat /\ cur \in Nat
    BY DEF TypeOK, RemoteTypeOK, PollTypeOK, QueueTypeOK
<1>2. search = NoNumber /\ gets = {} /\ connected /\ \A s \in sets : s.owner # "range"
    BY DEF Progress, ConnInv, PollInv
<1>3. /\ searchnumber \in DOMAIN clog
      /\ changenumber <= searchnumber + 1
      /\ searchnumber <= changenumber + QueueSize
      /\ \A m \in queue : m <= searchnumber
      /\ worker \in {"begin", "op"} => \A m \in queue : changenumber <= m
      /\ worker = "set" => /\ cur \in queue /\ ~queueError /\ \A m \in queue : cur <= m
                           /\ cur \in handled /\ changenumber = cur + 1
      /\ ~queueError =>
            \A m \in DOMAIN clog : m <= searchnumber /\ Relevant(m) => m \in handled \cup queue
    BY DEF Progress, BusyInv
<1>4. Grows
    BY NothingGrows
<1>5. ConnInv'
    BY <1>2 DEF Progress, ConnInv, EntryDone
<1>6. search' = NoNumber /\ queue' = queue \ {n}
    BY <1>2 DEF EntryDone
<1>7. CASE queue \subseteq {n}
    <2>1. /\ worker' = "idle" /\ ~queueError' /\ queue' = {}
          /\ searchnumber' = searchnumber + 1
          /\ changenumber' = IF error THEN changenumber ELSE searchnumber + 1
          /\ sets' = IF error THEN pending ELSE CheckpointSet(searchnumber + 1, "none", pending)
        BY <1>6, <1>7 DEF EntryDone
    <2>2. \A s \in sets' : s \in sets \/ (~error /\ s.n = searchnumber + 1 /\ s.owner = "none")
        BY <2>1 DEF CheckpointSet
    <2>3. CoveredNext(changenumber')
        <3>1. CASE error
            BY <1>1, <1>4, <2>1, <3>1, CoveredStable DEF Progress, NumbersInv
        <3>2. CASE ~error
            <4>1. \A m \in DOMAIN clog : m < searchnumber + 1 /\ Relevant(m) => m \in handled
                BY <1>1, <1>3, <1>7, <3>2
            <4>2. Covered(searchnumber + 1)
                BY <1>1, <1>3, <4>1 DEF Covered
            <4> QED BY <1>1, <1>4, <2>1, <3>2, <4>2, CoveredStable
        <3> QED BY <3>1, <3>2
    <2>4. NumbersInv'
        BY <1>4, <2>1, <2>2, <2>3, NumbersStable DEF Progress
    <2>5. PollInv'
        BY <1>2, <1>6, <2>1, <2>2 DEF PollInv
    <2>6. IdleInv'
        <3>1. CASE changenumber' = searchnumber'
            BY <2>1, <3>1 DEF IdleInv
        <3>2. CASE changenumber' # searchnumber'
            <4>1. changenumber' = changenumber /\ changenumber <= searchnumber
                BY <1>1, <1>3, <2>1, <3>2
            <4> QED BY <1>3, <2>1, <4>1 DEF IdleInv
        <3> QED BY <3>1, <3>2
    <2> QED BY <1>5, <2>1, <2>4, <2>5, <2>6 DEF Progress, BusyInv
<1>8. CASE ~(queue \subseteq {n})
    <2>1. /\ worker' = "begin" /\ queueError' = error /\ sets' = pending
          /\ UNCHANGED <<currPolling, changenumber, searchnumber>>
        BY <1>8 DEF EntryDone
    <2>2. CoveredNext(changenumber')
        BY <1>1, <1>4, <2>1, CoveredStable DEF Progress, NumbersInv
    <2>3. NumbersInv'
        BY <1>4, <2>1, <2>2, NumbersStable DEF Progress
    <2>4. PollInv' /\ IdleInv'
        BY <1>2, <1>6, <2>1 DEF Progress, PollInv, IdleInv
    <2>5. BusyInv'
        <3>1. \A m \in queue' : changenumber <= m /\ m <= searchnumber
            BY <1>1, <1>3, <1>6
        <3>2. ~error => \A m \in DOMAIN clog : m <= searchnumber /\ Relevant(m) => m \in handled \cup queue'
            BY <1>3, <1>6
        <3> QED BY <1>3, <2>1, <3>1, <3>2 DEF BusyInv, Relevant
    <2> QED BY <1>5, <2>3, <2>4, <2>5 DEF Progress
<1> QED BY <1>7, <1>8

\* A record is handled and the number after it is sent to the checkpoint:
\* the queue is sorted, so every record before it was handled (update).
LEMMA SafeUpdate ==
    ASSUME TypeOK, Progress, worker = "op",
           UNCHANGED <<clog, nextNumber, cp, gets, connected, timer, leaked>>,
           Update
    PROVE  Progress'
<1>1. /\ DOMAIN clog \subseteq Nat /\ changenumber \in Nat /\ searchnumber \in Nat /\ nextNumber \in Nat
      /\ \A m \in DOMAIN clog : m + 1 <= nextNumber
      /\ queue \subseteq DOMAIN clog /\ cur \in Nat
    BY DEF TypeOK, RemoteTypeOK, PollTypeOK, QueueTypeOK
<1>2. search = NoNumber /\ gets = {} /\ connected /\ \A s \in sets : s.owner # "range"
    BY DEF Progress, ConnInv, PollInv
<1>3. /\ searchnumber \in DOMAIN clog
      /\ searchnumber <= changenumber + QueueSize
      /\ \A m \in queue : m <= searchnumber /\ changenumber <= m /\ cur <= m
      /\ cur \in queue /\ ~queueError
      /\ \A m \in DOMAIN clog : m <= searchnumber /\ Relevant(m) => m \in handled \cup queue
    BY DEF Progress, BusyInv
<1>4. /\ handled' = handled \cup {cur} /\ changenumber' = cur + 1
      /\ sets' = CheckpointSet(cur + 1, "entry", sets)
      /\ worker' \in {"set", "stuck"}
      /\ UNCHANGED <<currPolling, searchnumber, caughtUp, search, queue, cur, queueError>>
    BY DEF Update
<1>5. Grows
    BY <1>1, <1>4 DEF Grows
<1>6. CoveredNext(cur + 1)
    <2>1. cur + 1 <= nextNumber'
        BY <1>1, <1>3
    <2>2. ASSUME NEW m \in DOMAIN clog', m < cur + 1, CouldReplicate(clog'[m]) PROVE m \in handled'
        <3>1. m \in DOMAIN clog /\ m <= searchnumber /\ Relevant(m)
            BY <1>1, <1>3, <2>2 DEF Relevant
        <3>2. m \in handled \/ m = cur
            BY <1>1, <1>3, <2>2, <3>1
        <3> QED BY <1>4, <3>2
    <2> QED BY <2>1, <2>2 DEF CoveredNext
<1>7. \A s \in sets' : s \in sets \/ (s.n = cur + 1 /\ s.owner = "entry")
    BY <1>4 DEF CheckpointSet
<1>8. NumbersInv'
    BY <1>4, <1>5, <1>6, <1>7, NumbersStable DEF Progress
<1>9. ConnInv' /\ PollInv' /\ IdleInv'
    BY <1>2, <1>4, <1>7 DEF Progress, ConnInv, PollInv, IdleInv
<1>10. BusyInv'
    <2>1. /\ changenumber' <= searchnumber' + 1
          /\ searchnumber' <= changenumber' + QueueSize
        BY SizeAssumption, <1>1, <1>3, <1>4
    <2>2. \A m \in DOMAIN clog' :
              m <= searchnumber' /\ CouldReplicate(clog'[m]) => m \in handled' \cup queue'
        BY <1>3, <1>4 DEF Relevant
    <2> QED BY <1>3, <1>4, <2>1, <2>2 DEF BusyInv, Relevant
<1> QED BY <1>8, <1>9, <1>10 DEF Progress

\* The worker's steps: every branch of ops.add, ops.modify and ops.del, and
\* every error, ends in Update or in EntryDone (handleEntry).
LEMMA SafeWorker ==
    ASSUME TypeOK, Progress,
           \/ WorkerStep \/ OperationFails \/ OperationAnswerLost \/ OperationRejected
    PROVE  Progress'
<1>1. UNCHANGED <<clog, nextNumber, cp, gets, connected, timer, leaked>>
    BY DEF WorkerStep, TakeEntry, RefuseVersion, ReplicateAdd, ReplicateModify, ReplicateDelete,
           OperationFails, OperationAnswerLost, OperationRejected, remoteVars, localVars, connVars
<1>2. CASE TakeEntry
    <2>1. PICK n \in queue :
            /\ \A m \in queue : n <= m
            /\ IF queueError THEN EntryDone(n, TRUE, sets)
               ELSE worker' = "op" /\ cur' = n /\ UNCHANGED <<pollVars, queue, queueError, sets>>
        BY <1>2 DEF TakeEntry
    <2>2. worker = "begin" /\ UNCHANGED handled
        BY <1>2 DEF TakeEntry
    <2>3. CASE queueError
        BY <1>1, <2>1, <2>2, <2>3, SafeEntryDone
    <2>4. CASE ~queueError
        <3>1. /\ worker' = "op" /\ cur' = n
              /\ UNCHANGED <<currPolling, changenumber, searchnumber, search, queue, queueError, sets>>
            BY <2>1, <2>4 DEF pollVars
        <3>2. CoveredNext(changenumber')
            BY <1>1, <2>2, <3>1, NothingGrows, CoveredStable DEF Progress, NumbersInv, TypeOK, PollTypeOK
        <3>3. NumbersInv'
            BY <1>1, <2>2, <3>1, <3>2, NothingGrows, NumbersStable DEF Progress
        <3>4. ConnInv' /\ PollInv' /\ IdleInv'
            BY <1>1, <2>2, <3>1 DEF Progress, ConnInv, PollInv, IdleInv
        <3>5. BusyInv'
            BY <1>1, <2>1, <2>2, <2>4, <3>1 DEF Progress, BusyInv, Relevant
        <3> QED BY <3>3, <3>4, <3>5 DEF Progress
    <2> QED BY <2>3, <2>4
<1>3. CASE worker = "op" /\ EntryDone(cur, TRUE, sets) /\ UNCHANGED handled
    <2>1. cur \in queue
        BY <1>3 DEF Progress, BusyInv
    <2> QED BY <1>1, <1>3, <2>1, SafeEntryDone
<1>4. CASE worker = "op" /\ Update
    BY <1>1, <1>4, SafeUpdate
<1>5. CASE \/ RefuseVersion \/ OperationFails \/ OperationAnswerLost \/ OperationRejected
    BY <1>3, <1>5 DEF RefuseVersion, OperationFails, OperationAnswerLost, OperationRejected
<1>6. CASE ReplicateAdd \/ ReplicateModify \/ ReplicateDelete
    <2>1. /\ worker = "op"
          /\ \/ AddEntry(clog[cur]) \/ DeleteLocal(clog[cur]) \/ SkipChange \/ ModifyLocal(clog[cur])
        BY <1>6 DEF ReplicateAdd, ReplicateModify, ReplicateDelete, Handling
    <2>2. Update \/ (EntryDone(cur, TRUE, sets) /\ UNCHANGED handled)
        BY <2>1 DEF AddEntry, DeleteLocal, SkipChange, ModifyLocal
    <2> QED BY <1>3, <1>4, <2>1, <2>2
<1> QED BY <1>2, <1>5, <1>6 DEF WorkerStep

\* Checkpoint writes are committed, in any order, and answered; each of them
\* carries a safe number (Checkpoint.set, updateChangenumber).
LEMMA SafeCheckpoint ==
    ASSUME TypeOK, Progress, NEW s \in sets,
           CommitCheckpoint(s) \/ AnswerCheckpoint(s) \/ LoseCheckpoint(s)
    PROVE  Progress'
<1>1. UNCHANGED <<clog, nextNumber, handled, gets, connected, timer, leaked>>
    BY DEF CommitCheckpoint, AnswerCheckpoint, LoseCheckpoint, remoteVars, connVars
<1>2. Grows
    BY <1>1, NothingGrows
<1>3. s \in SetRecords /\ s.n \in Nat
    BY DEF TypeOK, SetRecords
<1>4. CASE CommitCheckpoint(s) \/ LoseCheckpoint(s)
    <2>1. UNCHANGED <<currPolling, changenumber, searchnumber, search, queue, worker, cur, queueError>>
        BY <1>4 DEF CommitCheckpoint, LoseCheckpoint, pollVars, queueVars
    <2>2. \A t \in sets' : t \in sets \ {s} \/ (t = [s EXCEPT !.committed = TRUE])
        BY <1>4 DEF CommitCheckpoint, LoseCheckpoint
    <2>3. \A t \in sets' : t \in sets \ {s} \/ (t.n = s.n /\ t.owner = s.owner
                                                    /\ t = [s EXCEPT !.committed = TRUE])
        BY <1>3, <2>2 DEF SetRecords
    <2>4. CoveredNext(changenumber')
        BY <1>2, <2>1, CoveredStable DEF Progress, NumbersInv, TypeOK, PollTypeOK
    <2>5. cp' = cp \/ (cp' \in Nat /\ CoveredNext(cp'))
        <3>1. CoveredNext(s.n)
            BY <1>2, <1>3, CoveredStable DEF Progress, NumbersInv
        <3> QED BY <1>3, <1>4, <3>1 DEF CommitCheckpoint, LoseCheckpoint, localVars
    <2>6. NumbersInv'
        BY <1>1, <1>2, <2>1, <2>3, <2>4, <2>5, NumbersStable DEF Progress
    <2>7. PollInv'
        BY <2>1, <2>3 DEF Progress, PollInv
    <2> QED BY <1>1, <2>1, <2>6, <2>7 DEF Progress, ConnInv, IdleInv, BusyInv, Relevant
<1>5. CASE AnswerCheckpoint(s)
    <2>1. PICK error \in BOOLEAN :
            \/ s.owner = "entry" /\ worker = "set" /\ EntryDone(cur, error, sets \ {s})
            \/ /\ s.owner = "range"
               /\ currPolling' = FALSE
               /\ sets' = sets \ {s}
               /\ UNCHANGED <<changenumber, searchnumber, caughtUp, search, seen, queueVars>>
        BY <1>5 DEF AnswerCheckpoint
    <2>2. UNCHANGED cp
        BY <1>5 DEF AnswerCheckpoint, localVars
    <2>3. CASE worker = "set" /\ EntryDone(cur, error, sets \ {s})
        <3>1. cur \in queue
            BY <2>3 DEF Progress, BusyInv
        <3> QED BY <1>1, <2>2, <2>3, <3>1, SafeEntryDone
    <2>4. CASE /\ s.owner = "range"
               /\ currPolling' = FALSE
               /\ sets' = sets \ {s}
               /\ UNCHANGED <<changenumber, searchnumber, caughtUp, search, seen, queueVars>>
        <3>1. UNCHANGED <<queue, worker, cur, queueError>>
            BY <2>4 DEF queueVars
        <3>2. worker = "idle" /\ search = NoNumber
              /\ \A t \in sets' : t.owner # "range"
            BY <2>4 DEF Progress, PollInv
        <3>3. CoveredNext(changenumber')
            BY <1>2, <2>4, CoveredStable DEF Progress, NumbersInv, TypeOK, PollTypeOK
        <3>4. NumbersInv'
            BY <1>1, <1>2, <2>2, <2>4, <3>3, NumbersStable DEF Progress
        <3> QED BY <1>1, <2>4, <3>1, <3>2, <3>4
                DEF Progress, ConnInv, PollInv, IdleInv, BusyInv
    <2> QED BY <2>1, <2>3, <2>4
<1> QED BY <1>4, <1>5

\* A process that stops forgets its numbers; what it had sent is still safe
\* to commit (replicator.js, SMF).
LEMMA SafeProcess == ASSUME TypeOK, Progress, Crash \/ Exit \/ Restart PROVE Progress'
<1>1. UNCHANGED <<clog, nextNumber, handled, cp>>
    BY DEF Crash, Exit, Restart, Halt, remoteVars, localVars
<1>2. Grows
    BY <1>1, NothingGrows
<1>3. CASE Restart
    <2>1. UNCHANGED <<connected, gets, timer, leaked, currPolling, changenumber, searchnumber, search,
                      queue, worker, cur, queueError, sets>>
        BY <1>3 DEF Restart, pollVars, queueVars
    <2>2. CoveredNext(changenumber')
        BY <1>2, <2>1, CoveredStable DEF Progress, NumbersInv, TypeOK, PollTypeOK
    <2>3. NumbersInv'
        BY <1>1, <1>2, <2>1, <2>2, NumbersStable DEF Progress
    <2> QED BY <1>1, <2>1, <2>3 DEF Progress, ConnInv, PollInv, IdleInv, BusyInv, Relevant
<1>4. CASE Crash \/ Exit
    <2>1. Halt
        BY <1>4 DEF Crash, Exit
    <2>2. \A s \in sets' : s.owner = "none" /\ \E t \in sets : t.n = s.n
        BY <2>1 DEF Halt, TypeOK, SetRecords
    <2>3. Covered(0)
        BY DEF Covered, TypeOK, RemoteTypeOK
    <2>4. CoveredNext(changenumber')
        BY <1>2, <2>1, <2>3, CoveredStable DEF Halt
    <2>5. NumbersInv'
        BY <1>1, <1>2, <2>1, <2>2, <2>4, NumbersStable DEF Progress, Halt
    <2>6. /\ leaked' = FALSE /\ gets' = {} /\ worker' = "idle" /\ search' = NoNumber /\ timer' = FALSE
          /\ queue' = {} /\ queueError' = FALSE /\ searchnumber' = changenumber'
        BY <2>1 DEF Halt
    <2> QED BY <2>2, <2>5, <2>6 DEF Progress, ConnInv, PollInv, IdleInv, BusyInv
<1> QED BY <1>3, <1>4

\* Only the remote's own steps change what it has published.
LEMMA PublishStep ==
    ASSUME [Next]_vars PROVE UNCHANGED <<clog, nextNumber>> \/ RemoteWrite \/ RemoteAbort
<1>1. CASE UNCHANGED vars
    BY <1>1 DEF vars, remoteVars
<1>2. CASE Poll \/ ConnectionStep \/ SearchStep \/ CheckpointStep \/ Exit \/ Restart
    BY <1>2 DEF Poll, ConnectionStep, Connect, ReadCheckpoint, CheckpointFound, CheckpointCreated,
       OnCheckpoint, SearchStep, Look, NoNewEntries, NoMatchInRange, EnqueueMatches,
       CheckpointStep, CommitCheckpoint, AnswerCheckpoint, Exit, Restart, Halt, remoteVars
<1>3. CASE FaultStep
    BY <1>3 DEF FaultStep, Drop, SearchFails, OperationFails, OperationAnswerLost,
       OperationRejected, CheckpointFailed, LoseCheckpoint, Crash, Halt, remoteVars
<1>4. CASE WorkerStep
    BY <1>4 DEF WorkerStep, TakeEntry, RefuseVersion, ReplicateAdd, ReplicateModify,
       ReplicateDelete, remoteVars
<1> QED BY <1>1, <1>2, <1>3, <1>4 DEF Next

LEMMA SeenInit == Init => SeenInv
BY DEF Init, SeenInv, NoNumber

\* The search that the remote has looked at for is the one under way, since
\* the poll loop rests until it ends; what is published then comes later.
LEMMA SeenStep == ASSUME IInv, TypeOK', [Next]_vars PROVE SeenInv'
<1> DEFINE Same == UNCHANGED <<search, seen, changenumber, searchnumber>>
<1>1. /\ search # NoNumber => worker = "idle" /\ gets = {}
      /\ seen # NoNumber => search # NoNumber
      /\ search' \in Nat \cup {NoNumber} /\ seen' \in Nat \cup {NoNumber}
    BY DEF IInv, ConnInv, PollInv, SeenInv, TypeOK, PollTypeOK
<1>2. seen' = NoNumber \/ Look \/ Same
    <2>1. CASE RemoteWrite \/ RemoteAbort \/ Poll \/ Exit \/ Restart \/ UNCHANGED vars
        BY <2>1 DEF RemoteWrite, RemoteAbort, Poll, StartSearch, Exit, Restart, Halt, vars, pollVars
    <2>2. CASE ConnectionStep
        BY <1>1, <2>2 DEF ConnectionStep, Connect, ReadCheckpoint, CheckpointFound, CheckpointCreated,
           OnCheckpoint, StartSearch, pollVars
    <2>3. CASE SearchStep
        BY <2>3 DEF SearchStep, NoNewEntries, NoMatchInRange, EnqueueMatches, SearchEnds
    <2>4. CASE WorkerStep \/ OperationFails \/ OperationAnswerLost \/ OperationRejected
        <3>1. worker # "idle"
            BY <2>4 DEF WorkerStep, TakeEntry, RefuseVersion, ReplicateAdd, ReplicateModify,
               ReplicateDelete, Handling, OperationFails, OperationAnswerLost, OperationRejected
        <3>2. UNCHANGED seen
            BY <2>4 DEF WorkerStep, TakeEntry, RefuseVersion, ReplicateAdd, ReplicateModify,
               ReplicateDelete, AddEntry, DeleteLocal, SkipChange, ModifyLocal, Update, EntryDone,
               OperationFails, OperationAnswerLost, OperationRejected, pollVars
        <3> QED BY <1>1, <3>1, <3>2
    <2>5. CASE CheckpointStep \/ \E s \in sets : LoseCheckpoint(s)
        BY <1>1, <2>5 DEF CheckpointStep, CommitCheckpoint, AnswerCheckpoint, LoseCheckpoint,
           EntryDone, pollVars
    <2>6. CASE Drop \/ SearchFails \/ Crash \/ \E g \in gets : CheckpointFailed(g)
        BY <2>6 DEF Drop, SearchFails, AbortSearch, Crash, Halt, CheckpointFailed, pollVars
    <2> QED BY <2>1, <2>2, <2>3, <2>4, <2>5, <2>6 DEF Next, FaultStep
<1>3. /\ DOMAIN clog \subseteq Nat /\ \A n \in DOMAIN clog : n < nextNumber
      /\ nextNumber \in Nat /\ nextNumber' \in Nat
    BY DEF IInv, TypeOK, RemoteTypeOK
<1>4. nextNumber <= nextNumber' /\ DOMAIN clog \subseteq DOMAIN clog'
    <2>1. CASE UNCHANGED <<clog, nextNumber>>
        BY <1>3, <2>1
    <2>2. CASE RemoteWrite \/ RemoteAbort
        BY <1>3, <2>2 DEF RemoteWrite, RemoteAdd, RemoteModify, RemoteDelete, Record, RemoteAbort
    <2> QED BY <2>1, <2>2, PublishStep
<1>5. CASE Look
    <2>1. /\ seen' = nextNumber /\ search # NoNumber /\ worker = "idle"
          /\ UNCHANGED <<clog, nextNumber, search, changenumber, searchnumber>>
        BY <1>1, <1>5 DEF Look, remoteVars
    <2> QED BY <1>3, <2>1 DEF IInv, IdleInv, SeenInv
<1>6. CASE Same
    <2>1. seen \in Nat \cup {NoNumber} /\ seen' = seen /\ NoNumber = -1
        BY <1>1, <1>6 DEF NoNumber
    <2>2. seen <= nextNumber => seen <= nextNumber'
        BY <1>3, <1>4, <2>1
    <2> QED BY <1>4, <1>6, <2>2 DEF IInv, SeenInv
<1> QED BY <1>2, <1>5, <1>6 DEF SeenInv

\* Every step keeps the invariant, as long as the connection is not lost
\* while the queue is processed.
LEMMA SafeStep ==
    ASSUME IInv, "busydrop" \notin Faults, [Next]_vars PROVE IInv'
<1>1. TypeOK /\ Progress
    BY DEF IInv, Progress
<1>2. TypeOK'
    <2>1. TypeInv
        BY <1>1 DEF TypeInv, Progress, BusyInv
    <2> QED BY <2>1, TypeStep DEF TypeInv
<1>3. Progress'
    <2>1. CASE RemoteWrite \/ RemoteAbort
        BY <1>1, <2>1, SafeRemote
    <2>2. CASE ConnectionStep \/ \E g \in gets : CheckpointFailed(g)
        BY <1>1, <2>2, SafeConnection
    <2>3. CASE Poll \/ SearchFails \/ Drop
        BY <1>1, <2>3, SafePoll
    <2>4. CASE SearchStep
        BY <1>1, <2>4, SafeSearch, SafeLook DEF IInv, SearchStep
    <2>5. CASE WorkerStep \/ OperationFails \/ OperationAnswerLost \/ OperationRejected
        BY <1>1, <2>5, SafeWorker
    <2>6. CASE \E s \in sets : CommitCheckpoint(s) \/ AnswerCheckpoint(s) \/ LoseCheckpoint(s)
        BY <1>1, <2>6, SafeCheckpoint
    <2>7. CASE Crash \/ Exit \/ Restart
        BY <1>1, <2>7, SafeProcess
    <2>8. CASE UNCHANGED vars
        <3>1. UNCHANGED <<clog, nextNumber, handled, cp, connected, gets, timer, leaked, currPolling,
                          changenumber, searchnumber, search, queue, worker, cur, queueError, sets>>
            BY <2>8 DEF vars, remoteVars, localVars, connVars, pollVars, queueVars
        <3> QED BY <1>1, <3>1 DEF Progress, ConnInv, PollInv, NumbersInv, IdleInv, BusyInv, Covered, Relevant
    <2> QED BY <2>1, <2>2, <2>3, <2>4, <2>5, <2>6, <2>7, <2>8 DEF Next, FaultStep, CheckpointStep
<1>4. SeenInv'
    BY <1>2, SeenStep
<1> QED BY <1>2, <1>3, <1>4 DEF IInv, Progress

\* However long the process runs, crashes, is restarted and reconnects, and
\* in whatever order its checkpoint writes are committed, the checkpoint
\* never passes a record it has not applied (updateChangenumber, onDrain,
\* onSearchEnd, Checkpoint.set), unless the connection closes while the
\* queue is processed.
THEOREM NoSkipHolds ==
    ASSUME "busydrop" \notin Faults PROVE Spec => []NoSkip
<1>1. Init => IInv
    BY TypeInit, SafeInit, SeenInit DEF TypeInv, IInv, Progress
<1>2. IInv /\ [Next]_vars => IInv'
    BY SafeStep
<1>3. IInv => NoSkip
    BY DEF IInv, NumbersInv, NoSkip
<1> QED BY <1>1, <1>2, <1>3, PTL DEF Spec

-----------------------------------------------------------------------------
(***************************************************************************)
(* The version gate and the end of the changelog                           *)
(***************************************************************************)

\* How a step changes what was published and what was applied.
LEMMA HandledStep ==
    ASSUME [Next]_vars
    PROVE  \/ UNCHANGED <<clog, handled>>
           \/ RemoteWrite
           \/ /\ worker = "op" /\ ~VersionTooNew(clog[cur])
              /\ UNCHANGED clog /\ handled' = handled \cup {cur}
<1>1. CASE UNCHANGED vars
    BY <1>1 DEF vars, remoteVars
<1>2. CASE RemoteAbort \/ Poll \/ ConnectionStep \/ SearchStep \/ CheckpointStep \/ Exit \/ Restart
    BY <1>2 DEF RemoteAbort, Poll, ConnectionStep, Connect, ReadCheckpoint, CheckpointFound,
       CheckpointCreated, OnCheckpoint, SearchStep, Look, NoNewEntries, NoMatchInRange, EnqueueMatches,
       CheckpointStep, CommitCheckpoint, AnswerCheckpoint, Exit, Restart, Halt, remoteVars
<1>3. CASE FaultStep
    BY <1>3 DEF FaultStep, Drop, SearchFails, OperationFails, OperationAnswerLost, OperationRejected,
       CheckpointFailed, LoseCheckpoint, Crash, Halt, remoteVars
<1>4. CASE TakeEntry \/ RefuseVersion
    BY <1>4 DEF TakeEntry, RefuseVersion, remoteVars
<1>5. CASE ReplicateAdd \/ ReplicateModify \/ ReplicateDelete
    <2>1. /\ worker = "op" /\ ~VersionTooNew(clog[cur]) /\ UNCHANGED clog
          /\ \/ AddEntry(clog[cur]) \/ DeleteLocal(clog[cur]) \/ SkipChange \/ ModifyLocal(clog[cur])
        BY <1>5 DEF ReplicateAdd, ReplicateModify, ReplicateDelete, Handling, remoteVars
    <2> QED BY <2>1 DEF AddEntry, DeleteLocal, SkipChange, ModifyLocal, Update
<1> QED BY <1>1, <1>2, <1>3, <1>4, <1>5 DEF Next, WorkerStep

\* A new record has a number above all others (changelog.js).
LEMMA RecordLast ==
    ASSUME TypeOK, NEW change, Record(change)
    PROVE  /\ nextNumber \in Nat /\ nextNumber <= MaxChange /\ nextNumber' = nextNumber + 1
           /\ DOMAIN clog \subseteq Nat \ {0} /\ \A m \in DOMAIN clog : m < nextNumber
           /\ DOMAIN clog' = DOMAIN clog \cup {nextNumber}
           /\ clog'[nextNumber] = change
           /\ \A m \in DOMAIN clog : clog'[m] = clog[m]
<1>1. /\ nextNumber \in Nat /\ DOMAIN clog \subseteq Nat \ {0}
      /\ \A m \in DOMAIN clog : m < nextNumber
    BY DEF TypeOK, RemoteTypeOK
<1> QED BY <1>1 DEF Record

\* A write of the remote appends one record.
LEMMA WriteRecords ==
    ASSUME RemoteWrite PROVE UNCHANGED handled /\ \E change : Record(change)
BY DEF RemoteWrite, RemoteAdd, RemoteModify, RemoteDelete

\* The record that is handled next comes after every record that was
\* refused, since that one is still in the queue (handleEntry).
LEMMA BarrierStep ==
    ASSUME IInv, VersionBarrier, [Next]_vars PROVE VersionBarrier'
<1>1. TypeOK /\ BusyInv
    BY DEF IInv
<1>2. CASE UNCHANGED <<clog, handled>>
    BY <1>2 DEF VersionBarrier, Relevant
<1>3. CASE RemoteWrite
    <2>1. PICK change : Record(change)
        BY <1>3, WriteRecords
    <2>2. handled \subseteq DOMAIN clog /\ UNCHANGED handled
        BY <1>1, <1>3, WriteRecords DEF TypeOK
    <2> QED BY <1>1, <2>1, <2>2, RecordLast DEF VersionBarrier, Relevant
<1>4. CASE /\ worker = "op" /\ ~VersionTooNew(clog[cur])
           /\ UNCHANGED clog /\ handled' = handled \cup {cur}
    <2>1. /\ DOMAIN clog \subseteq Nat /\ queue \subseteq DOMAIN clog /\ cur \in queue /\ ~queueError
          /\ \A m \in queue : cur <= m /\ m <= searchnumber
          /\ \A m \in DOMAIN clog : m <= searchnumber /\ Relevant(m) => m \in handled \cup queue
        BY <1>1, <1>4 DEF TypeOK, RemoteTypeOK, QueueTypeOK, BusyInv
    <2>2. searchnumber \in Nat
        BY <1>1 DEF TypeOK, PollTypeOK
    <2>3. ASSUME NEW m \in DOMAIN clog, VersionTooNew(clog[m]), Relevant(m) PROVE cur < m
        <3>1. m # cur
            BY <1>4, <2>3
        <3>2. CASE m < cur
            <4>1. m \in handled \cup queue
                BY <2>1, <2>2, <2>3, <3>2
            <4>2. m \notin queue
                BY <2>1, <3>2
            <4>3. m < m
                BY <2>3, <4>1, <4>2 DEF VersionBarrier
            <4> QED BY <2>1, <4>3
        <3> QED BY <2>1, <3>1, <3>2
    <2> QED BY <1>4, <2>3 DEF VersionBarrier, Relevant
<1> QED BY <1>2, <1>3, <1>4, HandledStep

\* The invariant of the poll loop and the queue holds.
LEMMA IInvAlways == ASSUME "busydrop" \notin Faults PROVE Spec => []IInv
<1>1. Init => IInv
    BY TypeInit, SafeInit, SeenInit DEF TypeInv, IInv, Progress
<1>2. IInv /\ [Next]_vars => IInv'
    BY SafeStep
<1> QED BY <1>1, <1>2, PTL DEF Spec

\* Nothing published after a schema version that this UFDS does not have is
\* ever applied, through all restarts and retries (the version check of
\* handleEntry and the sorted queue behind it).
THEOREM VersionBarrierHolds ==
    ASSUME "busydrop" \notin Faults PROVE Spec => []VersionBarrier
<1>1. Init => VersionBarrier
    BY DEF Init, VersionBarrier
<1>2. IInv /\ VersionBarrier /\ [Next]_vars => VersionBarrier'
    BY BarrierStep
<1> QED BY <1>1, <1>2, IInvAlways, PTL DEF Spec

-----------------------------------------------------------------------------
\* From any number that is not above the newest record, the next record is
\* at most MaxGap + 1 numbers away.
GapInv ==
    /\ \A k \in DOMAIN clog, a \in Nat : a <= k =>
          \E n \in DOMAIN clog : a <= n /\ n <= a + MaxGap + 1
    /\ \E n \in DOMAIN clog \cup {0} : nextNumber <= n + MaxGap + 1

\* A gap grows by one number at a time, and no further than MaxGap.
LEMMA GapStep ==
    ASSUME TypeOK, GapInv, [Next]_vars PROVE GapInv'
<1>1. CASE UNCHANGED <<clog, nextNumber>>
    BY <1>1 DEF GapInv
<1>2. CASE RemoteAbort
    <2>1. PICK n \in DOMAIN clog \cup {0} : nextNumber <= n + MaxGap
        BY <1>2 DEF RemoteAbort
    <2>2. UNCHANGED clog /\ nextNumber' = nextNumber + 1
        BY <1>2 DEF RemoteAbort
    <2>3. DOMAIN clog \subseteq Nat /\ nextNumber \in Nat
        BY DEF TypeOK, RemoteTypeOK
    <2>4. nextNumber' <= n + MaxGap + 1
        BY SizeAssumption, <2>1, <2>2, <2>3
    <2> QED BY <2>1, <2>2, <2>4 DEF GapInv
<1>3. CASE RemoteWrite
    <2>1. PICK change : Record(change)
        BY <1>3, WriteRecords
    <2>2. /\ nextNumber \in Nat /\ nextNumber' = nextNumber + 1
          /\ DOMAIN clog \subseteq Nat /\ DOMAIN clog' = DOMAIN clog \cup {nextNumber}
        BY <2>1, RecordLast
    <2>3. nextNumber' <= nextNumber + MaxGap + 1
        BY SizeAssumption, <2>2
    <2>4. ASSUME NEW k \in DOMAIN clog', NEW a \in Nat, a <= k
          PROVE  \E n \in DOMAIN clog' : a <= n /\ n <= a + MaxGap + 1
        <3>1. CASE \E m \in DOMAIN clog : a <= m
            BY <2>2, <3>1 DEF GapInv
        <3>2. CASE ~\E m \in DOMAIN clog : a <= m
            <4>1. k = nextNumber
                BY <2>2, <2>4, <3>2
            <4>2. PICK n \in DOMAIN clog \cup {0} : nextNumber <= n + MaxGap + 1
                BY DEF GapInv
            <4>3. n \in Nat /\ n <= a
                BY <2>2, <3>2, <4>2
            <4>4. nextNumber <= a + MaxGap + 1
                BY SizeAssumption, <2>2, <4>2, <4>3
            <4> QED BY <2>2, <2>4, <4>1, <4>4
        <3> QED BY <3>1, <3>2
    <2> QED BY <2>2, <2>3, <2>4 DEF GapInv
<1> QED BY <1>1, <1>2, <1>3, PublishStep

\* Only the end of an empty search announces "caughtup" (onSearchEnd).
LEMMA CaughtUpStep ==
    ASSUME [Next]_vars, caughtUp', ~caughtUp PROVE NoNewEntries
<1>1. CASE UNCHANGED vars
    BY <1>1 DEF vars, pollVars
<1>2. CASE RemoteWrite \/ RemoteAbort \/ Poll \/ ConnectionStep \/ Exit \/ Restart
    BY <1>2 DEF RemoteWrite, RemoteAbort, Poll, ConnectionStep, Connect, ReadCheckpoint, CheckpointFound,
       CheckpointCreated, OnCheckpoint, Exit, Restart, Halt, pollVars
<1>3. CASE Look \/ NoMatchInRange \/ EnqueueMatches
    BY <1>3, Zenon DEF Look, NoMatchInRange, EnqueueMatches
<1>4. CASE CheckpointStep
    BY <1>4 DEF CheckpointStep, CommitCheckpoint, AnswerCheckpoint, EntryDone, pollVars
<1>5. CASE FaultStep
    BY <1>5 DEF FaultStep, Drop, SearchFails, AbortSearch, OperationFails, OperationAnswerLost,
       OperationRejected, CheckpointFailed, LoseCheckpoint, Crash, Halt, EntryDone, pollVars
<1>6. CASE TakeEntry \/ RefuseVersion
    BY <1>6 DEF TakeEntry, RefuseVersion, EntryDone, pollVars
<1>7. CASE ReplicateAdd \/ ReplicateModify \/ ReplicateDelete
    <2>1. AddEntry(clog[cur]) \/ DeleteLocal(clog[cur]) \/ SkipChange \/ ModifyLocal(clog[cur])
        BY <1>7 DEF ReplicateAdd, ReplicateModify, ReplicateDelete
    <2> QED BY <2>1 DEF AddEntry, DeleteLocal, SkipChange, ModifyLocal, Update, EntryDone
<1> QED BY <1>1, <1>2, <1>3, <1>4, <1>5, <1>6, <1>7 DEF Next, SearchStep, WorkerStep

\* "caughtup" is emitted only when every record that was there when the
\* remote evaluated the search has been applied, provided that no gap in the
\* changenumbers is as wide as the range of one search (onSearchEnd).
THEOREM CaughtUpHolds ==
    ASSUME "busydrop" \notin Faults, MaxGap < QueueSize PROVE Spec => CaughtUpComplete
<1> DEFINE Complete ==
        /\ seen # NoNumber
        /\ \A n \in DOMAIN clog : n < seen /\ Relevant(n) => n \in handled
<1>1. ASSUME IInv, GapInv, [Next]_vars, caughtUp', ~caughtUp PROVE Complete
    <2>1. /\ search = changenumber /\ Window = {} /\ seen # NoNumber
        BY <1>1, CaughtUpStep DEF NoNewEntries, SearchEnds, IInv, PollInv
    <2>2. /\ DOMAIN clog \subseteq Nat /\ changenumber \in Nat /\ seen \in Nat
        BY <1>1, <2>1 DEF IInv, TypeOK, RemoteTypeOK, PollTypeOK
    <2>3. ASSUME NEW k \in DOMAIN clog, changenumber <= k, k < seen PROVE FALSE
        <3>1. PICK n \in DOMAIN clog :
                    changenumber <= n /\ n <= changenumber + MaxGap + 1 /\ n < seen
            <4>1. PICK n \in DOMAIN clog : changenumber <= n /\ n <= changenumber + MaxGap + 1
                BY <1>1, <2>2, <2>3 DEF GapInv
            <4>2. CASE n <= k
                BY <2>2, <2>3, <4>1, <4>2
            <4>3. CASE k < n
                BY SizeAssumption, <2>2, <2>3, <4>1, <4>3
            <4> QED BY <2>2, <4>2, <4>3
        <3>2. n \in Window
            BY SizeAssumption, <2>1, <2>2, <3>1 DEF Window
        <3> QED BY <2>1, <3>2
    <2>4. Covered(changenumber)
        BY <1>1 DEF IInv, NumbersInv
    <2> QED BY <2>1, <2>2, <2>3, <2>4 DEF Covered
<1>2. IInv /\ GapInv /\ [Next]_vars => [caughtUp' /\ ~caughtUp => Complete]_vars
    BY <1>1
<1>3. Init => GapInv
    <2>1. Init => DOMAIN clog = {} /\ nextNumber = 1
        BY DEF Init
    <2> QED BY <2>1, SizeAssumption DEF GapInv
<1>4. IInv /\ GapInv /\ [Next]_vars => GapInv'
    BY GapStep DEF IInv
<1> QED BY <1>2, <1>3, <1>4, IInvAlways, PTL DEF Spec, CaughtUpComplete

-----------------------------------------------------------------------------
(***************************************************************************)
(* The replay of the changelog: each record once, in order, with the       *)
(* selected entries of the remote as the result.                           *)
(***************************************************************************)

\* A DN some query covers.
InScope(dn) == \E q \in Queries : dn \in q.scope

Live(change) == change.type # "delete"

Before(log, p, n) == p < n /\ log[p].dn = log[n].dn

DeletedBetween(log, p, n) ==
    \E d \in DOMAIN log : p < d /\ d < n /\ log[d].dn = log[n].dn /\ ~Live(log[d])

\* Record n could follow the earlier records of its DN: an add finds no
\* entry, a modify finds one and keeps its class.
Follows(log, n) ==
    /\ \A p \in DOMAIN log : Before(log, p, n) /\ Live(log[p]) =>
          \/ DeletedBetween(log, p, n)
          \/ log[n].type = "modify" /\ log[p].entry.cls = log[n].entry.cls
    /\ log[n].type = "modify" =>
          /\ log[n].attr = "data"
          /\ \E p \in DOMAIN log : /\ Before(log, p, n) /\ Live(log[p])
                                   /\ log[p].entry.cls = log[n].entry.cls
                                   /\ ~DeletedBetween(log, p, n)

History(log) ==
    \A n \in DOMAIN log : InScope(log[n].dn) /\ Live(log[n]) => Follows(log, n)

\* entry is what the records of dn whose numbers are in S leave behind.
Leaves(log, S, dn, entry) ==
    \/ /\ entry = None
       /\ \A p \in S : log[p].dn = dn /\ Live(log[p]) =>
             \E d \in S : p < d /\ log[d].dn = dn /\ ~Live(log[d])
    \/ \E r \in S : /\ log[r].dn = dn /\ Live(log[r]) /\ log[r].entry = entry
                    /\ \A n \in S : log[n].dn = dn => n <= r

\* The remote is what all records leave behind, the replica what the handled
\* records do.
Mirrors ==
    \A dn \in DNs : InScope(dn) =>
        /\ Leaves(clog, DOMAIN clog, dn, remote[dn])
        /\ Leaves(clog, handled, dn, local[dn])

\* No entry that a query covers is there before the replicator is.
Bootstrapped == \A dn \in DNs : InScope(dn) => remote[dn] = None

MatchedOnly == \A n \in handled \cup queue : Relevant(n)

\* n is above every number that was handled.
Above(n) == \A h \in handled : h < n

\* The replay so far, and what may be asked for next: no handled record.
ReplayInv == Mirrors /\ History(clog) /\ MatchedOnly /\ Above(changenumber) /\ ~exiting

\* What the two theorems about the replay suppose of the constants: an entry
\* keeps its class, and the local UFDS can delete what is replicated.
PlainReplay ==
    /\ MutableAttrs \subseteq {"data"}
    /\ \A dn \in NonLeaf : ~InScope(dn)

\* One record more, the newest, leaves behind what it says.
LEMMA LeavesNext ==
    ASSUME NEW log, NEW next, NEW S, S \subseteq Nat, NEW c \in Nat,
           \A m \in S : m < c /\ next[m] = log[m],
           NEW dn, NEW entry, NEW result, Leaves(log, S, dn, entry),
           IF next[c].dn = dn
             THEN result = IF Live(next[c]) THEN next[c].entry ELSE None
             ELSE result = entry
    PROVE  Leaves(next, S \cup {c}, dn, result)
<1>1. CASE next[c].dn # dn
    BY <1>1 DEF Leaves, Live
<1>2. CASE next[c].dn = dn /\ Live(next[c])
    <2>1. \A n \in S \cup {c} : n <= c
        OBVIOUS
    <2> QED BY <1>2, <2>1 DEF Leaves
<1>3. CASE next[c].dn = dn /\ ~Live(next[c])
    <2>1. \A p \in S \cup {c} : Live(next[p]) => p < c
        BY <1>3
    <2> QED BY <1>3, <2>1 DEF Leaves
<1> QED BY <1>1, <1>2, <1>3

\* A record covers its DN, and a delete is replicated whatever it deletes.
LEMMA ScopeOfRelevant ==
    ASSUME NEW n
    PROVE  /\ Relevant(n) => InScope(clog[n].dn)
           /\ InScope(clog[n].dn) /\ ~Live(clog[n]) => Relevant(n)
           /\ Relevant(n) /\ Live(clog[n]) => Eligible(clog[n].dn, clog[n].entry)
           /\ Eligible(clog[n].dn, clog[n].entry) => Relevant(n)
BY DEF Relevant, CouldReplicate, InScope, Live, Eligible

-----------------------------------------------------------------------------
\* The writes of the remote append a history.
LEMMA WriteHistory ==
    ASSUME TypeOK, History(clog), PlainReplay,
           \A dn \in DNs : InScope(dn) => Leaves(clog, DOMAIN clog, dn, remote[dn]),
           RemoteWrite
    PROVE  /\ History(clog')
           /\ \A dn \in DNs : InScope(dn) => Leaves(clog', DOMAIN clog', dn, remote'[dn])
           /\ \E change \in Changes : Record(change)
<1>1. PICK dn \in DNs :
        \/ \E entry \in Entries : RemoteAdd(dn, entry)
        \/ \E attr \in Attrs, entry \in Entries : RemoteModify(dn, attr, entry)
        \/ RemoteDelete(dn)
    BY DEF RemoteWrite
<1>2. /\ remote \in [DNs -> MaybeEntry]
      /\ remote[dn] # None => remote[dn] \in Entries
      /\ \A n \in DOMAIN clog : clog[n] \in Changes
    BY DEF MaybeEntry, TypeOK, RemoteTypeOK
<1>3. PICK change \in Changes :
        /\ Record(change) /\ change.dn = dn
        /\ remote' = [remote EXCEPT ![dn] = IF Live(change) THEN change.entry ELSE None]
        /\ change.type = "add" => remote[dn] = None
        /\ change.type = "modify" =>
              remote[dn] # None /\ change.attr = "data" /\ change.entry.cls = remote[dn].cls
    <2>1. ASSUME NEW entry \in Entries, RemoteAdd(dn, entry)
          PROVE  \E change \in Changes :
                    /\ Record(change) /\ change.dn = dn
                    /\ remote' = [remote EXCEPT ![dn] = IF Live(change) THEN change.entry ELSE None]
                    /\ change.type = "add" => remote[dn] = None
                    /\ change.type = "modify" =>
                          remote[dn] # None /\ change.attr = "data" /\ change.entry.cls = remote[dn].cls
        <3>1. Change("add", dn, "data", entry) \in Changes
            BY DEF Change, Changes, Attrs
        <3> QED BY <2>1, <3>1 DEF RemoteAdd, Change, Live
    <2>2. ASSUME NEW attr \in Attrs, NEW entry \in Entries, RemoteModify(dn, attr, entry)
          PROVE  \E change \in Changes :
                    /\ Record(change) /\ change.dn = dn
                    /\ remote' = [remote EXCEPT ![dn] = IF Live(change) THEN change.entry ELSE None]
                    /\ change.type = "add" => remote[dn] = None
                    /\ change.type = "modify" =>
                          remote[dn] # None /\ change.attr = "data" /\ change.entry.cls = remote[dn].cls
        <3>1. Change("modify", dn, attr, entry) \in Changes
            BY DEF Change, Changes, Attrs
        <3>2. attr = "data"
            BY <2>2 DEF RemoteModify, PlainReplay
        <3>3. entry.cls = remote[dn].cls
            BY <2>2, <3>2 DEF RemoteModify, ApplyChanges, Change
        <3> QED BY <2>2, <3>1, <3>2, <3>3 DEF RemoteModify, Change, Live
    <2>3. ASSUME RemoteDelete(dn)
          PROVE  \E change \in Changes :
                    /\ Record(change) /\ change.dn = dn
                    /\ remote' = [remote EXCEPT ![dn] = IF Live(change) THEN change.entry ELSE None]
                    /\ change.type = "add" => remote[dn] = None
                    /\ change.type = "modify" =>
                          remote[dn] # None /\ change.attr = "data" /\ change.entry.cls = remote[dn].cls
        <3>2. remote[dn] \in Entries
            BY <1>2, <2>3 DEF RemoteDelete
        <3>1. Change("delete", dn, "data", remote[dn]) \in Changes
            BY <3>2 DEF Change, Changes, Attrs
        <3> QED BY <2>3, <3>1 DEF RemoteDelete, Change, Live
    <2> QED BY <1>1, <2>1, <2>2, <2>3
<1> DEFINE new == nextNumber
<1>4. /\ new \in Nat /\ DOMAIN clog \subseteq Nat /\ \A m \in DOMAIN clog : m < new
      /\ DOMAIN clog' = DOMAIN clog \cup {new} /\ clog'[new] = change
      /\ \A m \in DOMAIN clog : clog'[m] = clog[m]
    BY <1>3, RecordLast
<1> HIDE DEF new
<1>5. \A d \in DNs : InScope(d) => Leaves(clog', DOMAIN clog', d, remote'[d])
    <2> SUFFICES ASSUME NEW d \in DNs, InScope(d) PROVE Leaves(clog', DOMAIN clog', d, remote'[d])
        OBVIOUS
    <2>1. IF change.dn = d
            THEN remote'[d] = IF Live(change) THEN change.entry ELSE None
            ELSE remote'[d] = remote[d]
        <3>1. /\ remote \in [DNs -> MaybeEntry] /\ change.dn = dn
              /\ remote' = [remote EXCEPT ![dn] = IF Live(change) THEN change.entry ELSE None]
            BY <1>2, <1>3
        <3> QED BY <3>1
    <2>2. Leaves(clog, DOMAIN clog, d, remote[d])
        OBVIOUS
    <2> QED BY <1>4, <2>1, <2>2, LeavesNext
<1>6. ASSUME NEW n \in DOMAIN clog, Follows(clog, n) PROVE Follows(clog', n)
    <2>1. \A p \in DOMAIN clog' : p < n => p \in DOMAIN clog /\ clog'[p] = clog[p]
        BY <1>4
    <2>2. /\ \A p \in DOMAIN clog' : p < n => (DeletedBetween(clog', p, n) <=> DeletedBetween(clog, p, n))
          /\ clog'[n] = clog[n]
        BY <1>4, <2>1 DEF DeletedBetween
    <2> QED BY <1>4, <1>6, <2>1, <2>2 DEF Follows, Before
<1>7. ASSUME InScope(dn), Live(change) PROVE Follows(clog', new)
    <2>1. Leaves(clog, DOMAIN clog, dn, remote[dn])
        BY <1>7
    <2>2. \A p \in DOMAIN clog' : Before(clog', p, new) => p \in DOMAIN clog /\ clog[p].dn = dn
        BY <1>3, <1>4 DEF Before
    <2>3. CASE remote[dn] = None
        <3>1. \A p \in DOMAIN clog : clog[p].dn = dn /\ Live(clog[p]) =>
                 \E d \in DOMAIN clog : p < d /\ clog[d].dn = dn /\ ~Live(clog[d])
            BY <1>2, <2>1, <2>3, NoneAssumption DEF Leaves, Changes
        <3>2. \A p \in DOMAIN clog : clog[p].dn = dn /\ Live(clog[p]) => DeletedBetween(clog', p, new)
            BY <1>3, <1>4, <3>1 DEF DeletedBetween
        <3> QED BY <1>3, <1>4, <2>2, <2>3, <3>2 DEF Follows, Before
    <2>4. CASE remote[dn] # None
        <3>1. PICK r \in DOMAIN clog : /\ clog[r].dn = dn /\ Live(clog[r]) /\ clog[r].entry = remote[dn]
                                       /\ \A n \in DOMAIN clog : clog[n].dn = dn => n <= r
            BY <2>1, <2>4 DEF Leaves
        <3>2. clog'[new].type = "modify" /\ clog'[new].attr = "data" /\ clog'[new].entry.cls = clog[r].entry.cls
            BY <1>3, <1>4, <1>7, <2>4, <3>1 DEF Live, Changes
        <3>3. ~DeletedBetween(clog', r, new) /\ Before(clog', r, new)
            BY <1>3, <1>4, <3>1 DEF DeletedBetween, Before
        <3>4. ASSUME NEW p \in DOMAIN clog', Before(clog', p, new), Live(clog'[p])
              PROVE  DeletedBetween(clog', p, new) \/ clog'[p].entry.cls = clog'[new].entry.cls
            <4>1. p \in DOMAIN clog /\ clog[p].dn = dn /\ clog'[p] = clog[p] /\ p <= r
                BY <1>4, <2>2, <3>1, <3>4
            <4>2. CASE p = r
                BY <3>2, <4>1, <4>2
            <4>3. CASE p < r
                <5>1. Follows(clog, r)
                    BY <1>7, <3>1 DEF History
                <5>2. Before(clog, p, r)
                    BY <3>1, <4>1, <4>3 DEF Before
                <5>3. DeletedBetween(clog, p, r) \/ clog[p].entry.cls = clog[r].entry.cls
                    BY <3>4, <4>1, <5>1, <5>2 DEF Follows
                <5>4. DeletedBetween(clog, p, r) => DeletedBetween(clog', p, new)
                    BY <1>3, <1>4, <3>1 DEF DeletedBetween
                <5> QED BY <3>2, <4>1, <5>3, <5>4
            <4>4. p \in Nat /\ r \in Nat
                BY <1>4, <4>1
            <4> QED BY <4>1, <4>2, <4>3, <4>4
        <3> QED BY <1>4, <3>1, <3>2, <3>3, <3>4 DEF Follows
    <2> QED BY <2>3, <2>4
<1>8. History(clog')
    BY <1>3, <1>4, <1>6, <1>7 DEF History
<1> QED BY <1>3, <1>5, <1>8

\* What a step may do to the two directories and to what was handled.
LEMMA ReplayStep ==
    ASSUME [Next]_vars, Faults \cap {"lost", "reject", "crash"} = {}, ~exiting
    PROVE  \/ UNCHANGED <<remote, clog, local, handled, exiting>>
           \/ RemoteWrite /\ UNCHANGED <<local, handled, exiting>>
           \/ ReplicateAdd \/ ReplicateModify \/ ReplicateDelete
<1>1. CASE UNCHANGED vars
    BY <1>1 DEF vars, remoteVars, localVars, connVars
<1>2. CASE RemoteWrite
    BY <1>2 DEF RemoteWrite, localVars, connVars
<1>3. CASE RemoteAbort \/ Poll \/ ConnectionStep \/ SearchStep \/ CheckpointStep \/ Restart
    BY <1>3 DEF RemoteAbort, Poll, ConnectionStep, Connect, ReadCheckpoint, CheckpointFound,
       CheckpointCreated, OnCheckpoint, SearchStep, Look, NoNewEntries, NoMatchInRange, EnqueueMatches,
       CheckpointStep, CommitCheckpoint, AnswerCheckpoint, Restart, remoteVars, localVars, connVars
<1>4. CASE FaultStep
    <2>1. \/ Drop \/ SearchFails \/ OperationFails
          \/ \E g \in gets : CheckpointFailed(g)
          \/ \E s \in sets : LoseCheckpoint(s)
        BY <1>4 DEF FaultStep, OperationAnswerLost, OperationRejected, Crash, Fault
    <2> QED BY <2>1 DEF Drop, SearchFails, OperationFails, CheckpointFailed, LoseCheckpoint,
            remoteVars, localVars, connVars
<1>5. CASE TakeEntry \/ RefuseVersion
    BY <1>5 DEF TakeEntry, RefuseVersion, remoteVars, localVars, connVars
<1>6. CASE Exit
    BY <1>6 DEF Exit
<1> QED BY <1>1, <1>2, <1>3, <1>4, <1>5, <1>6 DEF Next, WorkerStep

\* The record being handled is the next of the replay.
LEMMA NextRecord ==
    ASSUME IInv, ReplayInv, worker = "op"
    PROVE  /\ cur \in DOMAIN clog /\ cur \in Nat /\ Relevant(cur)
           /\ handled \subseteq DOMAIN clog /\ DOMAIN clog \subseteq Nat
           /\ \A h \in handled : h < cur /\ Relevant(h)
           /\ \A m \in DOMAIN clog : m < cur /\ Relevant(m) => m \in handled
<1>1. /\ cur \in queue /\ searchnumber \in Nat /\ changenumber \in Nat
      /\ \A n \in queue : cur <= n /\ changenumber <= n /\ n <= searchnumber
      /\ \A m \in DOMAIN clog : m <= searchnumber /\ Relevant(m) => m \in handled \cup queue
    BY DEF IInv, BusyInv, TypeOK, PollTypeOK
<1>2. /\ cur \in Nat /\ queue \subseteq DOMAIN clog /\ handled \subseteq DOMAIN clog
      /\ DOMAIN clog \subseteq Nat
    BY DEF IInv, TypeOK, QueueTypeOK, RemoteTypeOK
<1>3. \A h \in handled : h < cur
    BY <1>1, <1>2 DEF ReplayInv, Above
<1>4. \A m \in DOMAIN clog : m < cur /\ Relevant(m) => m \in handled
    BY <1>1, <1>2
<1> QED BY <1>1, <1>2, <1>3, <1>4 DEF ReplayInv, MatchedOnly

\* Handling a record without an error makes the replica's entry what the
\* record says: none of the other scenarios of ops.add, ops.modify and
\* ops.del can occur.
LEMMA HandleRecord ==
    ASSUME IInv, ReplayInv, PlainReplay, ReplicateAdd \/ ReplicateModify \/ ReplicateDelete
    PROVE  /\ worker = "op" /\ ~VersionTooNew(clog[cur])
           /\ Update /\ UNCHANGED <<remote, clog, nextNumber, exiting, cp, gets, connected>>
           /\ local' = [local EXCEPT ![clog[cur].dn] =
                            IF Live(clog[cur]) THEN clog[cur].entry ELSE None]
<1>1. worker = "op" /\ ~VersionTooNew(clog[cur])
    BY DEF ReplicateAdd, ReplicateModify, ReplicateDelete, Handling
<1>2. UNCHANGED <<remote, clog, nextNumber, cp, gets, connected>>
    BY DEF ReplicateAdd, ReplicateModify, ReplicateDelete, remoteVars
<1> DEFINE dn == clog[cur].dn
<1>3. /\ cur \in DOMAIN clog /\ cur \in Nat /\ Relevant(cur) /\ InScope(dn)
      /\ handled \subseteq DOMAIN clog /\ DOMAIN clog \subseteq Nat
      /\ \A h \in handled : h < cur /\ Relevant(h)
      /\ \A m \in DOMAIN clog : m < cur /\ Relevant(m) => m \in handled
    BY <1>1, NextRecord, ScopeOfRelevant
<1>4. /\ clog[cur] \in Changes /\ dn \in DNs /\ local \in [DNs -> MaybeEntry]
      /\ clog[cur].type \in {"add", "modify", "delete"} /\ clog[cur].entry \in Entries
    BY <1>3 DEF IInv, TypeOK, RemoteTypeOK, LocalTypeOK, Changes
<1>5. Leaves(clog, handled, dn, local[dn])
    BY <1>3, <1>4 DEF ReplayInv, Mirrors
<1> DEFINE From(r) == /\ r \in handled /\ clog[r].dn = dn /\ Live(clog[r]) /\ clog[r].entry = local[dn]
                      /\ \A n \in handled : clog[n].dn = dn => n <= r
<1>6. ASSUME NEW p \in DOMAIN clog, DeletedBetween(clog, p, cur)
      PROVE  \E d \in handled : p < d /\ clog[d].dn = dn /\ ~Live(clog[d])
    <2>1. PICK d \in DOMAIN clog : p < d /\ d < cur /\ clog[d].dn = dn /\ ~Live(clog[d])
        BY <1>6 DEF DeletedBetween
    <2>2. d \in handled
        BY <1>3, <2>1, ScopeOfRelevant
    <2> QED BY <2>1, <2>2
<1>7. ASSUME NEW r, From(r) PROVE ~DeletedBetween(clog, r, cur)
    <2>1. r \in DOMAIN clog /\ \A d \in handled : clog[d].dn = dn => ~(r < d)
        BY <1>3, <1>7
    <2> QED BY <1>6, <2>1
<1>8. ASSUME NEW r, From(r)
      PROVE  /\ local[dn] \in Entries /\ local[dn] # None /\ Matches(local[dn])
             /\ r \in DOMAIN clog /\ Before(clog, r, cur)
    <2>1. r \in DOMAIN clog /\ clog[r] \in Changes /\ Relevant(r)
        BY <1>3, <1>8 DEF IInv, TypeOK, RemoteTypeOK
    <2>2. local[dn] \in Entries /\ local[dn] # None
        BY <1>8, <2>1, NoneAssumption DEF Changes
    <2>3. Matches(local[dn])
        BY <1>8, <2>1 DEF Relevant, CouldReplicate, Matches, Live
    <2> QED BY <1>3, <1>8, <2>1, <2>2, <2>3 DEF Before
<1>9. Live(clog[cur]) => Follows(clog, cur) /\ Matches(clog[cur].entry)
    BY <1>3 DEF ReplayInv, History, Relevant, CouldReplicate, Matches, Live
<1> HIDE DEF From
<1>10. local[dn] = None \/ \E r : From(r)
    BY <1>5 DEF Leaves, From
<1>11. CASE clog[cur].type = "add"
    <2>1. ~\E r : From(r)
        <3> SUFFICES ASSUME NEW r, From(r) PROVE FALSE
            OBVIOUS
        <3>1. r \in DOMAIN clog /\ Before(clog, r, cur) /\ Live(clog[r])
            BY <1>8 DEF From
        <3> QED BY <1>7, <1>9, <1>11, <3>1 DEF Follows, Live
    <2>2. local[dn] = None
        BY <1>10, <2>1
    <2>3. AddEntry(clog[cur])
        BY <1>11 DEF ReplicateAdd, ReplicateModify, ReplicateDelete, Handling
    <2> QED BY <1>1, <1>2, <1>11, <2>2, <2>3 DEF AddEntry, Live
<1>12. CASE clog[cur].type = "modify"
    <2>1. PICK p \in DOMAIN clog : Before(clog, p, cur) /\ Live(clog[p])
                                   /\ clog[p].entry.cls = clog[cur].entry.cls
                                   /\ ~DeletedBetween(clog, p, cur)
        BY <1>9, <1>12 DEF Follows, Live
    <2>2. p \in handled
        <3>1. Relevant(p)
            BY <1>3, <1>12, <2>1 DEF Relevant, CouldReplicate, Before, Live
        <3> QED BY <1>3, <2>1, <3>1 DEF Before
    <2>3. \E r : From(r)
        <3>1. ~\E d \in handled : p < d /\ clog[d].dn = dn /\ ~Live(clog[d])
            BY <1>3, <2>1 DEF DeletedBetween
        <3> QED BY <1>5, <2>1, <2>2, <3>1 DEF Leaves, From, Before
    <2>4. PICK r : From(r)
        BY <2>3
    <2>5. /\ local[dn] \in Entries /\ local[dn] # None
          /\ r \in DOMAIN clog /\ Before(clog, r, cur) /\ Live(clog[r]) /\ clog[r].entry = local[dn]
        BY <1>8, <2>4 DEF From
    <2>6. clog[r].entry.cls = clog[cur].entry.cls /\ clog[cur].attr = "data"
        BY <1>7, <1>9, <1>12, <2>4, <2>5 DEF Follows, Live
    <2>7. ApplyChanges(local[dn], clog[cur]) = clog[cur].entry
        BY <1>4, <2>5, <2>6 DEF ApplyChanges, Entries
    <2>8. ModifyLocal(clog[cur])
        <3>1. ReplicateModify
            BY <1>12 DEF ReplicateAdd, ReplicateDelete, Handling
        <3>2. Matches(clog[cur].entry)
            BY <1>9, <1>12 DEF Live
        <3> QED BY <2>5, <3>1, <3>2 DEF ReplicateModify
    <2> QED BY <1>1, <1>2, <1>4, <1>12, <2>7, <2>8 DEF ModifyLocal, Live
<1>13. CASE clog[cur].type = "delete"
    <2>1. ReplicateDelete
        BY <1>13 DEF ReplicateAdd, ReplicateModify, Handling
    <2>2. CASE local[dn] = None
        <3>1. SkipChange
            BY <2>1, <2>2 DEF ReplicateDelete
        <3>2. local = [local EXCEPT ![dn] = None]
            BY <1>4, <2>2
        <3> QED BY <1>1, <1>2, <1>13, <3>1, <3>2 DEF SkipChange, Live
    <2>3. CASE local[dn] # None
        <3>1. Matches(local[dn])
            BY <1>8, <1>10, <2>3
        <3>2. DeleteLocal(clog[cur])
            BY <2>1, <2>3, <3>1 DEF ReplicateDelete
        <3>3. dn \notin NonLeaf
            BY <1>3 DEF PlainReplay
        <3> QED BY <1>1, <1>2, <1>13, <3>2, <3>3 DEF DeleteLocal, Live
    <2> QED BY <2>2, <2>3
<1> QED BY <1>4, <1>11, <1>12, <1>13

\* What a checkpoint read returned is above every number that was handled.
ReadsAbove == \A g \in gets : g.read => Above(g.val)

\* The faults under which nothing is applied behind the process's back and
\* the process keeps its numbers.
Steady == Faults \cap {"lost", "reject", "crash", "busydrop"} = {}

\* After an operation the next number to ask for is above the record.
LEMMA NumberUpdate ==
    ASSUME IInv, ReplayInv, worker = "op", Update, UNCHANGED clog
    PROVE  Above(changenumber)' /\ MatchedOnly'
<1>1. /\ handled' = handled \cup {cur} /\ changenumber' = cur + 1 /\ queue' = queue /\ cur \in queue
      /\ cur \in Nat /\ handled \subseteq Nat /\ \A h \in handled : h < cur
    BY NextRecord DEF Update, IInv, BusyInv
<1>2. Above(changenumber)'
    BY <1>1 DEF Above
<1> QED BY <1>1, <1>2 DEF ReplayInv, MatchedOnly, Relevant

\* At the end of a record the number stays or jumps past the range.
LEMMA NumberEntryDone ==
    ASSUME IInv, ReplayInv, worker # "idle", UNCHANGED <<handled, clog>>,
           NEW n, NEW error, NEW pending, EntryDone(n, error, pending)
    PROVE  Above(changenumber)' /\ MatchedOnly'
<1>1. /\ changenumber <= searchnumber + 1 /\ changenumber \in Nat /\ searchnumber \in Nat
      /\ handled \subseteq Nat /\ \A h \in handled : h < changenumber
    BY DEF IInv, BusyInv, TypeOK, PollTypeOK, RemoteTypeOK, ReplayInv, Above
<1>2. /\ queue' \subseteq queue
      /\ changenumber' \in {changenumber, searchnumber + 1}
    BY DEF EntryDone
<1>3. Above(changenumber)'
    BY <1>1, <1>2 DEF Above
<1> QED BY <1>2, <1>3 DEF ReplayInv, MatchedOnly, Relevant

\* The number to ask for stays above everything handled, and only matching
\* records are queued.
LEMMA NumberStep ==
    ASSUME IInv, ReplayInv, ReadsAbove, PlainReplay, Steady, [Next]_vars
    PROVE  Above(changenumber)' /\ MatchedOnly'
<1>1. /\ TypeOK /\ handled \subseteq DOMAIN clog /\ queue \subseteq DOMAIN clog /\ DOMAIN clog \subseteq Nat
      /\ changenumber \in Nat /\ searchnumber \in Nat
      /\ \A h \in handled : h < changenumber
      /\ \A n \in handled \cup queue : Relevant(n)
    BY DEF IInv, TypeOK, PollTypeOK, QueueTypeOK, RemoteTypeOK, ReplayInv, Above, MatchedOnly
<1>2. CASE UNCHANGED <<clog, handled, queue, changenumber>>
    BY <1>1, <1>2 DEF Above, MatchedOnly, Relevant
<1>3. CASE RemoteWrite
    <2>1. \A m \in DOMAIN clog : clog'[m] = clog[m]
        BY <1>1, <1>3, WriteRecords, RecordLast
    <2>2. UNCHANGED <<handled, queue, changenumber>>
        BY <1>3 DEF RemoteWrite, pollVars, queueVars
    <2> QED BY <1>1, <2>1, <2>2 DEF Above, MatchedOnly, Relevant
<1>4. CASE NoMatchInRange
    <2>1. search = changenumber /\ worker = "idle"
        BY <1>4 DEF NoMatchInRange, SearchEnds, IInv, PollInv
    <2>2. Window # {}
        <3>1. Window = {} => changenumber # searchnumber
            BY <1>4 DEF NoMatchInRange
        <3>2. searchnumber = changenumber \/ Window # {}
            BY <1>4, <2>1 DEF NoMatchInRange, SearchEnds, IInv, SeenInv, Window
        <3> QED BY <3>1, <3>2
    <2>3. \E last \in Window : changenumber' = last + 1
        BY <1>4, <2>2 DEF NoMatchInRange, Newest
    <2>4. \A last \in Window : last \in Nat /\ changenumber <= last
        BY <1>1, <2>1 DEF Window
    <2>5. Above(changenumber)'
        BY <1>1, <1>4, <2>3, <2>4 DEF Above, NoMatchInRange
    <2>6. UNCHANGED <<clog, handled, queue>>
        BY <1>4 DEF NoMatchInRange, remoteVars, queueVars
    <2> QED BY <1>1, <2>5, <2>6 DEF MatchedOnly, Relevant
<1>5. CASE EnqueueMatches
    <2>1. UNCHANGED <<clog, handled, changenumber>> /\ queue' = queue \cup {n \in Window : Relevant(n)}
        BY <1>5 DEF EnqueueMatches, remoteVars
    <2> QED BY <1>1, <2>1 DEF Above, MatchedOnly, Relevant
<1>6. ASSUME NEW g \in gets, CheckpointFound(g) \/ CheckpointCreated(g)
      PROVE  Above(changenumber)' /\ MatchedOnly'
    <2>1. Above(g.val)
        BY <1>6 DEF ReadsAbove, CheckpointFound, CheckpointCreated
    <2>2. UNCHANGED <<clog, handled, queue>>
        BY <1>6 DEF CheckpointFound, CheckpointCreated, OnCheckpoint, remoteVars, queueVars
    <2>3. changenumber' = g.val \/ (changenumber' = 0 /\ g.val = NoNumber)
        BY <1>6 DEF CheckpointFound, CheckpointCreated, OnCheckpoint
    <2>4. Above(changenumber)'
        <3>1. CASE changenumber' = g.val
            BY <2>1, <2>2, <3>1 DEF Above
        <3>2. CASE changenumber' = 0 /\ g.val = NoNumber
            BY <1>1, <2>1, <2>2, <3>2 DEF Above, NoNumber
        <3> QED BY <2>3, <3>1, <3>2
    <2> QED BY <1>1, <2>2, <2>4 DEF MatchedOnly, Relevant
<1>7. CASE ReplicateAdd \/ ReplicateModify \/ ReplicateDelete
    <2>1. worker = "op" /\ Update /\ UNCHANGED clog
        BY <1>7, HandleRecord
    <2> QED BY <2>1, NumberUpdate
<1>8. ASSUME NEW n, NEW error, NEW pending, EntryDone(n, error, pending), worker # "idle",
             UNCHANGED <<handled, clog>>
      PROVE  Above(changenumber)' /\ MatchedOnly'
    BY <1>8, NumberEntryDone
<1>9. CASE TakeEntry
    <2>1. worker = "begin" /\ UNCHANGED <<handled, clog>>
        BY <1>9 DEF TakeEntry, remoteVars
    <2>2. \/ \E n \in queue : EntryDone(n, TRUE, sets)
          \/ UNCHANGED <<clog, handled, queue, changenumber>>
        BY <1>9, <2>1 DEF TakeEntry, pollVars
    <2> QED BY <1>2, <1>8, <2>1, <2>2
<1>10. CASE RefuseVersion \/ OperationFails
    <2>1. worker = "op" /\ EntryDone(cur, TRUE, sets) /\ UNCHANGED <<handled, clog>>
        BY <1>10 DEF RefuseVersion, OperationFails, remoteVars
    <2> QED BY <1>8, <2>1
<1>11. ASSUME NEW s \in sets, AnswerCheckpoint(s) PROVE Above(changenumber)' /\ MatchedOnly'
    <2>1. \/ \E error \in BOOLEAN : worker = "set" /\ EntryDone(cur, error, sets \ {s})
          \/ UNCHANGED <<queue, changenumber>>
        BY <1>11 DEF AnswerCheckpoint, queueVars
    <2>2. UNCHANGED <<handled, clog>>
        BY <1>11 DEF AnswerCheckpoint, remoteVars
    <2> QED BY <1>2, <1>8, <2>1, <2>2
<1>12. CASE Drop \/ SearchFails
    BY <1>2, <1>12 DEF Drop, SearchFails, AbortSearch, remoteVars, queueVars, pollVars
<1>13. CASE Exit
    BY <1>13 DEF Exit, ReplayInv
<1>14. CASE \E s \in sets : CommitCheckpoint(s) \/ LoseCheckpoint(s)
    BY <1>2, <1>14 DEF CommitCheckpoint, LoseCheckpoint, remoteVars, queueVars, pollVars
<1>15. CASE \/ RemoteAbort \/ Poll \/ Connect \/ Look \/ NoNewEntries \/ Restart
            \/ \E g \in gets : ReadCheckpoint(g) \/ CheckpointFailed(g)
    BY <1>2, <1>15 DEF RemoteAbort, Poll, Connect, Look, NoNewEntries, Restart, ReadCheckpoint, CheckpointFailed,
       remoteVars, queueVars, pollVars
<1>16. CASE OperationAnswerLost \/ OperationRejected \/ Crash
    BY <1>16 DEF OperationAnswerLost, OperationRejected, Crash, Fault, Steady
<1>17. CASE UNCHANGED vars
    BY <1>2, <1>17 DEF vars, remoteVars, queueVars, pollVars
<1> QED BY <1>3, <1>4, <1>5, <1>6, <1>7, <1>9, <1>10, <1>11, <1>12, <1>13, <1>14, <1>15, <1>16, <1>17
        DEF Next, ConnectionStep, SearchStep, WorkerStep, CheckpointStep, FaultStep

\* Every step keeps the invariant of the replay.
LEMMA ReplayInvStep ==
    ASSUME IInv, ReplayInv, ReadsAbove, PlainReplay, Steady, [Next]_vars
    PROVE  ReplayInv'
<1>1. Above(changenumber)' /\ MatchedOnly'
    BY NumberStep
<1>2. /\ TypeOK /\ Mirrors /\ History(clog) /\ ~exiting /\ handled \subseteq DOMAIN clog
      /\ DOMAIN clog \subseteq Nat /\ local \in [DNs -> MaybeEntry]
    BY DEF IInv, TypeOK, RemoteTypeOK, LocalTypeOK, ReplayInv
<1>3. CASE UNCHANGED <<remote, clog, local, handled, exiting>>
    BY <1>1, <1>2, <1>3 DEF ReplayInv, Mirrors
<1>4. CASE RemoteWrite /\ UNCHANGED <<local, handled, exiting>>
    <2>1. /\ History(clog')
          /\ \A dn \in DNs : InScope(dn) => Leaves(clog', DOMAIN clog', dn, remote'[dn])
        BY <1>2, <1>4, WriteHistory DEF Mirrors
    <2>2. \A m \in handled : clog'[m] = clog[m]
        BY <1>2, <1>4, WriteRecords, RecordLast
    <2>3. \A dn \in DNs : Leaves(clog, handled, dn, local[dn]) => Leaves(clog', handled, dn, local[dn])
        BY <2>2 DEF Leaves
    <2>4. Mirrors'
        BY <1>2, <1>4, <2>1, <2>3 DEF Mirrors
    <2> QED BY <1>1, <1>2, <1>4, <2>1, <2>4 DEF ReplayInv
<1>5. CASE ReplicateAdd \/ ReplicateModify \/ ReplicateDelete
    <2>1. /\ worker = "op" /\ handled' = handled \cup {cur} /\ UNCHANGED <<remote, clog, exiting>>
          /\ local' = [local EXCEPT ![clog[cur].dn] = IF Live(clog[cur]) THEN clog[cur].entry ELSE None]
        BY <1>5, HandleRecord DEF Update
    <2>2. cur \in Nat /\ handled \subseteq Nat /\ \A h \in handled : h < cur
        BY <2>1, NextRecord
    <2>3. ASSUME NEW dn \in DNs, InScope(dn) PROVE Leaves(clog, handled \cup {cur}, dn, local'[dn])
        <3>1. IF clog[cur].dn = dn
                THEN local'[dn] = IF Live(clog[cur]) THEN clog[cur].entry ELSE None
                ELSE local'[dn] = local[dn]
            BY <1>2, <2>1, <2>3
        <3>2. Leaves(clog, handled, dn, local[dn])
            BY <1>2, <2>3 DEF Mirrors
        <3> QED BY <2>2, <3>1, <3>2, LeavesNext
    <2>4. Mirrors'
        BY <1>2, <2>1, <2>3 DEF Mirrors
    <2> QED BY <1>1, <1>2, <2>1, <2>4 DEF ReplayInv
<1> QED BY <1>2, <1>3, <1>4, <1>5, ReplayStep DEF Steady

-----------------------------------------------------------------------------
(***************************************************************************)
(* Why a checkpoint read never returns a number that is behind the replay. *)
(* Either the process reads its checkpoint once, before it has handled     *)
(* anything, and it does not matter whether later writes are lost; or it   *)
(* reconnects while it rests, when every write has been committed in order *)
(* or is on its way.                                                       *)
(***************************************************************************)
NoReread == handled # {} => connected /\ gets = {}

\* Whatever the local UFDS holds now or will hold when the writes it has
\* received are committed is above every number that was handled.
Stored ==
    /\ Above(cp)
    /\ \A s \in sets : ~s.committed => Above(s.n)

ReadsNewest ==
    /\ worker \notin {"set", "stuck"} => Stored /\ \A s \in sets : s.owner # "entry"
    /\ worker = "set" =>
          \A s \in sets : s.owner = "entry" =>
             /\ s.n = cur + 1
             /\ s.committed => Stored
             /\ \A t \in sets : t.owner = "entry" => t = s
    /\ ReadsAbove

\* No behaviour has both a reconnection and a write of the checkpoint that is
\* lost or overtaken by another: at most one of the two is among the faults,
\* or one fault happens at most.
WritesKept ==
    "drop" \in Faults /\ Faults \cap {"set", "reorder"} # {} => MaxFaults <= 1

WritesSafe == Faults \cap {"set", "reorder"} = {}

ReadInv ==
    /\ "drop" \notin Faults \/ faults = 0 => NoReread
    /\ WritesSafe \/ faults = 0 => ReadsNewest
    /\ NoReread \/ ReadsNewest

\* Without a reconnection the checkpoint is read once, at the start.
LEMMA NoRereadStep ==
    ASSUME IInv, ReplayInv, NoReread, PlainReplay, Steady, ~Drop, [Next]_vars
    PROVE  NoReread'
<1>1. CASE UNCHANGED <<handled, connected>> /\ gets' = {}
    BY <1>1 DEF NoReread
<1>2. CASE UNCHANGED <<handled, connected>> /\ (gets = {} => gets' = {})
    BY <1>2 DEF NoReread
<1>3. CASE Connect
    BY <1>3 DEF Connect, NoReread
<1>4. CASE ReplicateAdd \/ ReplicateModify \/ ReplicateDelete
    BY <1>4, HandleRecord DEF IInv, ConnInv, NoReread
<1>5. CASE OperationAnswerLost \/ OperationRejected \/ Crash
    BY <1>5 DEF OperationAnswerLost, OperationRejected, Crash, Fault, Steady
<1>6. CASE Exit
    BY <1>6 DEF Exit, ReplayInv
<1>7. CASE \E g \in gets : ReadCheckpoint(g) \/ CheckpointFound(g) \/ CheckpointCreated(g) \/ CheckpointFailed(g)
    BY <1>2, <1>7 DEF ReadCheckpoint, CheckpointFound, CheckpointCreated, CheckpointFailed, OnCheckpoint
<1>8. CASE \/ RemoteWrite \/ RemoteAbort \/ Poll \/ SearchStep \/ SearchFails \/ Restart
           \/ TakeEntry \/ RefuseVersion \/ OperationFails
           \/ \E s \in sets : CommitCheckpoint(s) \/ AnswerCheckpoint(s) \/ LoseCheckpoint(s)
           \/ UNCHANGED vars
    BY <1>2, <1>8 DEF RemoteWrite, RemoteAbort, Poll, SearchStep, Look, NoNewEntries, NoMatchInRange,
       EnqueueMatches, SearchFails, Restart, TakeEntry, RefuseVersion, OperationFails,
       CommitCheckpoint, AnswerCheckpoint, LoseCheckpoint, vars, connVars
<1> QED BY <1>3, <1>4, <1>5, <1>6, <1>7, <1>8 DEF Next, ConnectionStep, WorkerStep, CheckpointStep, FaultStep

\* A write of a number above everything handled joins those under way.
LEMMA StoredSend ==
    ASSUME Stored, UNCHANGED <<cp, handled>>, NEW n, Above(n), NEW owner,
           sets' \subseteq CheckpointSet(n, owner, sets)
    PROVE  Stored'
<1>1. \A s \in sets' : s \in sets \/ s.n = n
    BY DEF CheckpointSet
<1> QED BY <1>1 DEF Stored, Above

\* The end of a record whose write, if any, was committed.
LEMMA ReadsEntryDone ==
    ASSUME IInv, ReplayInv, ReadsAbove, Stored, worker # "idle",
           UNCHANGED <<handled, clog, cp, gets>>,
           NEW error \in BOOLEAN, NEW n, NEW pending, pending \subseteq sets,
           \A s \in pending : s.owner # "entry",
           EntryDone(n, error, pending)
    PROVE  ReadsNewest'
<1>1. worker' \in {"idle", "begin"} /\ Above(changenumber)'
    BY NumberEntryDone DEF EntryDone
<1>2. ReadsAbove'
    BY DEF ReadsAbove, Above
<1>3. sets' = pending \/ (changenumber' = searchnumber + 1 /\ sets' = CheckpointSet(searchnumber + 1, "none", pending))
    BY DEF EntryDone
<1>4. \A s \in sets' : s \in sets \/ (s.n = searchnumber + 1 /\ changenumber' = searchnumber + 1)
    BY <1>3 DEF CheckpointSet
<1>5. Stored'
    BY <1>1, <1>4 DEF Stored, Above
<1>6. \A s \in sets' : s.owner # "entry"
    BY <1>3 DEF CheckpointSet
<1> QED BY <1>1, <1>2, <1>5, <1>6 DEF ReadsNewest

\* A committed write without an older one under way.
LEMMA ReadsCommit ==
    ASSUME IInv, ReplayInv, ReadsNewest, WritesSafe \/ faults' = faults,
           NEW s \in sets, CommitCheckpoint(s)
    PROVE  ReadsNewest'
<1>1. /\ UNCHANGED <<handled, worker, cur, gets>> /\ cp' = s.n /\ ~s.committed
      /\ s \in SetRecords /\ s.n \in Nat /\ sets \subseteq SetRecords
      /\ handled \subseteq Nat /\ \A h \in handled : h < changenumber
    BY DEF CommitCheckpoint, connVars, queueVars, IInv, TypeOK, SetRecords, RemoteTypeOK, ReplayInv, Above
<1> DEFINE done == [s EXCEPT !.committed = TRUE]
<1>2. /\ \A t \in sets : ~t.committed => s.n <= t.n
      /\ \A t \in sets' : t \in sets \ {s} \/ (s.owner # "none" /\ t = done)
    <2>1. \A t \in sets : ~t.committed => ~(t.n < s.n)
        <3>1. faults \in Nat
            BY DEF IInv, TypeOK
        <3> QED BY <3>1 DEF CommitCheckpoint, Fault, WritesSafe
    <2>2. \A t \in sets : t.n \in Nat
        BY <1>1 DEF SetRecords
    <2>3. \A t \in sets' : t \in sets \ {s} \/ (s.owner # "none" /\ t = done)
        BY DEF CommitCheckpoint
    <2> QED BY <1>1, <2>1, <2>2, <2>3
<1>3. done.committed /\ done.n = s.n /\ done.owner = s.owner
    BY <1>1 DEF SetRecords
<1>4. Above(s.n) => Stored'
    <2>1. \A t \in sets : t.n \in Nat
        BY <1>1 DEF SetRecords
    <2>2. \A t \in sets' : ~t.committed => s.n <= t.n
        BY <1>2, <1>3
    <2>3. \A t \in sets' : ~t.committed => t.n \in Nat
        BY <1>2, <1>3, <2>1
    <2> HIDE DEF done
    <2> SUFFICES ASSUME Above(s.n) PROVE Stored'
        OBVIOUS
    <2>4. Above(cp)'
        BY <1>1 DEF Above
    <2>5. ASSUME NEW t \in sets', ~t.committed PROVE \A h \in handled' : h < t.n
        BY <1>1, <2>2, <2>3, <2>5 DEF Above
    <2> QED BY <2>4, <2>5 DEF Stored, Above
<1>5. ReadsAbove'
    BY <1>1 DEF ReadsNewest, ReadsAbove, Above
<1>6. CASE worker \notin {"set", "stuck"}
    BY <1>1, <1>2, <1>3, <1>4, <1>5, <1>6 DEF ReadsNewest, Stored
<1>7. CASE worker = "set"
    <2>1. changenumber = cur + 1
        BY <1>7 DEF IInv, BusyInv
    <2>2. s.owner = "entry" => Stored'
        BY <1>1, <1>4, <1>7, <2>1 DEF ReadsNewest, Above
    <2>3. Stored => Stored'
        BY <1>1, <1>4 DEF Stored
    <2> HIDE DEF done
    <2>4. ASSUME NEW t \in sets', t.owner = "entry"
          PROVE  /\ t.n = cur' + 1
                 /\ t.committed => Stored'
                 /\ \A u \in sets' : u.owner = "entry" => u = t
        <3>1. CASE t = done /\ s.owner = "entry"
            <4>1. s.n = cur + 1 /\ \A u \in sets : u.owner = "entry" => u = s
                BY <1>7, <3>1 DEF ReadsNewest
            <4> QED BY <1>1, <1>2, <1>3, <2>2, <3>1, <4>1
        <3>2. CASE t \in sets \ {s}
            <4>1. /\ t.n = cur + 1 /\ (t.committed => Stored)
                  /\ \A u \in sets : u.owner = "entry" => u = t
                BY <1>7, <2>4, <3>2 DEF ReadsNewest
            <4>2. s.owner # "entry"
                BY <3>2, <4>1
            <4> QED BY <1>1, <1>2, <1>3, <2>3, <4>1, <4>2
        <3> QED BY <1>2, <1>3, <2>4, <3>1, <3>2
    <2> QED BY <1>1, <1>5, <1>7, <2>4 DEF ReadsNewest
<1>8. CASE worker = "stuck"
    BY <1>1, <1>5, <1>8 DEF ReadsNewest
<1> QED BY <1>6, <1>7, <1>8

\* With reconnections, what is stored keeps up with what is handled.
LEMMA ReadsNewestStep ==
    ASSUME IInv, ReplayInv, ReadsNewest, PlainReplay, Steady,
           WritesSafe \/ faults' = faults, [Next]_vars
    PROVE  ReadsNewest'
<1>1. /\ ReadsAbove /\ handled \subseteq Nat /\ ~exiting /\ faults \in Nat
      /\ (gets # {} => worker = "idle")
    BY DEF ReadsNewest, IInv, TypeOK, RemoteTypeOK, ReplayInv, ConnInv
<1>2. CASE UNCHANGED <<handled, cp, sets, worker, cur, gets>>
    BY <1>1, <1>2 DEF ReadsNewest, ReadsAbove, Stored, Above
<1>3. CASE Connect
    <2>1. UNCHANGED <<handled, cp, sets, worker, cur>>
        BY <1>3 DEF Connect, localVars, queueVars
    <2>2. \A g \in gets' : g \in gets \/ g.read = FALSE
        BY <1>3 DEF Connect
    <2> QED BY <1>1, <2>1, <2>2 DEF ReadsNewest, ReadsAbove, Stored, Above
<1>4. ASSUME NEW g \in gets, ReadCheckpoint(g) PROVE ReadsNewest'
    <2>1. UNCHANGED <<handled, cp, sets, worker, cur>> /\ worker = "idle"
        BY <1>1, <1>4 DEF ReadCheckpoint, localVars, queueVars
    <2>2. g \in GetRecords
        BY DEF IInv, TypeOK, ConnTypeOK
    <2>3. \A h \in gets' : h \in gets \/ h.val = cp
        BY <1>4, <2>2 DEF ReadCheckpoint, GetRecords
    <2> QED BY <1>1, <2>1, <2>3 DEF ReadsNewest, ReadsAbove, Stored, Above
<1>5. ASSUME NEW g \in gets, CheckpointFound(g) \/ CheckpointFailed(g) PROVE ReadsNewest'
    <2>1. UNCHANGED <<handled, cp, sets, worker, cur>> /\ gets' \subseteq gets
        BY <1>5 DEF CheckpointFound, CheckpointFailed, OnCheckpoint, localVars, queueVars
    <2> QED BY <1>1, <2>1 DEF ReadsNewest, ReadsAbove, Stored, Above
<1>6. ASSUME NEW g \in gets, CheckpointCreated(g) PROVE ReadsNewest'
    <2>1. UNCHANGED <<handled, sets, worker, cur>> /\ gets' \subseteq gets
        BY <1>6 DEF CheckpointCreated, OnCheckpoint, queueVars
    <2>2. handled = {}
        BY <1>1, <1>6 DEF CheckpointCreated, ReadsAbove, Above, NoNumber
    <2> QED BY <1>1, <2>1, <2>2 DEF ReadsNewest, ReadsAbove, Stored, Above
<1>7. CASE NoMatchInRange
    <2>1. /\ UNCHANGED <<handled, cp, worker, cur, gets>> /\ worker = "idle"
          /\ sets' = CheckpointSet(changenumber', "range", sets)
        BY <1>7 DEF NoMatchInRange, SearchEnds, localVars, connVars, queueVars, IInv, PollInv
    <2>2. Above(changenumber')
        BY <1>1, <2>1, NumberStep DEF Above
    <2>3. Stored'
        BY <2>1, <2>2, StoredSend DEF ReadsNewest
    <2>4. \A s \in sets' : s.owner # "entry"
        BY <2>1 DEF CheckpointSet, ReadsNewest
    <2> QED BY <1>1, <2>1, <2>3, <2>4 DEF ReadsNewest, ReadsAbove, Above
<1>8. CASE TakeEntry
    <2>1. /\ worker = "begin" /\ UNCHANGED <<handled, clog, cp, gets>>
          /\ Stored /\ \A s \in sets : s.owner # "entry"
        BY <1>8 DEF TakeEntry, remoteVars, localVars, connVars, ReadsNewest
    <2>2. CASE \E n \in queue : EntryDone(n, TRUE, sets)
        BY <1>1, <2>1, <2>2, ReadsEntryDone
    <2>3. CASE worker' = "op" /\ UNCHANGED sets
        BY <1>1, <2>1, <2>3 DEF ReadsNewest, ReadsAbove, Stored, Above
    <2> QED BY <1>8, <2>2, <2>3 DEF TakeEntry
<1>9. CASE RefuseVersion \/ OperationFails
    <2>1. /\ worker = "op" /\ EntryDone(cur, TRUE, sets) /\ UNCHANGED <<handled, clog, cp, gets>>
        BY <1>9 DEF RefuseVersion, OperationFails, remoteVars, localVars, connVars
    <2>2. Stored /\ \A s \in sets : s.owner # "entry"
        BY <2>1 DEF ReadsNewest
    <2> QED BY <1>1, <2>1, <2>2, ReadsEntryDone
<1>10. CASE ReplicateAdd \/ ReplicateModify \/ ReplicateDelete
    <2>1. worker = "op" /\ Update /\ UNCHANGED <<cp, gets>>
        BY <1>10, HandleRecord
    <2>2. gets = {} /\ \A s \in sets : s.owner # "entry"
        BY <1>1, <2>1 DEF ReadsNewest
    <2>3. /\ worker' \in {"set", "stuck"} /\ cur' = cur
          /\ sets' = CheckpointSet(cur + 1, "entry", sets)
        BY <2>1 DEF Update
    <2>4. \A s \in sets' : s \in sets \/ s = [n |-> cur + 1, owner |-> "entry", committed |-> FALSE]
        BY <2>3 DEF CheckpointSet
    <2>5. \A s \in sets' : s.owner = "entry" => s = [n |-> cur + 1, owner |-> "entry", committed |-> FALSE]
        BY <2>2, <2>4
    <2>6. \A s \in sets' : s.owner = "entry" =>
            s.n = cur' + 1 /\ ~s.committed /\ \A t \in sets' : t.owner = "entry" => t = s
        <3> DEFINE write == [n |-> cur + 1, owner |-> "entry", committed |-> FALSE]
        <3>1. write.n = cur + 1 /\ ~write.committed
            OBVIOUS
        <3>2. \A s \in sets' : s.owner = "entry" => s = write
            BY <2>5
        <3> HIDE DEF write
        <3> QED BY <2>3, <3>1, <3>2
    <2>7. ReadsAbove'
        BY <2>1, <2>2 DEF ReadsAbove
    <2> QED BY <2>3, <2>6, <2>7 DEF ReadsNewest
<1>11. ASSUME NEW s \in sets, CommitCheckpoint(s) PROVE ReadsNewest'
    BY <1>11, ReadsCommit
<1>12. ASSUME NEW s \in sets, AnswerCheckpoint(s) PROVE ReadsNewest'
    <2>1. s.committed /\ UNCHANGED <<handled, clog, cp, gets>>
        BY <1>1, <1>12 DEF AnswerCheckpoint, Fault, WritesSafe, remoteVars, localVars, connVars
    <2>2. \/ \E error \in BOOLEAN : s.owner = "entry" /\ worker = "set" /\ EntryDone(cur, error, sets \ {s})
          \/ s.owner = "range" /\ sets' = sets \ {s} /\ UNCHANGED <<worker, cur>>
        BY <1>12 DEF AnswerCheckpoint, queueVars
    <2>3. CASE \E error \in BOOLEAN : s.owner = "entry" /\ worker = "set" /\ EntryDone(cur, error, sets \ {s})
        <3>1. Stored /\ \A t \in sets \ {s} : t.owner # "entry"
            BY <2>1, <2>3 DEF ReadsNewest
        <3> QED BY <1>1, <2>1, <2>3, <3>1, ReadsEntryDone
    <2>4. CASE s.owner = "range" /\ sets' = sets \ {s} /\ UNCHANGED <<worker, cur>>
        BY <1>1, <2>1, <2>4 DEF ReadsNewest, ReadsAbove, Stored, Above
    <2> QED BY <2>2, <2>3, <2>4
<1>13. CASE Exit
    BY <1>1, <1>13 DEF Exit
<1>14. CASE OperationAnswerLost \/ OperationRejected \/ Crash \/ \E s \in sets : LoseCheckpoint(s)
    <2>1. CASE OperationAnswerLost \/ OperationRejected \/ Crash
        BY <2>1 DEF OperationAnswerLost, OperationRejected, Crash, Fault, Steady
    <2>2. ASSUME NEW s \in sets, LoseCheckpoint(s) PROVE FALSE
        <3>1. "set" \in Faults /\ faults' = faults + 1
            BY <2>2 DEF LoseCheckpoint, Fault
        <3> QED BY <1>1, <3>1 DEF WritesSafe
    <2> QED BY <1>14, <2>1, <2>2
<1>15. CASE EnqueueMatches
    <2>1. UNCHANGED <<handled, cp, sets, cur, gets>> /\ worker = "idle" /\ worker' = "begin"
        BY <1>15 DEF EnqueueMatches, SearchEnds, localVars, connVars, IInv, PollInv
    <2> QED BY <1>1, <2>1 DEF ReadsNewest, ReadsAbove, Stored, Above
<1>16. CASE RemoteWrite \/ RemoteAbort \/ Poll \/ Look \/ NoNewEntries \/ SearchFails \/ Drop \/ Restart \/ UNCHANGED vars
    BY <1>2, <1>16 DEF RemoteWrite, RemoteAbort, Poll, Look, NoNewEntries, SearchFails, Drop, Restart, vars,
       localVars, connVars, queueVars
<1> QED BY <1>3, <1>4, <1>5, <1>6, <1>7, <1>8, <1>9, <1>10, <1>11, <1>12, <1>13, <1>14, <1>15, <1>16
        DEF Next, ConnectionStep, SearchStep, WorkerStep, CheckpointStep, FaultStep

\* A reconnection changes nothing of it, whatever writes may be lost.
LEMMA ReadsNewestDrop == ASSUME ReadsNewest, Drop PROVE ReadsNewest'
BY DEF Drop, localVars, queueVars, ReadsNewest, ReadsAbove, Stored, Above

-----------------------------------------------------------------------------
\* Faults are counted, one for each step.
LEMMA FaultsStep ==
    ASSUME Steady, [Next]_vars
    PROVE  /\ faults' = faults \/ (faults < MaxFaults /\ faults' = faults + 1)
           /\ Drop => "drop" \in Faults /\ faults' = faults + 1
<1> DEFINE Counted == faults' = faults \/ (faults < MaxFaults /\ faults' = faults + 1)
<1>1. Drop => "drop" \in Faults /\ faults' = faults + 1 /\ Counted
    BY DEF Drop, Fault, Steady
<1>2. CASE FaultStep
    <2>1. SearchFails \/ OperationFails \/ OperationAnswerLost \/ OperationRejected \/ Crash => Counted
        BY DEF SearchFails, OperationFails, OperationAnswerLost, OperationRejected, Crash, Fault
    <2>2. \A g \in gets : CheckpointFailed(g) => Counted
        BY DEF CheckpointFailed, Fault
    <2>3. \A s \in sets : LoseCheckpoint(s) => Counted
        BY DEF LoseCheckpoint, Fault
    <2> QED BY <1>1, <1>2, <2>1, <2>2, <2>3 DEF FaultStep
<1>3. CASE CheckpointStep
    <2>1. \A s \in sets : CommitCheckpoint(s) => Counted
        BY DEF CommitCheckpoint, Fault
    <2>2. \A s \in sets : AnswerCheckpoint(s) => Counted
        BY DEF AnswerCheckpoint, Fault
    <2> QED BY <1>1, <1>3, <2>1, <2>2 DEF CheckpointStep
<1>4. CASE ConnectionStep
    <2>1. Connect => Counted
        BY DEF Connect
    <2>2. \A g \in gets : ReadCheckpoint(g) \/ CheckpointFound(g) \/ CheckpointCreated(g) => Counted
        BY DEF ReadCheckpoint, CheckpointFound, CheckpointCreated, OnCheckpoint
    <2> QED BY <1>1, <1>4, <2>1, <2>2 DEF ConnectionStep
<1>5. CASE Poll \/ SearchStep
    BY <1>1, <1>5 DEF Poll, SearchStep, Look, NoNewEntries, NoMatchInRange, EnqueueMatches
<1>6. CASE WorkerStep
    BY <1>1, <1>6 DEF WorkerStep, TakeEntry, RefuseVersion, ReplicateAdd, ReplicateModify, ReplicateDelete
<1>7. CASE RemoteWrite \/ RemoteAbort \/ Exit \/ Restart \/ UNCHANGED vars
    BY <1>1, <1>7 DEF RemoteWrite, RemoteAbort, Exit, Restart, vars
<1> QED BY <1>1, <1>2, <1>3, <1>4, <1>5, <1>6, <1>7 DEF Next

\* The three parts hold together, from the beginning.
LEMMA ReplayAlways ==
    ASSUME PlainReplay, Steady, WritesKept
    PROVE  Spec /\ Bootstrapped => [](IInv /\ ReplayInv /\ ReadInv)
<1>1. "busydrop" \notin Faults
    BY DEF Steady
<1>2. Init /\ Bootstrapped => ReplayInv /\ ReadInv
    <2> SUFFICES ASSUME Init, Bootstrapped PROVE ReplayInv /\ ReadInv
        OBVIOUS
    <2>1. /\ clog = <<>> /\ DOMAIN clog = {} /\ handled = {} /\ local = remote /\ ~exiting
          /\ queue = {} /\ gets = {} /\ sets = {} /\ worker = "idle"
        BY DEF Init
    <2>2. Mirrors
        BY <2>1 DEF Bootstrapped, Mirrors, Leaves
    <2>3. ReplayInv
        BY <2>1, <2>2 DEF ReplayInv, History, MatchedOnly, Above
    <2> QED BY <2>1, <2>3 DEF ReadInv, NoReread, ReadsNewest, Stored, ReadsAbove, Above
<1>3. IInv /\ ReplayInv /\ ReadInv /\ [Next]_vars => ReplayInv' /\ ReadInv'
    <2> SUFFICES ASSUME IInv, ReplayInv, ReadInv, [Next]_vars PROVE ReplayInv' /\ ReadInv'
        OBVIOUS
    <2>1. ReplayInv'
        <3>1. ReadsAbove
            BY DEF ReadInv, NoReread, ReadsNewest, ReadsAbove, Above
        <3> QED BY <3>1, ReplayInvStep
    <2>2. NoReread /\ ~Drop => NoReread'
        BY NoRereadStep
    <2>3. ReadsNewest /\ (WritesSafe \/ faults' = faults) => ReadsNewest'
        BY ReadsNewestStep
    <2>4. /\ faults \in Nat /\ MaxFaults \in Nat
          /\ faults' = faults \/ (faults < MaxFaults /\ faults' = faults + 1)
          /\ Drop => "drop" \in Faults /\ faults' = faults + 1
        BY SizeAssumption, FaultsStep DEF IInv, TypeOK
    <2>5. "drop" \notin Faults \/ faults' = 0 => NoReread'
        BY <2>2, <2>4 DEF ReadInv
    <2>6. WritesSafe \/ faults' = 0 => ReadsNewest'
        BY <2>3, <2>4 DEF ReadInv
    <2>7. CASE "drop" \notin Faults \/ WritesSafe
        BY <2>1, <2>5, <2>6, <2>7 DEF ReadInv
    <2>8. CASE "drop" \in Faults /\ ~WritesSafe
        <3>1. MaxFaults <= 1
            BY <2>8 DEF WritesKept, WritesSafe
        <3>2. CASE faults' = faults
            BY <2>1, <2>2, <2>3, <2>4, <2>5, <2>6, <3>2 DEF ReadInv
        <3>3. CASE faults' # faults
            <4>1. faults = 0 /\ NoReread /\ ReadsNewest
                BY <2>4, <3>1, <3>3 DEF ReadInv
            <4> QED BY <2>1, <2>2, <2>5, <2>6, <4>1, ReadsNewestDrop DEF ReadInv
        <3> QED BY <3>2, <3>3
    <2> QED BY <2>7, <2>8
<1> QED BY <1>1, <1>2, <1>3, IInvAlways, PTL DEF Spec

\* The process never adds an entry a second time: it is not made to exit by
\* an entry that exists (ops.add, ops.modify).
THEOREM NeverExitsHolds ==
    ASSUME PlainReplay, Steady, WritesKept
    PROVE  Spec /\ Bootstrapped => []NeverExits
<1>1. ReplayInv => NeverExits
    BY DEF ReplayInv, NeverExits
<1> QED BY <1>1, ReplayAlways, PTL

\* When every record that concerns the replica has been handled, it holds the
\* entries of the remote that the profile selects, and no others.
LEMMA ConvergedState == ASSUME IInv, ReplayInv PROVE Converged
<1> SUFFICES ASSUME \A n \in DOMAIN clog : Relevant(n) => n \in handled,
                    NEW dn \in DNs
             PROVE  View(local)[dn] = View(remote)[dn]
    BY DEF Converged, View
<1>1. /\ handled \subseteq DOMAIN clog /\ DOMAIN clog \subseteq Nat /\ History(clog)
      /\ \A h \in handled : Relevant(h)
      /\ \A n \in DOMAIN clog : clog[n].entry # None
    <2>1. \A n \in DOMAIN clog : clog[n].entry # None
        BY NoneAssumption DEF IInv, TypeOK, RemoteTypeOK, Changes
    <2> QED BY <2>1 DEF IInv, TypeOK, RemoteTypeOK, ReplayInv, MatchedOnly
<1>2. CASE ~InScope(dn)
    BY <1>2 DEF View, Eligible, InScope
<1>3. CASE InScope(dn)
    <2>1. Leaves(clog, DOMAIN clog, dn, remote[dn]) /\ Leaves(clog, handled, dn, local[dn])
        BY <1>3 DEF ReplayInv, Mirrors
    <2> DEFINE From(S, r, entry) ==
            /\ r \in S /\ clog[r].dn = dn /\ Live(clog[r]) /\ clog[r].entry = entry
            /\ \A n \in S : clog[n].dn = dn => n <= r
    <2>2. ASSUME NEW r, From(handled, r, local[dn]), NEW d \in DOMAIN clog, r < d, clog[d].dn = dn
          PROVE  Live(clog[d])
        <3>1. Relevant(d) => d <= r
            BY <2>2
        <3> QED BY <1>1, <1>3, <2>2, <3>1, ScopeOfRelevant
    <2>3. CASE \E r : From(DOMAIN clog, r, remote[dn])
        <3>1. PICK r : From(DOMAIN clog, r, remote[dn])
            BY <2>3
        <3>2. CASE Eligible(dn, remote[dn])
            <4>1. r \in handled
                BY <3>1, <3>2, ScopeOfRelevant
            <4>2. PICK q : From(handled, q, local[dn])
                BY <1>1, <2>1, <3>1, <4>1 DEF Leaves
            <4>3. q = r
                BY <1>1, <3>1, <4>1, <4>2
            <4> QED BY <3>1, <4>2, <4>3 DEF View
        <3>3. CASE ~Eligible(dn, remote[dn])
            <4>1. local[dn] = None
                <5> SUFFICES ASSUME NEW q, From(handled, q, local[dn]) PROVE FALSE
                    BY <2>1 DEF Leaves
                <5>1. Relevant(q) /\ Eligible(dn, clog[q].entry) /\ q \in DOMAIN clog
                    BY <1>1, ScopeOfRelevant
                <5>2. q < r
                    BY <1>1, <3>1, <3>3, <5>1
                <5>3. DeletedBetween(clog, q, r) \/ clog[q].entry.cls = clog[r].entry.cls
                    <6>1. Follows(clog, r)
                        BY <1>1, <1>3, <3>1 DEF History
                    <6> QED BY <3>1, <5>1, <5>2, <6>1 DEF Follows, Before
                <5>4. ~DeletedBetween(clog, q, r)
                    BY <2>2, <3>1 DEF DeletedBetween
                <5> QED BY <3>1, <3>3, <5>1, <5>3, <5>4 DEF Eligible
            <4> QED BY <3>3, <4>1 DEF View
        <3> QED BY <3>2, <3>3
    <2>4. CASE ~\E r : From(DOMAIN clog, r, remote[dn])
        <3>1. /\ remote[dn] = None
              /\ \A p \in DOMAIN clog : clog[p].dn = dn /\ Live(clog[p]) =>
                    \E d \in DOMAIN clog : p < d /\ clog[d].dn = dn /\ ~Live(clog[d])
            BY <2>1, <2>4 DEF Leaves
        <3>2. local[dn] = None
            <4> SUFFICES ASSUME NEW q, From(handled, q, local[dn]) PROVE FALSE
                BY <2>1 DEF Leaves
            <4> QED BY <1>1, <2>2, <3>1
        <3> QED BY <3>1, <3>2 DEF View
    <2> QED BY <2>3, <2>4
<1> QED BY <1>2, <1>3

\* Once every record has been applied the replica holds exactly the entries
\* that the replication profile selects from the remote, however the records
\* were cut into searches and retried (instance.js, operations.js).
THEOREM ConvergedHolds ==
    ASSUME PlainReplay, Steady, WritesKept
    PROVE  Spec /\ Bootstrapped => []Converged
<1>1. IInv /\ ReplayInv => Converged
    BY ConvergedState
<1> QED BY <1>1, ReplayAlways, PTL

\* The abstract replay reads the data as Replicator does.
LEMMA SameData ==
    /\ Abstract!None = None
    /\ Abstract!Changes = Changes
    /\ \A change : Abstract!CouldReplicate(change) <=> CouldReplicate(change)
    /\ \A dn, entry : Abstract!Eligible(dn, entry) <=> Eligible(dn, entry)
BY DEF Abstract!None, None, Abstract!Changes, Changes, Abstract!Attrs, Attrs, Abstract!Entries, Entries,
       Abstract!CouldReplicate, CouldReplicate, Abstract!Eligible, Eligible

\* Handling a record is a step of the ordered replay.
LEMMA ApplyStep ==
    ASSUME IInv, ReplayInv, PlainReplay, ReplicateAdd \/ ReplicateModify \/ ReplicateDelete
    PROVE  Abstract!Apply(cur) /\ cur \in DOMAIN clog
<1>1. /\ worker = "op" /\ handled' = handled \cup {cur} /\ UNCHANGED clog
      /\ local' = [local EXCEPT ![clog[cur].dn] = IF Live(clog[cur]) THEN clog[cur].entry ELSE None]
    BY HandleRecord DEF Update
<1>2. /\ cur \in DOMAIN clog /\ cur \in Nat /\ Relevant(cur)
      /\ \A h \in handled : h < cur
      /\ \A m \in DOMAIN clog : m < cur /\ Relevant(m) => m \in handled
    BY <1>1, NextRecord
<1>3. local \in [DNs -> MaybeEntry] /\ clog[cur].dn \in DNs /\ clog[cur].entry # None
    BY <1>2, NoneAssumption DEF IInv, TypeOK, LocalTypeOK, RemoteTypeOK, Changes
<1>4. Live(clog[cur]) => Eligible(clog[cur].dn, clog[cur].entry)
    BY <1>2, ScopeOfRelevant
<1> DEFINE change == clog[cur]
           result == IF change.type # "delete" /\ Eligible(change.dn, change.entry)
                       THEN change.entry ELSE None
<1>5. View(local)' = [View(local) EXCEPT ![change.dn] = result]
    <2>1. result = IF Live(change) THEN change.entry ELSE None
        BY <1>4 DEF Live
    <2>2. \A dn \in DNs : local'[dn] = IF dn = change.dn THEN result ELSE local[dn]
        BY <1>1, <1>3, <2>1
    <2>3. result # None => Eligible(change.dn, result)
        OBVIOUS
    <2> HIDE DEF result, change
    <2>4. \A dn \in DNs : View(local)'[dn] = IF dn = change.dn THEN result ELSE View(local)[dn]
        BY <2>2, <2>3 DEF View
    <2> QED BY <1>3, <2>4 DEF View
<1>6. cur \notin handled
    BY <1>2
<1> QED BY <1>1, <1>2, <1>5, <1>6, SameData DEF Abstract!Apply, Relevant

\* The replicator implements the ordered, exactly-once replay of the
\* changelog: every step of it publishes a record, applies the oldest record
\* not applied, or changes nothing the replay is about (poll, onSearchEnd,
\* handleEntry, operations.js).
THEOREM OrderedReplayHolds ==
    ASSUME PlainReplay, Steady, WritesKept
    PROVE  Spec /\ Bootstrapped => OrderedReplay
<1>1. Init => Abstract!Init
    <2> SUFFICES ASSUME Init PROVE Abstract!Init
        OBVIOUS
    <2>1. View(local) = [dn \in DNs |-> None]
        BY DEF Init, View
    <2> QED BY <2>1, SameData DEF Init, Abstract!Init
<1>2. IInv /\ ReplayInv /\ [Next]_vars => [Abstract!Next]_(Abstract!vars)
    <2> SUFFICES ASSUME IInv, ReplayInv, [Next]_vars PROVE [Abstract!Next]_(Abstract!vars)
        OBVIOUS
    <2>1. CASE UNCHANGED <<remote, clog, local, handled, exiting>>
        BY <2>1 DEF Abstract!vars, View
    <2>2. CASE RemoteWrite /\ UNCHANGED <<local, handled, exiting>>
        <3>1. PICK change \in Changes : Record(change)
            BY <2>2, WriteHistory DEF IInv, ReplayInv, Mirrors
        <3>2. /\ nextNumber \in Numbers /\ \A n \in DOMAIN clog : n < nextNumber
              /\ clog' = [n \in DOMAIN clog \cup {nextNumber} |-> IF n = nextNumber THEN change ELSE clog[n]]
            BY <3>1, RecordLast DEF Record, Numbers, IInv, TypeOK, RemoteTypeOK
        <3>3. UNCHANGED View(local)
            BY <2>2 DEF View
        <3>4. Abstract!Publish
            BY <2>2, <3>2, <3>3, SameData DEF Abstract!Publish
        <3> QED BY <3>4 DEF Abstract!Next
    <2>3. CASE ReplicateAdd \/ ReplicateModify \/ ReplicateDelete
        BY <2>3, ApplyStep DEF Abstract!Next
    <2> QED BY <2>1, <2>2, <2>3, ReplayStep DEF Steady, ReplayInv
<1> QED BY <1>1, <1>2, ReplayAlways, PTL DEF Spec, OrderedReplay, Abstract!Spec

=============================================================================
