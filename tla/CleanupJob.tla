----------------------------- MODULE CleanupJob -----------------------------
(***************************************************************************)
(* The job that deletes expired temporary credentials                      *)
(* (bin/cleanup-expired-creds, lib/cleanup-expired-credentials.js).  Cron  *)
(* starts a process every hour, which works only if it gets a lock file.   *)
(* A file system call and an answer of the UFDS server is an action; the   *)
(* calls of several processes interleave, and a process may be killed      *)
(* between any two.                                                        *)
(***************************************************************************)
EXTENDS Integers, FiniteSets

CONSTANTS
    Processes,      \* one for each time the job is started, named by its PID
    Credentials,
    BatchSize,      \* sizeLimit of a search
    MaxFailures     \* bound: deletions that moray fails

ASSUME BatchAssumption == BatchSize \in Nat \ {0}

ASSUME FailuresAssumption == MaxFailures \in Nat

VARIABLES
    pc,             \* where each process is
    file,           \* the process that created the lock file, or NoFile
    written,        \* the lock file holds its creator's PID
    seen,           \* the PID a process has read in the lock file
    stored,         \* each credential in the directory
    batch,          \* the entries each process has still to delete
    failed,         \* totalFailed > 0
    failures,       \* deletions that moray has failed
    ioError,        \* the file system call on the lock that failed a process
    \* bookkeeping
    killed,         \* processes that could not release their lock
    removed,        \* a process has removed a lock file that it took for stale
    overlapped,     \* processes that have not been alone
    due             \* the credentials that had expired when a process began to work

vars ==
    <<pc, file, written, seen, stored, batch, failed, failures, ioError, killed, removed, overlapped, due>>

lockVars == <<file, written, removed, seen>>

jobVars == <<stored, batch, failed, failures, due>>

-----------------------------------------------------------------------------
NoFile == "none"

ASSUME NoFileAssumption == NoFile \notin Processes

Working == {"search", "delete"}

Running == {"open", "write", "read", "check", "unlink"} \cup Working

Ended == {"refused", "success", "error", "dead"}

\* The calls of tryAcquireLock that may fail, named by where the process is.
Acquiring == {"open", "write", "read", "unlink"}

TypeOK ==
    /\ pc \in [Processes -> {"idle"} \cup Running \cup Ended]
    /\ file \in Processes \cup {NoFile}
    /\ written \in BOOLEAN
    /\ seen \in [Processes -> Processes \cup {NoFile}]
    /\ stored \in [Credentials -> {"valid", "expired", "gone"}]
    /\ batch \in [Processes -> SUBSET Credentials]
    /\ \A p \in Processes : \A c \in batch[p] : stored[c] # "valid"
    /\ failed \in [Processes -> BOOLEAN]
    /\ failures \in 0 .. MaxFailures
    /\ ioError \in [Processes -> {"none", "release"} \cup Acquiring]
    /\ killed \subseteq Processes
    /\ removed \in BOOLEAN
    /\ overlapped \subseteq Processes
    /\ due \in [Processes -> SUBSET Credentials]

Init ==
    /\ pc = [p \in Processes |-> "idle"]
    /\ file = NoFile
    /\ written = FALSE
    /\ seen = [p \in Processes |-> NoFile]
    /\ stored \in [Credentials -> {"valid", "expired"}]
    /\ batch = [p \in Processes |-> {}]
    /\ failed = [p \in Processes |-> FALSE]
    /\ failures = 0
    /\ ioError = [p \in Processes |-> "none"]
    /\ killed = {}
    /\ removed = FALSE
    /\ overlapped = {}
    /\ due = [p \in Processes |-> {}]

Expired == {c \in Credentials : stored[c] = "expired"}

\* isProcessRunning
Alive(p) == pc[p] \in Running

Goto(p, label) == pc' = [pc EXCEPT ![p] = label]

-----------------------------------------------------------------------------
(* tryAcquireLock *)

Start(p) ==
    /\ pc[p] = "idle"
    /\ Goto(p, "open")
    /\ LET others == {q \in Processes \ {p} : Alive(q)}
       IN  overlapped' = overlapped \cup others \cup (IF others = {} THEN {} ELSE {p})
    /\ UNCHANGED <<lockVars, jobVars, killed, ioError>>

\* Mutant: the flag is 'w', which opens a file that exists.
OpenAnyway(p) ==
    /\ pc[p] = "open"
    /\ Goto(p, "write") /\ file' = p /\ written' = FALSE
    /\ UNCHANGED <<removed, seen, jobVars, killed, overlapped, ioError>>

\* openSync with the flag 'wx'
Open(p) ==
    /\ pc[p] = "open"
    /\ IF file = NoFile
         THEN Goto(p, "write") /\ file' = p /\ written' = FALSE
         ELSE Goto(p, "read") /\ UNCHANGED <<file, written>>
    /\ UNCHANGED <<removed, seen, jobVars, killed, overlapped, ioError>>

\* writeSync: the PID is lost when the file has been unlinked meanwhile.
Write(p) ==
    /\ pc[p] = "write"
    /\ Goto(p, "search")
    /\ written' = (written \/ file = p)
    /\ due' = [due EXCEPT ![p] = Expired]
    /\ UNCHANGED <<file, removed, seen, stored, batch, failed, failures, killed, overlapped, ioError>>

\* Mutant: an empty lock file is read again until there is a PID in it.
ReadWaitsForPID(p) ==
    /\ pc[p] = "read"
    /\ \/ file = NoFile /\ Goto(p, "refused") /\ UNCHANGED seen
       \/ file # NoFile /\ ~written /\ Goto(p, "open") /\ UNCHANGED seen
       \/ file # NoFile /\ written /\ Goto(p, "check") /\ seen' = [seen EXCEPT ![p] = file]
    /\ UNCHANGED <<file, written, removed, jobVars, killed, overlapped, ioError>>

\* readFileSync: a lock file that is gone is taken to be held, and one
\* without a PID to be stale.
Read(p) ==
    /\ pc[p] = "read"
    /\ \/ file = NoFile /\ Goto(p, "refused") /\ UNCHANGED seen
       \/ file # NoFile /\ ~written /\ Goto(p, "unlink") /\ UNCHANGED seen
       \/ file # NoFile /\ written /\ Goto(p, "check") /\ seen' = [seen EXCEPT ![p] = file]
    /\ UNCHANGED <<file, written, removed, jobVars, killed, overlapped, ioError>>

\* Mutant: whoever has created the lock file holds it.
CheckTrustsFile(p) ==
    /\ pc[p] = "check"
    /\ Goto(p, "refused")
    /\ UNCHANGED <<lockVars, jobVars, killed, overlapped, ioError>>

\* The lock of a process that is dead is stale.
Check(p) ==
    /\ pc[p] = "check"
    /\ IF Alive(seen[p]) THEN Goto(p, "refused") ELSE Goto(p, "unlink")
    /\ UNCHANGED <<lockVars, jobVars, killed, overlapped, ioError>>

\* unlinkSync of whatever file is there by now, and another try; when it is
\* gone the lock is taken to be held.
Unlink(p) ==
    /\ pc[p] = "unlink"
    /\ IF file = NoFile
         THEN Goto(p, "refused") /\ UNCHANGED lockVars
         ELSE Goto(p, "open") /\ file' = NoFile /\ written' = FALSE /\ removed' = TRUE
              /\ UNCHANGED seen
    /\ UNCHANGED <<jobVars, killed, overlapped, ioError>>

\* Any other failure of openSync, writeSync, closeSync, readFileSync or
\* unlinkSync: the lock is taken to be held.  A file that was created stays,
\* with the PID if only closeSync has failed.
LockFails(p) ==
    /\ pc[p] \in Acquiring
    /\ Goto(p, "refused")
    /\ ioError' = [ioError EXCEPT ![p] = pc[p]]
    /\ written' \in IF pc[p] = "write" THEN {written, written \/ file = p} ELSE {written}
    /\ UNCHANGED <<file, removed, seen, jobVars, killed, overlapped>>

-----------------------------------------------------------------------------
(* processBatch *)

\* cleanupCallback: releaseLock unlinks the file, whoever created it.  When
\* that fails the file stays, and the process ends all the same.
Release(p, outcome) ==
    /\ Goto(p, outcome)
    /\ \/ file' = NoFile /\ written' = FALSE /\ UNCHANGED ioError
       \/ /\ file # NoFile
          /\ ioError' = [ioError EXCEPT ![p] = "release"]
          /\ UNCHANGED <<file, written>>
    /\ UNCHANGED <<removed, seen, killed, overlapped>>

\* Mutant: the search error goes to the caller's callback.
SearchFailsKeepsLock(p) ==
    /\ pc[p] = "search"
    /\ Goto(p, "error")
    /\ UNCHANGED <<lockVars, jobVars, killed, overlapped, ioError>>

SearchFails(p) ==
    /\ pc[p] = "search"
    /\ Release(p, "error")
    /\ UNCHANGED jobVars

\* A batch of what has expired by now; the last search finds nothing.
Search(p) ==
    /\ pc[p] = "search"
    /\ Expired # {}
    /\ \E found \in SUBSET Expired :
        /\ Cardinality(found) = (IF Cardinality(Expired) < BatchSize
                                   THEN Cardinality(Expired) ELSE BatchSize)
        /\ batch' = [batch EXCEPT ![p] = found]
    /\ Goto(p, "delete")
    /\ UNCHANGED <<lockVars, stored, failed, failures, due, killed, overlapped, ioError>>

SearchFindsNone(p) ==
    /\ pc[p] = "search"
    /\ Expired = {}
    /\ Release(p, IF failed[p] THEN "error" ELSE "success")
    /\ UNCHANGED jobVars

\* A deletion succeeds, or fails because another process was faster.
Delete(p) ==
    /\ pc[p] = "delete"
    /\ \E c \in batch[p] :
        /\ stored' = [stored EXCEPT ![c] = "gone"]
        /\ failed' = [failed EXCEPT ![p] = @ \/ stored[c] = "gone"]
        /\ batch' = [batch EXCEPT ![p] = @ \ {c}]
    /\ UNCHANGED <<lockVars, pc, failures, due, killed, overlapped, ioError>>

\* Moray fails a deletion, before or after it has taken place.
DeleteFails(p) ==
    /\ pc[p] = "delete"
    /\ failures < MaxFailures
    /\ failures' = failures + 1
    /\ failed' = [failed EXCEPT ![p] = TRUE]
    /\ \E c \in batch[p] :
        /\ batch' = [batch EXCEPT ![p] = @ \ {c}]
        /\ stored' \in {stored, [stored EXCEPT ![c] = "gone"]}
    /\ UNCHANGED <<lockVars, pc, due, killed, overlapped, ioError>>

\* Mutant: there is one batch.
EndBatchOnce(p) ==
    /\ pc[p] = "delete"
    /\ batch[p] = {}
    /\ Release(p, IF failed[p] THEN "error" ELSE "success")
    /\ UNCHANGED jobVars

\* The queue ends, and the next batch is searched for.
EndBatch(p) ==
    /\ pc[p] = "delete"
    /\ batch[p] = {}
    /\ Goto(p, "search")
    /\ UNCHANGED <<lockVars, jobVars, killed, overlapped, ioError>>

-----------------------------------------------------------------------------
\* SIGINT and SIGTERM, once setupExitHandlers has been called.
Terminate(p) ==
    /\ pc[p] \in Working
    /\ Release(p, "dead")
    /\ UNCHANGED jobVars

\* SIGKILL, and any signal before that.
Kill(p) ==
    /\ Alive(p)
    /\ Goto(p, "dead")
    /\ killed' = killed \cup {p}
    /\ UNCHANGED <<lockVars, jobVars, overlapped, ioError>>

Expire(c) ==
    /\ stored[c] = "valid"
    /\ stored' = [stored EXCEPT ![c] = "expired"]
    /\ UNCHANGED <<lockVars, pc, batch, failed, failures, due, killed, overlapped, ioError>>

Step(p) ==
    \/ Open(p) \/ Write(p) \/ Read(p) \/ Check(p) \/ Unlink(p) \/ LockFails(p)
    \/ SearchFails(p) \/ Search(p) \/ SearchFindsNone(p)
    \/ Delete(p) \/ DeleteFails(p) \/ EndBatch(p)

Next ==
    \/ \E p \in Processes : Start(p) \/ Step(p) \/ Terminate(p) \/ Kill(p)
    \/ \E c \in Credentials : Expire(c)

Spec == Init /\ [][Next]_vars

\* A process goes on, and the server answers it.
FairSpec == Spec /\ \A p \in Processes : WF_vars(Step(p))

-----------------------------------------------------------------------------
(***************************************************************************)
(* Properties                                                              *)
(***************************************************************************)

\* Two processes never delete credentials at the same time.
Exclusive == \A p, q \in Processes : pc[p] \in Working /\ pc[q] \in Working => p = q

\* As long as no lock file has been taken for stale (tryAcquireLock).
ExclusiveUnlessRemoved == ~removed => Exclusive

\* A process is turned away only if it was not the only one or a call of its
\* own on the lock file failed: what others left behind, however they ended,
\* never stops the job (tryAcquireLock).
RefusedForAnother ==
    \A p \in Processes : pc[p] = "refused" => p \in overlapped \/ ioError[p] \in Acquiring

\* A lock file is that of a process that runs, was killed, or could not write
\* or remove it: none is left behind otherwise, even by processes that removed
\* each other's (releaseLock on every way out).
NoLeftover ==
    file # NoFile =>
        \/ Alive(file) \/ file \in killed
        \/ ioError[file] \in {"write", "release"}

\* A process that reports success has seen to all credentials that had
\* expired when it began (processBatch).
SuccessComplete ==
    \A p \in Processes : pc[p] = "success" =>
        \A c \in due[p] : stored[c] = "gone"

\* A process ends, given that deletions do not fail for ever.
Terminates == \A p \in Processes : Alive(p) ~> ~Alive(p)

=============================================================================
