---------------------------- MODULE CleanupProofs ----------------------------
(***************************************************************************)
(* Proofs about CleanupJob, for any number of processes and credentials:   *)
(* its type invariant and the four safety invariants, each from one        *)
(* inductive invariant about who holds the lock file.                      *)
(***************************************************************************)
EXTENDS CleanupJob, TLAPS

Holding == {"write"} \cup Working

KilledDead == \A p \in killed : pc[p] = "dead"

\* The lock file is that of a process that holds it, or was killed.
FileHeld ==
    file # NoFile =>
        \/ pc[file] \in Holding \/ file \in killed
        \/ pc[file] \in Ended /\ ioError[file] \in {"write", "release"}

\* A process that holds the lock has its file, as long as none was removed.
HolderHasFile == ~removed => \A p \in Processes : pc[p] \in Holding => file = p

Alone == \A p \in Processes \ overlapped : Alive(p) => \A q \in Processes \ {p} : ~Alive(q)

\* What a process that is alone has found in its way is still there.
AloneFindsFile ==
    \A p \in Processes \ overlapped : pc[p] \in {"read", "check", "unlink"} => file # NoFile

SeenAnother == \A p \in Processes : pc[p] = "check" => seen[p] \in Processes \ {p}

\* What was due has expired, and never becomes valid again.
DueExpired == \A p \in Processes : \A c \in due[p] : stored[c] # "valid"

IInv ==
    /\ TypeOK
    /\ KilledDead /\ FileHeld /\ HolderHasFile
    /\ Alone /\ AloneFindsFile /\ SeenAnother /\ RefusedForAnother
    /\ DueExpired /\ SuccessComplete

-----------------------------------------------------------------------------
(* Initial states *)

LEMMA InitType == Init => TypeOK
<1> SUFFICES ASSUME Init PROVE TypeOK
  OBVIOUS
<1>1. stored \in [Credentials -> {"valid", "expired", "gone"}]
  BY DEF Init
<1>2. pc \in [Processes -> {"idle"} \cup Running \cup Ended]
  BY DEF Init
<1>3. /\ batch \in [Processes -> SUBSET Credentials]
      /\ \A p \in Processes : \A c \in batch[p] : stored[c] # "valid"
  BY DEF Init
<1>4. failed \in [Processes -> BOOLEAN] /\ due \in [Processes -> SUBSET Credentials]
  BY DEF Init
<1>5. failures \in 0 .. MaxFailures
  BY FailuresAssumption DEF Init
<1> QED
  BY <1>1, <1>2, <1>3, <1>4, <1>5 DEF Init, TypeOK

LEMMA InitIInv == Init => IInv
  BY InitType
  DEF Init, IInv, KilledDead, FileHeld, HolderHasFile, Alone, AloneFindsFile, SeenAnother,
      RefusedForAnother, DueExpired, SuccessComplete, Holding, Working, Alive, Running

-----------------------------------------------------------------------------
(***************************************************************************)
(* What a step is to the lock.  The steps of the job itself all are one of *)
(* two kinds: quiet, or the end of the process with the lock released.     *)
(***************************************************************************)

Quiet ==
    /\ UNCHANGED <<lockVars, killed, overlapped, ioError>>
    /\ \A q \in Processes : pc'[q] = pc[q] \/ (pc[q] \in Working /\ pc'[q] \in Working)

Ends(p) == pc[p] \in Working /\ \E outcome \in {"success", "error", "dead"} : Release(p, outcome)

LEMMA KindsOfSteps ==
    ASSUME TypeOK, [Next]_vars
    PROVE  \/ Quiet
           \/ \E p \in Processes :
                \/ Start(p) \/ Open(p) \/ Write(p) \/ Read(p) \/ Check(p) \/ Unlink(p)
                \/ LockFails(p) \/ Ends(p) \/ Kill(p)
<1>1. ASSUME NEW p \in Processes, Search(p) PROVE Quiet
  BY <1>1 DEF Search, Quiet, Goto, Working, TypeOK
<1>2. ASSUME NEW p \in Processes, Delete(p) \/ DeleteFails(p) PROVE Quiet
  BY <1>2 DEF Delete, DeleteFails, Quiet
<1>3. ASSUME NEW p \in Processes, EndBatch(p) PROVE Quiet
  BY <1>3 DEF EndBatch, Quiet, Goto, Working, TypeOK
<1>4. ASSUME NEW c \in Credentials, Expire(c) PROVE Quiet
  BY <1>4 DEF Expire, Quiet
<1>5. CASE UNCHANGED vars
  BY <1>5 DEF vars, Quiet, lockVars
<1>6. ASSUME NEW p \in Processes, SearchFails(p) \/ SearchFindsNone(p) \/ Terminate(p)
      PROVE  Ends(p)
  BY <1>6 DEF SearchFails, SearchFindsNone, Terminate, Ends, Working
<1> QED
  BY <1>1, <1>2, <1>3, <1>4, <1>5, <1>6 DEF Next, Step

-----------------------------------------------------------------------------
(* The type invariant *)

LEMMA TypeStep ==
    ASSUME TypeOK, [Next]_vars
    PROVE  TypeOK'
<1> USE DEF TypeOK, Goto, lockVars, jobVars, Running, Working, Ended
<1>1. ASSUME NEW p \in Processes, Start(p) PROVE TypeOK'
  BY <1>1 DEF Start
<1>2. ASSUME NEW p \in Processes, Open(p) PROVE TypeOK'
  BY <1>2 DEF Open
<1>3. ASSUME NEW p \in Processes, Read(p) PROVE TypeOK'
  BY <1>3 DEF Read
<1>4. ASSUME NEW p \in Processes, Check(p) PROVE TypeOK'
  BY <1>4 DEF Check
<1>5. ASSUME NEW p \in Processes, Unlink(p) PROVE TypeOK'
  BY <1>5 DEF Unlink
<1>6. ASSUME NEW p \in Processes, SearchFails(p) PROVE TypeOK'
  BY <1>6 DEF SearchFails, Release
<1>7. ASSUME NEW p \in Processes, SearchFindsNone(p) PROVE TypeOK'
  BY <1>7 DEF SearchFindsNone, Release
<1>8. ASSUME NEW p \in Processes, Delete(p) PROVE TypeOK'
  BY <1>8 DEF Delete
<1>9. ASSUME NEW p \in Processes, EndBatch(p) PROVE TypeOK'
  BY <1>9 DEF EndBatch
<1>10. ASSUME NEW p \in Processes, Terminate(p) PROVE TypeOK'
  BY <1>10 DEF Terminate, Release
<1>11. ASSUME NEW p \in Processes, Kill(p) PROVE TypeOK'
  BY <1>11 DEF Kill
<1>12. ASSUME NEW p \in Processes, Write(p) PROVE TypeOK'
  <2>1. Expired \in SUBSET Credentials
    BY DEF Expired
  <2>2. due' \in [Processes -> SUBSET Credentials]
    BY <1>12, <2>1 DEF Write
  <2> QED
    BY <1>12, <2>2 DEF Write
<1>13. ASSUME NEW p \in Processes, Search(p) PROVE TypeOK'
  <2>1. PICK found \in SUBSET Expired : batch' = [batch EXCEPT ![p] = found]
    BY <1>13 DEF Search
  <2>2. found \in SUBSET Credentials /\ \A c \in found : stored[c] # "valid"
    BY DEF Expired
  <2> QED
    BY <1>13, <2>1, <2>2 DEF Search
<1>14. ASSUME NEW p \in Processes, DeleteFails(p) PROVE TypeOK'
  <2>1. PICK c \in batch[p] :
            /\ batch' = [batch EXCEPT ![p] = @ \ {c}]
            /\ stored' \in {stored, [stored EXCEPT ![c] = "gone"]}
    BY <1>14 DEF DeleteFails
  <2>2. /\ stored' \in [Credentials -> {"valid", "expired", "gone"}]
        /\ \A d \in Credentials : stored'[d] = "valid" => stored[d] = "valid"
    BY <2>1
  <2>3. /\ batch' \in [Processes -> SUBSET Credentials]
        /\ \A q \in Processes : batch'[q] \subseteq batch[q]
    BY <2>1
  <2>4. failures' \in 0 .. MaxFailures
    BY <1>14, FailuresAssumption DEF DeleteFails
  <2>5. failed' \in [Processes -> BOOLEAN]
    BY <1>14 DEF DeleteFails
  <2> QED
    BY <1>14, <2>2, <2>3, <2>4, <2>5 DEF DeleteFails
<1>15. ASSUME NEW c \in Credentials, Expire(c) PROVE TypeOK'
  BY <1>15 DEF Expire
<1>16. ASSUME NEW p \in Processes, LockFails(p) PROVE TypeOK'
  BY <1>16 DEF LockFails, Acquiring
<1>17. CASE UNCHANGED vars
  BY <1>17 DEF vars
<1> QED
  BY <1>1, <1>2, <1>3, <1>4, <1>5, <1>6, <1>7, <1>8, <1>9, <1>10, <1>11, <1>12, <1>13, <1>14,
     <1>15, <1>16, <1>17 DEF Next, Step

-----------------------------------------------------------------------------
(* The invariants about the lock *)

\* The dead stay dead: no step starts a process again.
LEMMA KilledDeadStep ==
    ASSUME IInv, [Next]_vars
    PROVE  KilledDead'
<1> USE NoFileAssumption DEF IInv, TypeOK, lockVars, jobVars, Goto, KilledDead, Alive, Running, Working
<1>1. CASE Quiet
  BY <1>1 DEF Quiet
<1>2. ASSUME NEW p \in Processes, Start(p) PROVE KilledDead'
  BY <1>2 DEF Start
<1>3. ASSUME NEW p \in Processes, Open(p) PROVE KilledDead'
  BY <1>3 DEF Open
<1>4. ASSUME NEW p \in Processes, Write(p) PROVE KilledDead'
  BY <1>4 DEF Write
<1>5. ASSUME NEW p \in Processes, Read(p) PROVE KilledDead'
  BY <1>5 DEF Read
<1>6. ASSUME NEW p \in Processes, Check(p) PROVE KilledDead'
  BY <1>6 DEF Check
<1>7. ASSUME NEW p \in Processes, Unlink(p) PROVE KilledDead'
  BY <1>7 DEF Unlink
<1>8. ASSUME NEW p \in Processes, Ends(p) PROVE KilledDead'
  BY <1>8 DEF Ends, Release
<1>9. ASSUME NEW p \in Processes, Kill(p) PROVE KilledDead'
  BY <1>9 DEF Kill
<1>10. ASSUME NEW p \in Processes, LockFails(p) PROVE KilledDead'
  BY <1>10 DEF LockFails, Acquiring
<1> QED
  BY ONLY <1>1, <1>2, <1>3, <1>4, <1>5, <1>6, <1>7, <1>8, <1>9, <1>10, KindsOfSteps, IInv, [Next]_vars DEF IInv

\* A file appears with its holder, and goes when its holder ends.
LEMMA FileHeldStep ==
    ASSUME IInv, [Next]_vars
    PROVE  FileHeld'
<1> USE NoFileAssumption DEF IInv, TypeOK, lockVars, jobVars, Goto, KilledDead, FileHeld, Holding, Running, Working, Alive, Ended
<1>1. CASE Quiet
  BY <1>1 DEF Quiet
<1>2. ASSUME NEW p \in Processes, Start(p) PROVE FileHeld'
  BY <1>2 DEF Start
<1>3. ASSUME NEW p \in Processes, Open(p) PROVE FileHeld'
  BY <1>3 DEF Open
<1>4. ASSUME NEW p \in Processes, Write(p) PROVE FileHeld'
  BY <1>4 DEF Write
<1>5. ASSUME NEW p \in Processes, Read(p) PROVE FileHeld'
  BY <1>5 DEF Read
<1>6. ASSUME NEW p \in Processes, Check(p) PROVE FileHeld'
  BY <1>6 DEF Check
<1>7. ASSUME NEW p \in Processes, Unlink(p) PROVE FileHeld'
  BY <1>7 DEF Unlink
<1>8. ASSUME NEW p \in Processes, Ends(p) PROVE FileHeld'
  BY <1>8 DEF Ends, Release
<1>9. ASSUME NEW p \in Processes, Kill(p) PROVE FileHeld'
  BY <1>9 DEF Kill
<1>10. ASSUME NEW p \in Processes, LockFails(p) PROVE FileHeld'
  BY <1>10 DEF LockFails, Acquiring
<1> QED
  BY ONLY <1>1, <1>2, <1>3, <1>4, <1>5, <1>6, <1>7, <1>8, <1>9, <1>10, KindsOfSteps, IInv, [Next]_vars DEF IInv

\* Only one process finds no file; others remove it only as a stale one.
LEMMA HolderHasFileStep ==
    ASSUME IInv, [Next]_vars
    PROVE  HolderHasFile'
<1> USE NoFileAssumption DEF IInv, TypeOK, lockVars, jobVars, Goto, KilledDead, FileHeld, HolderHasFile, Holding, Running, Working, Alive
<1>1. CASE Quiet
  BY <1>1 DEF Quiet
<1>2. ASSUME NEW p \in Processes, Start(p) PROVE HolderHasFile'
  BY <1>2 DEF Start
<1>3. ASSUME NEW p \in Processes, Open(p) PROVE HolderHasFile'
  BY <1>3 DEF Open
<1>4. ASSUME NEW p \in Processes, Write(p) PROVE HolderHasFile'
  BY <1>4 DEF Write
<1>5. ASSUME NEW p \in Processes, Read(p) PROVE HolderHasFile'
  BY <1>5 DEF Read
<1>6. ASSUME NEW p \in Processes, Check(p) PROVE HolderHasFile'
  BY <1>6 DEF Check
<1>7. ASSUME NEW p \in Processes, Unlink(p) PROVE HolderHasFile'
  BY <1>7 DEF Unlink
<1>8. ASSUME NEW p \in Processes, Ends(p) PROVE HolderHasFile'
  BY <1>8 DEF Ends, Release
<1>9. ASSUME NEW p \in Processes, Kill(p) PROVE HolderHasFile'
  BY <1>9 DEF Kill
<1>10. ASSUME NEW p \in Processes, LockFails(p) PROVE HolderHasFile'
  BY <1>10 DEF LockFails, Acquiring
<1> QED
  BY ONLY <1>1, <1>2, <1>3, <1>4, <1>5, <1>6, <1>7, <1>8, <1>9, <1>10, KindsOfSteps, IInv, [Next]_vars DEF IInv

\* A process that starts sees who else runs.
LEMMA AloneStep ==
    ASSUME IInv, [Next]_vars
    PROVE  Alone'
<1> USE NoFileAssumption DEF IInv, TypeOK, lockVars, jobVars, Goto, Alone, Alive, Running, Working
<1>1. CASE Quiet
  BY <1>1 DEF Quiet
<1>2. ASSUME NEW p \in Processes, Start(p) PROVE Alone'
  BY <1>2 DEF Start
<1>3. ASSUME NEW p \in Processes, Open(p) PROVE Alone'
  BY <1>3 DEF Open
<1>4. ASSUME NEW p \in Processes, Write(p) PROVE Alone'
  BY <1>4 DEF Write
<1>5. ASSUME NEW p \in Processes, Read(p) PROVE Alone'
  BY <1>5 DEF Read
<1>6. ASSUME NEW p \in Processes, Check(p) PROVE Alone'
  BY <1>6 DEF Check
<1>7. ASSUME NEW p \in Processes, Unlink(p) PROVE Alone'
  BY <1>7 DEF Unlink
<1>8. ASSUME NEW p \in Processes, Ends(p) PROVE Alone'
  BY <1>8 DEF Ends, Release
<1>9. ASSUME NEW p \in Processes, Kill(p) PROVE Alone'
  BY <1>9 DEF Kill
<1>10. ASSUME NEW p \in Processes, LockFails(p) PROVE Alone'
  BY <1>10 DEF LockFails, Acquiring
<1> QED
  BY ONLY <1>1, <1>2, <1>3, <1>4, <1>5, <1>6, <1>7, <1>8, <1>9, <1>10, KindsOfSteps, IInv, [Next]_vars DEF IInv

\* Nobody else is there to remove the file.
LEMMA AloneFindsFileStep ==
    ASSUME IInv, [Next]_vars
    PROVE  AloneFindsFile'
<1> USE NoFileAssumption DEF IInv, TypeOK, lockVars, jobVars, Goto, Alone, AloneFindsFile, Alive, Running, Working
<1>1. CASE Quiet
  BY <1>1 DEF Quiet
<1>2. ASSUME NEW p \in Processes, Start(p) PROVE AloneFindsFile'
  BY <1>2 DEF Start
<1>3. ASSUME NEW p \in Processes, Open(p) PROVE AloneFindsFile'
  BY <1>3 DEF Open
<1>4. ASSUME NEW p \in Processes, Write(p) PROVE AloneFindsFile'
  BY <1>4 DEF Write
<1>5. ASSUME NEW p \in Processes, Read(p) PROVE AloneFindsFile'
  BY <1>5 DEF Read
<1>6. ASSUME NEW p \in Processes, Check(p) PROVE AloneFindsFile'
  BY <1>6 DEF Check
<1>7. ASSUME NEW p \in Processes, Unlink(p) PROVE AloneFindsFile'
  BY <1>7 DEF Unlink
<1>8. ASSUME NEW p \in Processes, Ends(p) PROVE AloneFindsFile'
  BY <1>8 DEF Ends, Release
<1>9. ASSUME NEW p \in Processes, Kill(p) PROVE AloneFindsFile'
  BY <1>9 DEF Kill
<1>10. ASSUME NEW p \in Processes, LockFails(p) PROVE AloneFindsFile'
  BY <1>10 DEF LockFails, Acquiring
<1> QED
  BY ONLY <1>1, <1>2, <1>3, <1>4, <1>5, <1>6, <1>7, <1>8, <1>9, <1>10, KindsOfSteps, IInv, [Next]_vars DEF IInv

\* A process that reads the file does not hold it, so the PID is not its own.
LEMMA SeenAnotherStep ==
    ASSUME IInv, [Next]_vars
    PROVE  SeenAnother'
<1> USE NoFileAssumption DEF IInv, TypeOK, lockVars, jobVars, Goto, KilledDead, FileHeld, SeenAnother, Holding, Working, Ended
<1>1. CASE Quiet
  BY <1>1 DEF Quiet
<1>2. ASSUME NEW p \in Processes, Start(p) PROVE SeenAnother'
  BY <1>2 DEF Start
<1>3. ASSUME NEW p \in Processes, Open(p) PROVE SeenAnother'
  BY <1>3 DEF Open
<1>4. ASSUME NEW p \in Processes, Write(p) PROVE SeenAnother'
  BY <1>4 DEF Write
<1>5. ASSUME NEW p \in Processes, Read(p) PROVE SeenAnother'
  BY <1>5 DEF Read
<1>6. ASSUME NEW p \in Processes, Check(p) PROVE SeenAnother'
  BY <1>6 DEF Check
<1>7. ASSUME NEW p \in Processes, Unlink(p) PROVE SeenAnother'
  BY <1>7 DEF Unlink
<1>8. ASSUME NEW p \in Processes, Ends(p) PROVE SeenAnother'
  BY <1>8 DEF Ends, Release
<1>9. ASSUME NEW p \in Processes, Kill(p) PROVE SeenAnother'
  BY <1>9 DEF Kill
<1>10. ASSUME NEW p \in Processes, LockFails(p) PROVE SeenAnother'
  BY <1>10 DEF LockFails, Acquiring
<1> QED
  BY ONLY <1>1, <1>2, <1>3, <1>4, <1>5, <1>6, <1>7, <1>8, <1>9, <1>10, KindsOfSteps, IInv, [Next]_vars DEF IInv

\* A process that is alone finds a file, and the PID of a dead process.
LEMMA RefusedForAnotherStep ==
    ASSUME IInv, [Next]_vars
    PROVE  RefusedForAnother'
<1> USE NoFileAssumption DEF IInv, TypeOK, lockVars, jobVars, Goto, Alone, AloneFindsFile, SeenAnother, RefusedForAnother, Alive, Running, Working
<1>1. CASE Quiet
  BY <1>1 DEF Quiet
<1>2. ASSUME NEW p \in Processes, Start(p) PROVE RefusedForAnother'
  BY <1>2 DEF Start
<1>3. ASSUME NEW p \in Processes, Open(p) PROVE RefusedForAnother'
  BY <1>3 DEF Open
<1>4. ASSUME NEW p \in Processes, Write(p) PROVE RefusedForAnother'
  BY <1>4 DEF Write
<1>5. ASSUME NEW p \in Processes, Read(p) PROVE RefusedForAnother'
  BY <1>5 DEF Read
<1>6. ASSUME NEW p \in Processes, Check(p) PROVE RefusedForAnother'
  BY <1>6 DEF Check
<1>7. ASSUME NEW p \in Processes, Unlink(p) PROVE RefusedForAnother'
  BY <1>7 DEF Unlink
<1>8. ASSUME NEW p \in Processes, Ends(p) PROVE RefusedForAnother'
  BY <1>8 DEF Ends, Release
<1>9. ASSUME NEW p \in Processes, Kill(p) PROVE RefusedForAnother'
  BY <1>9 DEF Kill
<1>10. ASSUME NEW p \in Processes, LockFails(p) PROVE RefusedForAnother'
  BY <1>10 DEF LockFails, Acquiring
<1> QED
  BY ONLY <1>1, <1>2, <1>3, <1>4, <1>5, <1>6, <1>7, <1>8, <1>9, <1>10, KindsOfSteps, IInv, [Next]_vars DEF IInv

-----------------------------------------------------------------------------
(* The invariants about the job *)

\* No step makes a credential valid, and none brings it back.
LEMMA StoredOnward ==
    ASSUME TypeOK, [Next]_vars
    PROVE  \A c \in Credentials :
                /\ stored[c] # "valid" => stored'[c] # "valid"
                /\ stored[c] = "gone" => stored'[c] = "gone"
<1> USE DEF TypeOK
<1>1. ASSUME NEW p \in Processes, Delete(p) \/ DeleteFails(p)
      PROVE  \E c \in Credentials : stored' \in {stored, [stored EXCEPT ![c] = "gone"]}
  BY <1>1 DEF Delete, DeleteFails
<1>2. ASSUME NEW c \in Credentials, Expire(c)
      PROVE  stored[c] = "valid" /\ stored' = [stored EXCEPT ![c] = "expired"]
  BY <1>2 DEF Expire
<1>3. CASE UNCHANGED stored
  BY <1>3
<1>4. \/ UNCHANGED stored
      \/ \E p \in Processes : Delete(p) \/ DeleteFails(p)
      \/ \E c \in Credentials : Expire(c)
  BY DEF Next, Step, vars, jobVars, Start, Open, Write, Read, Check, Unlink, LockFails, SearchFails, Search,
         SearchFindsNone, EndBatch, Terminate, Kill
<1> QED
  BY <1>1, <1>2, <1>3, <1>4

\* Only a process that begins to work notes what is due, and all of that
\* has expired.
LEMMA DueExpiredStep ==
    ASSUME IInv, [Next]_vars
    PROVE  DueExpired'
<1> USE DEF IInv, TypeOK, DueExpired
<1>1. ASSUME NEW p \in Processes, Write(p) PROVE DueExpired'
  BY <1>1 DEF Write, Expired
<1>2. CASE UNCHANGED due
  BY <1>2, StoredOnward
<1>3. UNCHANGED due \/ \E p \in Processes : Write(p)
  BY DEF Next, Step, vars, jobVars, Start, Open, Read, Check, Unlink, LockFails, SearchFails, Search,
         SearchFindsNone, Delete, DeleteFails, EndBatch, Terminate, Kill, Expire
<1> QED
  BY <1>1, <1>2, <1>3

\* A process succeeds when its search finds none that has expired.
LEMMA SuccessCompleteStep ==
    ASSUME IInv, [Next]_vars
    PROVE  SuccessComplete'
<1> USE DEF IInv, TypeOK, SuccessComplete, Goto, jobVars
<1>1. ASSUME NEW p \in Processes, SearchFindsNone(p) PROVE SuccessComplete'
  BY <1>1 DEF SearchFindsNone, Release, Expired, DueExpired
<1>2. ASSUME NEW p \in Processes, Write(p) PROVE SuccessComplete'
  BY <1>2 DEF Write
<1>3. CASE UNCHANGED due /\ \A q \in Processes : pc'[q] = "success" => pc[q] = "success"
  BY <1>3, StoredOnward
<1>4. \/ UNCHANGED due /\ \A q \in Processes : pc'[q] = "success" => pc[q] = "success"
      \/ \E p \in Processes : Write(p) \/ SearchFindsNone(p)
  BY DEF Next, Step, vars, Start, Open, Read, Check, Unlink, LockFails, SearchFails, Search, Release,
         Delete, DeleteFails, EndBatch, Terminate, Kill, Expire
<1> QED
  BY <1>1, <1>2, <1>3, <1>4

-----------------------------------------------------------------------------
(* Theorems *)

LEMMA Invariance == Spec => []IInv
<1>1. ASSUME IInv, [Next]_vars PROVE IInv'
  BY <1>1, TypeStep, KilledDeadStep, FileHeldStep, HolderHasFileStep, AloneStep,
     AloneFindsFileStep, SeenAnotherStep, RefusedForAnotherStep, DueExpiredStep,
     SuccessCompleteStep DEF IInv
<1> QED
  BY <1>1, InitIInv, PTL DEF Spec

\* The variables of the cleanup job keep their types, and no process ever is
\* to delete a credential that is valid (cleanupExpiredCredentials).
THEOREM TypesHold == Spec => []TypeOK
<1>1. IInv => TypeOK
  BY DEF IInv
<1> QED
  BY <1>1, Invariance, PTL

\* As long as no lock file has been taken for stale, one process at a time
\* deletes credentials (tryAcquireLock).
THEOREM ExclusiveHolds == Spec => []ExclusiveUnlessRemoved
<1>1. IInv => ExclusiveUnlessRemoved
  BY DEF IInv, HolderHasFile, Holding, ExclusiveUnlessRemoved, Exclusive
<1> QED
  BY <1>1, Invariance, PTL

\* What dead processes left behind never keeps a process that is alone from
\* working (tryAcquireLock).
THEOREM RefusedHolds == Spec => []RefusedForAnother
<1>1. IInv => RefusedForAnother
  BY DEF IInv
<1> QED
  BY <1>1, Invariance, PTL

\* However processes interleave, one that was not killed leaves no lock file
\* (releaseLock).
THEOREM NoLeftoverHolds == Spec => []NoLeftover
<1>1. IInv => NoLeftover
  BY NoFileAssumption DEF IInv, FileHeld, NoLeftover, Holding, Alive, Running
<1> QED
  BY <1>1, Invariance, PTL

\* A process that reports success has deleted all that was due, in however
\* many batches (processBatch).
THEOREM SuccessHolds == Spec => []SuccessComplete
<1>1. IInv => SuccessComplete
  BY DEF IInv
<1> QED
  BY <1>1, Invariance, PTL

=============================================================================
