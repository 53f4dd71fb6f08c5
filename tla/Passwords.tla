------------------------------ MODULE Passwords ------------------------------
(***************************************************************************)
(* The password of one account: bind, compare and password changes         *)
(* (lib/salt.js, lib/db/bind.js, compare.js, mod.js, login_attempt.js)     *)
(* under the password policy: an account is locked for a while after too   *)
(* many failed attempts, an operator may remove the lock before its time,  *)
(* and old passwords cannot be used again.                                 *)
(*                                                                         *)
(* Every moray call of a request is an action.  A request reads the entry, *)
(* reads the policy, and puts the whole entry back without an etag.  When  *)
(* a handler throws, the server process ends and all its requests with it. *)
(***************************************************************************)
EXTENDS Integers, Sequences, FiniteSets, SequencesExt

CONSTANTS
    Words,          \* clear-text passwords
    UseBcrypt,      \* config.use_bcrypt
    MaxFailure,     \* pwdmaxfailure of the policy
    InHistory,      \* pwdinhistory
    Duration,       \* pwdlockoutduration
    Slots,          \* requests that can be under way at the same time
    MaxTime,        \* bound: the clock
    MaxPasswords    \* bound: passwords the account has had

ASSUME PolicyAssumption ==
    MaxFailure \in Nat \ {0} /\ InHistory \in Nat \ {0} /\ Duration \in Nat \ {0}

ASSUME ConfigAssumption == UseBcrypt \in BOOLEAN

ASSUME BoundsAssumption == MaxTime \in Nat \ {0} /\ MaxPasswords \in Nat

VARIABLES
    entry,          \* the account's entry
    req,            \* the requests under way
    now,
    \* bookkeeping
    past,           \* every password the account has had, newest first
    streak,         \* failed attempts in a row, as far as MaxFailure
    unlocked,       \* the operator has removed the lock since the last attempt
    answer,         \* what the last step answered: login, failure or nothing
    disturbed       \* two requests overlapped, or a policy could not be read

vars == <<entry, req, now, past, streak, unlocked, answer, disturbed>>

-----------------------------------------------------------------------------
Never == 0

Hashes == [alg : {"sha", "bcrypt"}, word : Words]

\* userpassword with the kind of its _salt, pwdhistory (newest first),
\* whether _sha1_salt is there, the number of pwdfailuretime values, and
\* pwdaccountlockedtime.
Entries ==
    [password : Hashes, history : Seq(Hashes), shaSalt : BOOLEAN,
     fails : 0 .. MaxFailure, locked : Nat]

Idle == [type |-> "none"]

Requests ==
    [type : {"bind", "compare", "change", "unlock"}, step : {"salt", "policy", "load", "commit"},
     word : Words, policy : BOOLEAN, salted : Entries, loaded : Entries, success : BOOLEAN]

TypeOK ==
    /\ entry \in Entries
    /\ req \in [Slots -> Requests \cup {Idle}]
    /\ now \in 1 .. MaxTime
    /\ past \in Seq(Words)
    /\ streak \in 0 .. MaxFailure
    /\ unlocked \in BOOLEAN
    /\ answer \in {"none", "login", "failure"}
    /\ disturbed \in BOOLEAN

\* An account imported with its SHA1 password, or one added here: salt.add.
Init ==
    /\ entry \in [password : Hashes, history : {<<>>}, shaSalt : {FALSE}, fails : {0}, locked : {Never}]
    /\ UseBcrypt \/ entry.password.alg = "sha"
    /\ req = [s \in Slots |-> Idle]
    /\ now = 1
    /\ past = <<entry.password.word>>
    /\ streak = 0
    /\ unlocked = FALSE
    /\ answer = "none"
    /\ disturbed = FALSE

-----------------------------------------------------------------------------
(* login_attempt.js and the history of salt.js *)

Least(a, b) == IF a < b THEN a ELSE b

\* Mutant: the account is locked when one more attempt has failed.
FailedTooLate(e, t) ==
    [e EXCEPT !.fails = Least(e.fails + 1, MaxFailure),
              !.locked = IF e.fails = MaxFailure THEN t + Duration ELSE @]

\* logFailedLoginAttempt keeps the newest attempts; at the maximum it locks.
Failed(e, t) ==
    [e EXCEPT !.fails = Least(e.fails + 1, MaxFailure),
              !.locked = IF e.fails + 1 >= MaxFailure THEN t + Duration ELSE @]

\* Mutant: a right password leaves the attempts of a locked account.
SucceededKeeps(e) == [e EXCEPT !.fails = IF e.locked = Never THEN 0 ELSE @, !.locked = Never]

\* removeFailedLoginAttempts
Succeeded(e) == [e EXCEPT !.fails = 0, !.locked = Never]

NewAlg == IF UseBcrypt THEN "bcrypt" ELSE "sha"

\* The hash of a history entry can be compared with a word.
Comparable(e, hash) == hash.alg = "sha" /\ UseBcrypt => e.shaSalt

\* Mutant: only the history is looked at.
ReusedInHistory(e, word) == \E i \in DOMAIN e.history : e.history[i].word = word

\* checkPwdHistory finds the word: it is the present password, or one of the
\* history that can be compared.
Reused(e, word) ==
    \/ e.password.word = word
    \/ \E i \in DOMAIN e.history : e.history[i].word = word

\* It throws on a history entry whose salt is gone, and, without a policy,
\* on any history entry, unless it has found the word before.
HistoryThrows(e, word, policy) ==
    /\ e.password.word # word
    /\ \E i \in DOMAIN e.history :
        /\ \A j \in 1 .. (i - 1) : e.history[j].word # word
        /\ ~Comparable(e, e.history[i]) \/ (~policy /\ e.history[i].word # word)

\* Mutant: one password more than pwdinhistory is forgotten.
NewHistoryShort(e) == SubSeq(<<e.password>> \o e.history, 1, InHistory - 1)

NewHistory(e) ==
    LET all == <<e.password>> \o e.history
    IN  SubSeq(all, 1, Least(Len(all), InHistory))

\* History entries that are dropped.
Dropped(e) == {i \in DOMAIN e.history : i + 1 > InHistory}

\* Mutant: the SHA1 salt is not kept when the password is hashed anew.
UpdatedLosesSalt(e, f, word) ==
    [password |-> [alg |-> NewAlg, word |-> word],
     history  |-> NewHistory(e),
     shaSalt  |-> f.shaSalt,
     fails    |-> IF e.fails > 0 THEN 0 ELSE f.fails,
     locked   |-> IF e.locked # Never THEN Never ELSE f.locked]

\* The changes that salt.modify derived from the entry e it read, applied by
\* change() to the entry f that load read after it.
Updated(e, f, word) ==
    LET migrates == e.password.alg = "sha" /\ UseBcrypt
        forgets  == e.shaSalt /\ \E i \in Dropped(e) : e.history[i].alg = "sha"
    IN  [password |-> [alg |-> NewAlg, word |-> word],
         history  |-> IF e.history = <<>> /\ f.history # <<>>
                        THEN (IF e.password \in ToSet(f.history) THEN f.history
                                                    ELSE Append(f.history, e.password))
                        ELSE NewHistory(e),
         shaSalt  |-> migrates \/ (f.shaSalt /\ ~forgets),
         fails    |-> IF e.fails > 0 THEN 0 ELSE f.fails,
         locked   |-> IF e.locked # Never THEN Never ELSE f.locked]

-----------------------------------------------------------------------------
At(s, type, step) == req[s] # Idle /\ req[s].type = type /\ req[s].step = step

Finish(s) == req' = [req EXCEPT ![s] = Idle]

Unanswered == answer' = "none"

Begin(s, type, word) ==
    /\ req[s] = Idle
    /\ req' = [req EXCEPT ![s] = [type |-> type, step |-> "salt", word |-> word,
                                  policy |-> TRUE, salted |-> entry, loaded |-> entry,
                                  success |-> FALSE]]
    /\ disturbed' = (disturbed \/ \E t \in Slots : req[t] # Idle)
    /\ Unanswered
    /\ UNCHANGED <<entry, now, past, streak, unlocked>>

BeginBind(s) == \E word \in Words : Begin(s, "bind", word)

BeginCompare(s) == \E word \in Words : Begin(s, "compare", word)

BeginChange(s) ==
    /\ Len(past) < MaxPasswords
    /\ \E word \in Words : Begin(s, "change", word)

\* The operator's modify that deletes pwdaccountlockedtime (docs/index.md,
\* "Unlock user").  It sends no password: its word is not used.
BeginUnlock(s) == Begin(s, "unlock", entry.password.word)

\* Moray fails: the chain ends with an error, nothing is written.
MorayFails(s) ==
    /\ req[s] # Idle
    /\ Finish(s)
    /\ Unanswered
    /\ UNCHANGED <<entry, now, past, streak, unlocked, disturbed>>

\* A handler throws in a moray callback: the process ends.
Throw ==
    /\ req' = [t \in Slots |-> Idle]
    /\ Unanswered
    /\ UNCHANGED <<entry, now, past, streak, unlocked, disturbed>>

Tick ==
    /\ now < MaxTime
    /\ now' = now + 1
    /\ Unanswered
    /\ UNCHANGED <<entry, req, past, streak, unlocked, disturbed>>

-----------------------------------------------------------------------------
\* loadSalt of bind: an SHA1 salt is no bcrypt salt.
BindSalt(s) ==
    /\ At(s, "bind", "salt")
    /\ IF UseBcrypt /\ entry.password.alg = "sha"
         THEN Throw
         ELSE /\ req' = [req EXCEPT ![s].step = "policy", ![s].salted = entry, ![s].loaded = entry]
              /\ Unanswered
              /\ UNCHANGED <<entry, now, past, streak, unlocked, disturbed>>

\* Mutant: the lock is not looked at, as in bind.
CompareSaltOpen(s) ==
    /\ At(s, "compare", "salt")
    /\ req' = [req EXCEPT ![s].step = "policy", ![s].salted = entry, ![s].loaded = entry]
    /\ Unanswered
    /\ UNCHANGED <<entry, now, past, streak, unlocked, disturbed>>

\* loadSalt of compare, which turns a locked account away.
CompareSalt(s) ==
    /\ At(s, "compare", "salt")
    /\ IF now < entry.locked
         THEN Finish(s)
         ELSE req' = [req EXCEPT ![s].step = "policy", ![s].salted = entry, ![s].loaded = entry]
    /\ Unanswered
    /\ UNCHANGED <<entry, now, past, streak, unlocked, disturbed>>

\* The password fits, and there is nothing to write.
LoginNow(s) ==
    /\ Finish(s)
    /\ answer' = "login"
    /\ streak' = 0
    /\ UNCHANGED <<entry, now, past, unlocked>>

ToCommit(s, e, success, policy) ==
    /\ req' = [req EXCEPT ![s].step = "commit", ![s].loaded = e, ![s].success = success,
                          ![s].policy = policy]
    /\ Unanswered
    /\ UNCHANGED <<entry, now, past, streak, unlocked>>

\* loadPwdPolicy of bind, and bind: the whole entry is prepared for commit.
BindPolicy(s) ==
    /\ At(s, "bind", "policy")
    /\ LET e == req[s].loaded
       IN  \E policy \in BOOLEAN :
            CASE e.password.word = req[s].word /\ e.fails > 0 ->
                    ToCommit(s, Succeeded(e), TRUE, policy) /\ disturbed' = (disturbed \/ ~policy)
              [] e.password.word = req[s].word /\ e.fails = 0 ->
                    LoginNow(s) /\ disturbed' = (disturbed \/ ~policy)
              [] e.password.word # req[s].word /\ policy ->
                    ToCommit(s, Failed(e, now), FALSE, policy) /\ UNCHANGED disturbed
              [] OTHER -> Throw

\* loadPwdPolicy of compare, and compare: without a policy a wrong password
\* is treated like a right one, except for the answer.
ComparePolicy(s) ==
    /\ At(s, "compare", "policy")
    /\ LET e     == req[s].loaded
           found == e.password.word = req[s].word
       IN  \E policy \in BOOLEAN :
            /\ disturbed' = (disturbed \/ ~policy)
            /\ CASE ~found /\ policy -> ToCommit(s, Failed(e, now), FALSE, policy)
                 [] e.fails > 0 /\ (found \/ ~policy) -> ToCommit(s, Succeeded(e), found, policy)
                 [] e.fails = 0 /\ found -> LoginNow(s)
                 [] OTHER -> Finish(s) /\ Unanswered /\ UNCHANGED <<entry, now, past, streak, unlocked>>

\* mod.commit of bind and of compare.
CommitAttempt(s) ==
    /\ At(s, "bind", "commit") \/ At(s, "compare", "commit")
    /\ entry' = req[s].loaded
    /\ answer' = IF req[s].success THEN "login" ELSE "failure"
    /\ streak' = IF req[s].success THEN 0 ELSE Least(streak + 1, MaxFailure)
    /\ unlocked' = FALSE
    /\ Finish(s)
    /\ UNCHANGED <<now, past, disturbed>>

-----------------------------------------------------------------------------
(* A modify of userpassword *)

\* loadSalt.
ChangeSalt(s) ==
    /\ At(s, "change", "salt")
    /\ req' = [req EXCEPT ![s].step = "policy", ![s].salted = entry]
    /\ Unanswered
    /\ UNCHANGED <<entry, now, past, streak, unlocked, disturbed>>

\* loadPwdPolicy and checkPwdHistory.
ChangePolicy(s) ==
    /\ At(s, "change", "policy")
    /\ LET e == req[s].salted
       IN  \E policy \in BOOLEAN :
            IF HistoryThrows(e, req[s].word, policy)
              THEN Throw
              ELSE /\ req' = [req EXCEPT ![s] =
                                IF Reused(e, req[s].word) THEN Idle ELSE [@ EXCEPT !.step = "load"]]
                   /\ disturbed' = (disturbed \/ ~policy)
                   /\ Unanswered
                   /\ UNCHANGED <<entry, now, past, streak, unlocked>>

\* mod.load reads the entry again.
ChangeLoad(s) ==
    /\ At(s, "change", "load")
    /\ req' = [req EXCEPT ![s].step = "commit", ![s].loaded = entry]
    /\ Unanswered
    /\ UNCHANGED <<entry, now, past, streak, unlocked, disturbed>>

CommitChange(s) ==
    /\ At(s, "change", "commit")
    /\ entry' = Updated(req[s].salted, req[s].loaded, req[s].word)
    /\ past' = <<req[s].word>> \o past
    /\ streak' = 0
    /\ unlocked' = FALSE
    /\ Unanswered
    /\ Finish(s)
    /\ UNCHANGED <<now, disturbed>>

-----------------------------------------------------------------------------
(* A modify that removes the lock: salt.modify lets it pass *)

\* mod.load.
UnlockLoad(s) ==
    /\ At(s, "unlock", "salt")
    /\ req' = [req EXCEPT ![s].step = "commit", ![s].loaded = entry]
    /\ Unanswered
    /\ UNCHANGED <<entry, now, past, streak, unlocked, disturbed>>

\* change and commit: the attempts stay on record.
CommitUnlock(s) ==
    /\ At(s, "unlock", "commit")
    /\ entry' = [req[s].loaded EXCEPT !.locked = Never]
    /\ unlocked' = TRUE
    /\ Unanswered
    /\ Finish(s)
    /\ UNCHANGED <<now, past, streak, disturbed>>

-----------------------------------------------------------------------------
Next ==
    \/ Tick
    \/ \E s \in Slots :
        \/ BeginBind(s) \/ BindSalt(s) \/ BindPolicy(s)
        \/ BeginCompare(s) \/ CompareSalt(s) \/ ComparePolicy(s)
        \/ CommitAttempt(s)
        \/ BeginChange(s) \/ ChangeSalt(s) \/ ChangePolicy(s) \/ ChangeLoad(s)
        \/ CommitChange(s)
        \/ BeginUnlock(s) \/ UnlockLoad(s) \/ CommitUnlock(s)
        \/ MorayFails(s)

Spec == Init /\ [][Next]_vars

-----------------------------------------------------------------------------
(***************************************************************************)
(* Properties                                                              *)
(***************************************************************************)

\* The attempts recorded are those that failed in a row, up to the maximum,
\* across binds, compares and password changes (logFailedLoginAttempt,
\* removeFailedLoginAttempts, salt.modify).
FailuresCounted == ~disturbed => entry.fails = streak

\* An account that as many attempts in a row have failed on as the policy
\* allows stays locked until the operator unlocks it, and the next failed
\* attempt locks it again (logFailedLoginAttempt).
FailuresLock == ~disturbed /\ streak = MaxFailure /\ ~unlocked => entry.locked # Never

\* While an account is locked a compare answers nothing and changes nothing,
\* at whatever time the lock was set and the compare's calls are made: no
\* password can be tried before the lock has run out or has been removed
\* (compare).  Nothing of the kind holds of bind, see NoLoginWhileLocked.
LockHonoured ==
    [][~disturbed /\ now < entry.locked =>
            \A s \in Slots : req[s] # Idle /\ req[s].type = "compare" =>
                answer' = "none" /\ UNCHANGED entry]_vars

\* The history is what it says: the passwords before the present one, newest
\* first, as many as the policy asks for (checkPwdHistory).
HistoryFaithful ==
    ~disturbed =>
        /\ past[1] = entry.password.word
        /\ Len(entry.history) = Least(Len(past) - 1, InHistory)
        /\ \A i \in DOMAIN entry.history : entry.history[i].word = past[i + 1]

\* No password is used again while it is the present one or in the history.
NoReuse ==
    ~disturbed =>
        \A i \in 2 .. Len(past) : i <= InHistory + 2 => past[1] # past[i]

\* The SHA1 salt of an imported account is kept as long as its password is
\* in the history (salt.modify, checkPwdHistory).
LegacySaltKept ==
    ~disturbed /\ UseBcrypt =>
        \A i \in DOMAIN entry.history : entry.history[i].alg = "sha" => entry.shaSalt

\* Nobody logs in to a locked account (bind, compare), as docs/index.md has it
\* ("locked out for 30 minutes or until reset").  A bind does not look at the
\* lock, and a right password lifts it: the code does not have this property.
NoLoginWhileLocked == [][answer' = "login" /\ ~disturbed' => entry.locked <= now]_vars

=============================================================================
