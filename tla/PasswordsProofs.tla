--------------------------- MODULE PasswordsProofs ---------------------------
(***************************************************************************)
(* Proofs about Passwords.                                                 *)
(***************************************************************************)
EXTENDS Passwords, SequenceTheorems, TLAPS

-----------------------------------------------------------------------------
(* Type correctness.                                                       *)
LEMMA NotIdle ==
    ASSUME NEW q \in Requests
    PROVE  q # Idle
<1>1. q.type # Idle.type
  BY DEF Requests, Idle
<1> QED
  BY <1>1

LEMMA AtRequest ==
    ASSUME TypeOK, NEW s \in Slots, NEW type, NEW step, At(s, type, step)
    PROVE  /\ req[s] \in Requests /\ req[s] # Idle
           /\ req[s].type = type /\ req[s].step = step
BY DEF At, TypeOK

LEMMA LeastIs ==
    ASSUME NEW a \in Int, NEW b \in Int
    PROVE  /\ Least(a, b) \in {a, b}
           /\ Least(a, b) <= a /\ Least(a, b) <= b
BY DEF Least

(* What the history becomes with a change of password.                     *)
LEMMA NewHistoryIs ==
    ASSUME NEW e \in Entries
    PROVE  /\ NewHistory(e) \in Seq(Hashes)
           /\ Len(NewHistory(e)) = Least(Len(e.history) + 1, InHistory)
           /\ \A i \in 1 .. Len(NewHistory(e)) :
                NewHistory(e)[i] = IF i = 1 THEN e.password ELSE e.history[i - 1]
<1> DEFINE all == <<e.password>> \o e.history
           n == Least(Len(all), InHistory)
<1>1. e.password \in Hashes /\ e.history \in Seq(Hashes)
  BY DEF Entries
<1>2. <<e.password>> \in Seq(Hashes) /\ Len(<<e.password>>) = 1 /\ <<e.password>>[1] = e.password
  BY <1>1
<1>3. /\ all \in Seq(Hashes)
      /\ Len(all) = 1 + Len(e.history)
      /\ \A i \in 1 .. 1 + Len(e.history) : all[i] = IF i <= 1 THEN <<e.password>>[i]
                                                      ELSE e.history[i - 1]
  BY <1>1, <1>2, ConcatProperties
<1>4. Len(e.history) \in Nat
  BY <1>1
<1> HIDE DEF all
<1>5. n \in 1 .. Len(all)
  BY <1>3, <1>4, LeastIs, PolicyAssumption DEF Least
<1> HIDE DEF n
<1>6. \A i \in 1 .. n : all[i] \in Hashes
  BY <1>3, <1>5, ElementOfSeq
<1>7. /\ SubSeq(all, 1, n) \in Seq(Hashes)
      /\ Len(SubSeq(all, 1, n)) = n
      /\ \A i \in 1 .. n : SubSeq(all, 1, n)[i] = all[i]
  BY <1>5, <1>6, <1>3, <1>4, SubSeqProperties
<1>8. NewHistory(e) = SubSeq(all, 1, n)
  BY DEF NewHistory, all, n
<1>9. n = Least(Len(e.history) + 1, InHistory)
  BY <1>3, <1>4 DEF n
<1>10. \A i \in 1 .. n : all[i] = IF i = 1 THEN e.password ELSE e.history[i - 1]
  BY <1>2, <1>3, <1>4, <1>5
<1> QED
  BY <1>7, <1>8, <1>9, <1>10

LEMMA FailedIs ==
    ASSUME NEW e \in Entries, NEW t \in Nat
    PROVE  /\ Failed(e, t) \in Entries
           /\ Failed(e, t).password = e.password
           /\ Failed(e, t).history = e.history
           /\ Failed(e, t).shaSalt = e.shaSalt
           /\ Failed(e, t).fails = Least(e.fails + 1, MaxFailure)
           /\ Failed(e, t).locked = IF e.fails + 1 >= MaxFailure THEN t + Duration ELSE e.locked
<1> DEFINE n == Least(e.fails + 1, MaxFailure)
           l == IF e.fails + 1 >= MaxFailure THEN t + Duration ELSE e.locked
           f == [e EXCEPT !.fails = n]
<1>1. n \in 0 .. MaxFailure /\ l \in Nat
  BY PolicyAssumption DEF Least, Entries
<1>2. Failed(e, t) = [f EXCEPT !.locked = l]
  BY DEF Failed, Entries
<1> HIDE DEF n, l
<1>3. /\ f \in Entries /\ f.password = e.password /\ f.history = e.history
      /\ f.shaSalt = e.shaSalt /\ f.fails = n
  BY <1>1 DEF Entries
<1> HIDE DEF f
<1>4. /\ [f EXCEPT !.locked = l] \in Entries
      /\ [f EXCEPT !.locked = l].password = f.password
      /\ [f EXCEPT !.locked = l].history = f.history
      /\ [f EXCEPT !.locked = l].shaSalt = f.shaSalt
      /\ [f EXCEPT !.locked = l].fails = f.fails
      /\ [f EXCEPT !.locked = l].locked = l
  BY <1>1, <1>3 DEF Entries
<1> QED
  BY <1>2, <1>3, <1>4 DEF n, l

LEMMA SucceededIs ==
    ASSUME NEW e \in Entries
    PROVE  /\ Succeeded(e) \in Entries
           /\ Succeeded(e).password = e.password
           /\ Succeeded(e).history = e.history
           /\ Succeeded(e).shaSalt = e.shaSalt
           /\ Succeeded(e).fails = 0 /\ Succeeded(e).locked = Never
<1> DEFINE f == [e EXCEPT !.fails = 0]
<1>1. Succeeded(e) = [f EXCEPT !.locked = Never]
  BY DEF Succeeded, Entries
<1>2. /\ f \in Entries /\ f.password = e.password /\ f.history = e.history
      /\ f.shaSalt = e.shaSalt /\ f.fails = 0
  BY PolicyAssumption DEF Entries
<1> HIDE DEF f
<1>3. /\ [f EXCEPT !.locked = Never] \in Entries
      /\ [f EXCEPT !.locked = Never].password = f.password
      /\ [f EXCEPT !.locked = Never].history = f.history
      /\ [f EXCEPT !.locked = Never].shaSalt = f.shaSalt
      /\ [f EXCEPT !.locked = Never].fails = f.fails
      /\ [f EXCEPT !.locked = Never].locked = Never
  BY <1>2 DEF Entries, Never
<1> QED
  BY <1>1, <1>2, <1>3

LEMMA UpdatedType ==
    ASSUME NEW e \in Entries, NEW f \in Entries, NEW word \in Words
    PROVE  Updated(e, f, word) \in Entries
<1> DEFINE h == IF e.history = <<>> /\ f.history # <<>>
                  THEN (IF e.password \in ToSet(f.history) THEN f.history
                                              ELSE Append(f.history, e.password))
                  ELSE NewHistory(e)
<1>1. Append(f.history, e.password) \in Seq(Hashes)
  BY AppendProperties DEF Entries
<1>2. h \in Seq(Hashes)
  BY <1>1, NewHistoryIs DEF Entries
<1> HIDE DEF h
<1>3. Updated(e, f, word).history = h
  BY DEF Updated, h
<1>4. [alg |-> NewAlg, word |-> word] \in Hashes
  BY DEF NewAlg, Hashes
<1>5. (IF e.fails > 0 THEN 0 ELSE f.fails) \in 0 .. MaxFailure
  BY PolicyAssumption DEF Entries
<1>6. (IF e.locked # Never THEN Never ELSE f.locked) \in Nat
  BY DEF Entries, Never
<1> QED
  BY <1>2, <1>3, <1>4, <1>5, <1>6 DEF Updated, Entries

(* What most steps do: one slot has another request, or none.              *)
LEMMA SlotType ==
    ASSUME TypeOK, NEW s \in Slots, NEW q \in Requests \cup {Idle},
           req' = [req EXCEPT ![s] = q]
    PROVE  req' \in [Slots -> Requests \cup {Idle}]
BY DEF TypeOK

LEMMA ToCommitType ==
    ASSUME TypeOK, NEW s \in Slots, NEW e \in Entries, NEW success \in BOOLEAN,
           NEW policy \in BOOLEAN, req[s] \in Requests, req[s].type # "change",
           disturbed' \in BOOLEAN, ToCommit(s, e, success, policy)
    PROVE  TypeOK' /\ req'[s] \in Requests /\ req'[s].type = req[s].type
           /\ req'[s].step = "commit" /\ req'[s].loaded = e /\ req'[s].success = success
           /\ req' = [req EXCEPT ![s] = req'[s]]
<1> DEFINE a == [req[s] EXCEPT !.step = "commit"]
           b == [a EXCEPT !.loaded = e]
           c == [b EXCEPT !.success = success]
           q == [c EXCEPT !.policy = policy]
<1>1. a \in Requests /\ a.type = req[s].type /\ a.step = "commit"
  BY DEF Requests
<1>2. req' = [req EXCEPT ![s] = q]
  BY DEF ToCommit, TypeOK
<1> HIDE DEF a
<1>3. b \in Requests /\ b.type = a.type /\ b.step = a.step /\ b.loaded = e
  BY <1>1 DEF Requests
<1> HIDE DEF b
<1>4. c \in Requests /\ c.type = b.type /\ c.step = b.step /\ c.loaded = b.loaded
      /\ c.success = success
  BY <1>3 DEF Requests
<1> HIDE DEF c
<1>5. q \in Requests /\ q.type = c.type /\ q.step = c.step /\ q.loaded = c.loaded
      /\ q.success = c.success
  BY <1>4 DEF Requests
<1> HIDE DEF q
<1>6. req'[s] = q
  BY <1>2 DEF TypeOK
<1>7. TypeOK'
  BY <1>2, <1>5, SlotType DEF ToCommit, Unanswered, TypeOK
<1> QED
  BY <1>1, <1>2, <1>3, <1>4, <1>5, <1>6, <1>7

LEMMA TypeInit == Init => TypeOK
<1> SUFFICES ASSUME Init PROVE TypeOK
  OBVIOUS
<1>0. entry = [password |-> entry.password, history |-> entry.history,
               shaSalt |-> entry.shaSalt, fails |-> entry.fails, locked |-> entry.locked]
  BY DEF Init
<1>1. /\ entry.password \in Hashes /\ entry.history = <<>>
      /\ entry.fails = 0 /\ entry.locked = 0
  BY DEF Init, Never
<1>2. <<>> \in Seq(Hashes)
  BY EmptySeq
<1>3. entry \in Entries
  <2>1. ASSUME NEW p \in Hashes, NEW h \in Seq(Hashes), NEW b \in BOOLEAN,
               NEW f \in 0 .. MaxFailure, NEW l \in Nat
        PROVE  [password |-> p, history |-> h, shaSalt |-> b, fails |-> f, locked |-> l]
                 \in Entries
    BY DEF Entries
  <2>2. entry.history \in Seq(Hashes)
    BY <1>1, <1>2
  <2>3. entry.fails \in 0 .. MaxFailure /\ entry.locked \in Nat
    BY <1>1, PolicyAssumption
  <2>5. entry.shaSalt \in BOOLEAN
    BY DEF Init
  <2>4. [password |-> entry.password, history |-> entry.history, shaSalt |-> entry.shaSalt,
         fails |-> entry.fails, locked |-> entry.locked] \in Entries
    BY <1>1, <2>1, <2>2, <2>3, <2>5
  <2> QED
    BY <1>0, <2>4
<1>4. entry.password.word \in Words
  BY <1>1 DEF Hashes
<1>5. past \in Seq(Words)
  BY <1>4 DEF Init
<1>6. now \in 1 .. MaxTime /\ streak \in 0 .. MaxFailure
  BY PolicyAssumption, BoundsAssumption DEF Init
<1>7. req \in [Slots -> Requests \cup {Idle}]
  BY DEF Init
<1> QED
  BY <1>3, <1>5, <1>6, <1>7 DEF Init, TypeOK

LEMMA TypeStep == TypeOK /\ [Next]_vars => TypeOK'
<1> SUFFICES ASSUME TypeOK, [Next]_vars PROVE TypeOK'
  OBVIOUS
<1>1. CASE Tick
  BY <1>1, BoundsAssumption DEF Tick, TypeOK, Unanswered
<1>2. CASE UNCHANGED vars
  BY <1>2 DEF vars, TypeOK
<1>3. ASSUME NEW s \in Slots,
             BeginBind(s) \/ BeginCompare(s) \/ BeginChange(s) \/ BeginUnlock(s)
      PROVE  TypeOK'
  <2>0. entry.password.word \in Words
    BY DEF TypeOK, Entries, Hashes
  <2>1. PICK word \in Words, type \in {"bind", "compare", "change", "unlock"} :
            Begin(s, type, word)
    BY <1>3, <2>0 DEF BeginBind, BeginCompare, BeginChange, BeginUnlock
  <2>2. [type |-> type, step |-> "salt", word |-> word, policy |-> TRUE, salted |-> entry,
         loaded |-> entry, success |-> FALSE] \in Requests
    BY DEF TypeOK, Requests
  <2>3. req' \in [Slots -> Requests \cup {Idle}]
    BY <2>1, <2>2, SlotType DEF Begin
  <2> QED
    BY <2>1, <2>3 DEF Begin, Unanswered, TypeOK
<1>4. ASSUME NEW s \in Slots, MorayFails(s)
      PROVE  TypeOK'
  BY <1>4, SlotType DEF MorayFails, Finish, Unanswered, TypeOK
<1>5. ASSUME Throw
      PROVE  TypeOK'
  BY <1>5 DEF Throw, Unanswered, TypeOK
<1>6. ASSUME NEW s \in Slots, req[s] \in Requests,
             \/ req' = [req EXCEPT ![s] = Idle]
             \/ req' = [req EXCEPT ![s].step = "policy", ![s].salted = entry, ![s].loaded = entry]
             \/ req' = [req EXCEPT ![s].step = "policy", ![s].salted = entry]
             \/ req' = [req EXCEPT ![s].step = "load"]
             \/ req' = [req EXCEPT ![s].step = "commit", ![s].loaded = entry]
      PROVE  req' \in [Slots -> Requests \cup {Idle}]
  <2> DEFINE a == [req[s] EXCEPT !.step = "policy"]
             b == [a EXCEPT !.salted = entry]
             c == [b EXCEPT !.loaded = entry]
             d == [req[s] EXCEPT !.step = "load"]
             e == [req[s] EXCEPT !.step = "commit"]
             f == [e EXCEPT !.loaded = entry]
  <2>1. a \in Requests /\ d \in Requests /\ e \in Requests
    BY <1>6 DEF Requests
  <2>2. \E q \in {Idle, b, c, d, f} : req' = [req EXCEPT ![s] = q]
    BY <1>6 DEF TypeOK
  <2> HIDE DEF a, d, e
  <2>3. b \in Requests /\ f \in Requests
    BY <2>1 DEF Requests, TypeOK
  <2> HIDE DEF b, f
  <2>4. c \in Requests
    BY <2>3 DEF Requests, TypeOK
  <2> HIDE DEF c
  <2> QED
    BY <2>1, <2>2, <2>3, <2>4, SlotType
<1>7. ASSUME NEW s \in Slots,
             BindSalt(s) \/ CompareSalt(s) \/ ChangeSalt(s) \/ ChangeLoad(s) \/ UnlockLoad(s)
      PROVE  TypeOK'
  <2>1. req[s] \in Requests
    BY <1>7, AtRequest DEF BindSalt, CompareSalt, ChangeSalt, ChangeLoad, UnlockLoad
  <2>2. CASE Throw
    BY <2>2, <1>5
  <2>3. CASE ~Throw
    <3>1. req' \in [Slots -> Requests \cup {Idle}]
      BY <1>6, <1>7, <2>1, <2>3
         DEF BindSalt, CompareSalt, ChangeSalt, ChangeLoad, UnlockLoad, Finish
    <3>2. UNCHANGED <<entry, now, past, streak, unlocked, disturbed>> /\ answer' = "none"
      BY <1>7, <2>3 DEF BindSalt, CompareSalt, ChangeSalt, ChangeLoad, UnlockLoad, Unanswered
    <3> QED
      BY <3>1, <3>2 DEF TypeOK
  <2> QED
    BY <2>2, <2>3
<1>8. ASSUME NEW s \in Slots, LoginNow(s), disturbed' \in BOOLEAN
      PROVE  TypeOK'
  BY <1>8, SlotType, PolicyAssumption DEF LoginNow, Finish, TypeOK
<1>9. ASSUME NEW s \in Slots, BindPolicy(s)
      PROVE  TypeOK'
  <2> DEFINE e == req[s].loaded
  <2>1. req[s] \in Requests /\ req[s].type = "bind" /\ e \in Entries
    BY <1>9, AtRequest DEF BindPolicy, Requests
  <2>2. PICK policy \in BOOLEAN :
            \/ ToCommit(s, Succeeded(e), TRUE, policy) /\ disturbed' = (disturbed \/ ~policy)
            \/ LoginNow(s) /\ disturbed' = (disturbed \/ ~policy)
            \/ ToCommit(s, Failed(e, now), FALSE, policy) /\ UNCHANGED disturbed
            \/ Throw
    BY <1>9, <2>1 DEF BindPolicy
  <2> HIDE DEF e
  <2>3. Succeeded(e) \in Entries /\ Failed(e, now) \in Entries /\ disturbed \in BOOLEAN
    BY <2>1, SucceededIs, FailedIs, BoundsAssumption DEF TypeOK
  <2> QED
    BY <1>5, <1>8, <2>1, <2>2, <2>3, ToCommitType
<1>10. ASSUME NEW s \in Slots, ComparePolicy(s)
       PROVE  TypeOK'
  <2> DEFINE e == req[s].loaded
             found == e.password.word = req[s].word
  <2>1. req[s] \in Requests /\ req[s].type = "compare" /\ e \in Entries
    BY <1>10, AtRequest DEF ComparePolicy, Requests
  <2>2. PICK policy \in BOOLEAN :
            /\ disturbed' = (disturbed \/ ~policy)
            /\ \/ ToCommit(s, Failed(e, now), FALSE, policy)
               \/ ToCommit(s, Succeeded(e), found, policy)
               \/ LoginNow(s)
               \/ Finish(s) /\ Unanswered /\ UNCHANGED <<entry, now, past, streak, unlocked>>
    BY <1>10, <2>1 DEF ComparePolicy
  <2> HIDE DEF e
  <2>3. /\ Succeeded(e) \in Entries /\ Failed(e, now) \in Entries
        /\ disturbed' \in BOOLEAN /\ found \in BOOLEAN
    BY <2>1, <2>2, SucceededIs, FailedIs, BoundsAssumption DEF TypeOK
  <2> HIDE DEF found
  <2>4. CASE Finish(s) /\ Unanswered /\ UNCHANGED <<entry, now, past, streak, unlocked>>
    BY <2>3, <2>4, SlotType DEF Finish, Unanswered, TypeOK
  <2> QED
    BY <1>8, <2>1, <2>2, <2>3, <2>4, ToCommitType
<1>11. ASSUME NEW s \in Slots, CommitAttempt(s)
       PROVE  TypeOK'
  <2>1. req[s] \in Requests
    BY <1>11, AtRequest DEF CommitAttempt
  <2>2. entry' \in Entries
    BY <1>11, <2>1 DEF CommitAttempt, Requests
  <2>3. streak' \in 0 .. MaxFailure
    BY <1>11, PolicyAssumption DEF CommitAttempt, TypeOK, Least
  <2>4. req' \in [Slots -> Requests \cup {Idle}]
    BY <1>11, SlotType DEF CommitAttempt, Finish
  <2>5. answer' \in {"none", "login", "failure"} /\ unlocked' = FALSE
        /\ UNCHANGED <<now, past, disturbed>>
    BY <1>11 DEF CommitAttempt
  <2> QED
    BY <2>2, <2>3, <2>4, <2>5 DEF TypeOK
<1>12. ASSUME NEW s \in Slots, ChangePolicy(s)
       PROVE  TypeOK'
  <2>1. req[s] \in Requests
    BY <1>12, AtRequest DEF ChangePolicy
  <2>2. \/ Throw
        \/ /\ \/ req' = [req EXCEPT ![s] = Idle]
              \/ req' = [req EXCEPT ![s].step = "load"]
           /\ disturbed' \in BOOLEAN
           /\ answer' = "none"
           /\ UNCHANGED <<entry, now, past, streak, unlocked>>
    BY <1>12 DEF ChangePolicy, Unanswered, TypeOK
  <2>3. ASSUME ~Throw PROVE TypeOK'
    BY <1>6, <2>1, <2>2, <2>3 DEF TypeOK
  <2> QED
    BY <1>5, <2>3
<1>13. ASSUME NEW s \in Slots, CommitChange(s)
       PROVE  TypeOK'
  <2>1. req[s] \in Requests
    BY <1>13, AtRequest DEF CommitChange
  <2>2. req[s].word \in Words /\ req[s].salted \in Entries /\ req[s].loaded \in Entries
    BY <2>1 DEF Requests
  <2>3. entry' \in Entries
    BY <1>13, <2>2, UpdatedType DEF CommitChange
  <2>4. past' \in Seq(Words)
    BY <1>13, <2>2, ConcatProperties DEF CommitChange, TypeOK
  <2>5. req' \in [Slots -> Requests \cup {Idle}]
    BY <1>13, SlotType DEF CommitChange, Finish
  <2>6. /\ streak' = 0 /\ unlocked' = FALSE /\ answer' = "none"
        /\ UNCHANGED <<now, disturbed>>
    BY <1>13 DEF CommitChange, Unanswered
  <2>7. 0 \in 0 .. MaxFailure
    BY PolicyAssumption
  <2> QED
    BY <2>3, <2>4, <2>5, <2>6, <2>7 DEF TypeOK
<1>14. ASSUME NEW s \in Slots, CommitUnlock(s)
       PROVE  TypeOK'
  <2>1. req[s] \in Requests
    BY <1>14, AtRequest DEF CommitUnlock
  <2>2. req[s].loaded \in Entries
    BY <2>1 DEF Requests
  <2>3. entry' \in Entries
    BY <1>14, <2>2 DEF CommitUnlock, Entries, Never
  <2>4. req' \in [Slots -> Requests \cup {Idle}]
    BY <1>14, SlotType DEF CommitUnlock, Finish
  <2> QED
    BY <1>14, <2>3, <2>4 DEF CommitUnlock, Unanswered, TypeOK
<1> QED
  BY <1>1, <1>2, <1>3, <1>4, <1>7, <1>9, <1>10, <1>11, <1>12, <1>13, <1>14 DEF Next

(* The entry, what requests hold of it, and the counters have their types, *)
(* for any policy, any passwords and any number of requests: the attempts  *)
(* never exceed the maximum, however many requests write them.             *)
THEOREM TypesHold == Spec => []TypeOK
BY TypeInit, TypeStep, PTL DEF Spec

-----------------------------------------------------------------------------
(* The invariant: as long as no two requests overlap, what the one request *)
(* holds of the entry is still true of it.                                 *)
Single == \A s, t \in Slots : req[s] # Idle /\ req[t] # Idle => s = t

SameSecrets(e) ==
    e.password = entry.password /\ e.history = entry.history /\ e.shaSalt = entry.shaSalt

\* What a bind or a compare is about to put back.
Attempt(q) ==
    /\ SameSecrets(q.loaded)
    /\ q.success => q.loaded.fails = 0 /\ q.loaded.locked = Never
    /\ ~q.success => /\ q.loaded.fails = Least(entry.fails + 1, MaxFailure)
                     /\ q.loaded.fails = MaxFailure => q.loaded.locked # Never
                     /\ entry.locked <= q.loaded.locked
                     /\ q.loaded.locked <= now + Duration

Attempts == {"bind", "compare"}

Fits(q) ==
    /\ q.type \in Attempts /\ q.step = "policy" => q.loaded = entry
    /\ q.type \in Attempts /\ q.step = "commit" => Attempt(q)
    /\ q.type = "compare" /\ q.step # "salt" => entry.locked <= now
    /\ q.type = "unlock" /\ q.step = "commit" => q.loaded = entry
    /\ q.type = "change" /\ q.step # "salt" => q.salted = entry
    /\ q.type = "change" /\ q.step \in {"load", "commit"} => ~Reused(entry, q.word)
    /\ q.type = "change" /\ q.step = "commit" => q.loaded = entry

AllFit == \A s \in Slots : req[s] # Idle => Fits(req[s])

Counted ==
    /\ entry.fails = streak
    /\ entry.fails = MaxFailure /\ ~unlocked => entry.locked # Never
    /\ entry.locked <= now + Duration

Remembered ==
    /\ Len(past) > 0
    /\ past[1] = entry.password.word
    /\ Len(entry.history) = Least(Len(past) - 1, InHistory)
    /\ \A i \in 1 .. Len(entry.history) : entry.history[i].word = past[i + 1]
    /\ \A i \in 2 .. Len(past) : i <= InHistory + 2 => past[1] # past[i]

IsSha(i) == entry.history[i].alg = "sha"

\* An account has had one SHA1 password at most, its first one.
Salted ==
    UseBcrypt =>
        /\ \A i \in 1 .. Len(entry.history) : IsSha(i) => entry.shaSalt
        /\ \A i, j \in 1 .. Len(entry.history) : IsSha(i) /\ IsSha(j) => i = j
        /\ entry.password.alg = "sha" => \A i \in 1 .. Len(entry.history) : ~IsSha(i)

Undisturbed == Single /\ AllFit /\ Counted /\ Remembered /\ Salted

PasswordInv == ~disturbed => Undisturbed

LEMMA InvInit == Init => PasswordInv
<1> SUFFICES ASSUME Init PROVE Undisturbed
  BY DEF PasswordInv
<1> USE TypeInit
<1>1. TypeOK
  OBVIOUS
<1>2. Single /\ AllFit
  BY DEF Init, Single, AllFit
<1>3. entry.fails = 0 /\ entry.locked = 0 /\ entry.history = <<>> /\ now = 1 /\ streak = 0
  BY DEF Init, Never
<1>4. Counted
  BY <1>3, PolicyAssumption DEF Counted, Never
<1>5. Len(past) = 1 /\ past[1] = entry.password.word
  BY DEF Init
<1>6. Len(entry.history) = 0
  BY <1>3, EmptySeq
<1>7. Remembered
  <2>1. Least(Len(past) - 1, InHistory) = 0
    BY <1>5, PolicyAssumption DEF Least
  <2> QED
    BY <1>5, <1>6, <2>1 DEF Remembered
<1>8. Salted
  BY <1>6 DEF Salted
<1> QED
  BY <1>2, <1>4, <1>7, <1>8 DEF Undisturbed

(* Nothing makes a disturbed behaviour undisturbed again.                  *)
LEMMA Monotone == TypeOK /\ [Next]_vars => (~disturbed' => ~disturbed)
<1> SUFFICES ASSUME TypeOK, [Next]_vars, ~disturbed' PROVE ~disturbed
  OBVIOUS
<1>1. CASE Tick \/ UNCHANGED vars
  BY <1>1 DEF Tick, vars
<1>2. ASSUME NEW s \in Slots,
             \/ BeginBind(s) \/ BeginCompare(s) \/ BeginChange(s) \/ BeginUnlock(s)
             \/ BindSalt(s) \/ CompareSalt(s) \/ ChangeSalt(s) \/ ChangeLoad(s)
             \/ CommitAttempt(s) \/ CommitChange(s) \/ MorayFails(s)
             \/ UnlockLoad(s) \/ CommitUnlock(s)
      PROVE  ~disturbed
  BY <1>2 DEF BeginBind, BeginCompare, BeginChange, BeginUnlock, Begin, MorayFails, BindSalt,
              Throw, CompareSalt, ChangeSalt, ChangeLoad, CommitAttempt, CommitChange,
              UnlockLoad, CommitUnlock
<1>3. ASSUME NEW s \in Slots, BindPolicy(s) \/ ComparePolicy(s) \/ ChangePolicy(s)
      PROVE  ~disturbed
  <2>1. CASE BindPolicy(s)
    BY <2>1 DEF BindPolicy, Throw
  <2>2. CASE ComparePolicy(s)
    BY <2>2 DEF ComparePolicy
  <2>3. CASE ChangePolicy(s)
    BY <2>3 DEF ChangePolicy, Throw
  <2> QED
    BY <1>3, <2>1, <2>2, <2>3
<1> QED
  BY <1>1, <1>2, <1>3 DEF Next

(* A step that changes what one slot does, and neither the entry nor what  *)
(* has been counted.                                                       *)
LEMMA SlotStep ==
    ASSUME TypeOK, Undisturbed, NEW s \in Slots, NEW q,
           req' = [req EXCEPT ![s] = q], UNCHANGED <<entry, now, past, streak, unlocked>>,
           q = Idle \/ Fits(q),
           q = Idle \/ req[s] # Idle \/ \A t \in Slots : req[t] = Idle
    PROVE  Undisturbed'
<1>1. \A t \in Slots : req'[t] = IF t = s THEN q ELSE req[t]
  BY DEF TypeOK
<1>2. Single'
  BY <1>1 DEF Undisturbed, Single
<1>3. ASSUME NEW p, Fits(p) PROVE Fits(p)'
  BY <1>3 DEF Fits, Attempt, SameSecrets
<1>4. AllFit'
  BY <1>1, <1>3 DEF Undisturbed, AllFit
<1> QED
  BY <1>2, <1>4 DEF Undisturbed, Counted, Remembered, Salted, IsSha

(* The last call of a bind or a compare is prepared.                       *)
LEMMA PreparedFits ==
    ASSUME TypeOK, Undisturbed, NEW s \in Slots, req[s] \in Requests,
           req[s].type \in Attempts, req[s].step = "policy",
           NEW e \in Entries, NEW success \in BOOLEAN, NEW policy \in BOOLEAN,
           ToCommit(s, e, success, policy), disturbed' \in BOOLEAN,
           IF success THEN e = Succeeded(entry) ELSE e = Failed(entry, now)
    PROVE  Undisturbed'
<1> DEFINE q == req'[s]
<1>1. /\ q \in Requests /\ q.type = req[s].type /\ q.step = "commit" /\ q.loaded = e
      /\ q.success = success /\ req' = [req EXCEPT ![s] = q]
  <2>1. req[s].type # "change"
    BY DEF Attempts
  <2> QED
    BY <2>1, ToCommitType
<1>2. req[s] # Idle
  BY NotIdle
<1>3. entry \in Entries /\ now \in Nat /\ entry.fails \in 0 .. MaxFailure /\ entry.locked \in Nat
  BY BoundsAssumption DEF TypeOK, Entries
<1> HIDE DEF q
<1>4. SameSecrets(e)
  <2>1. CASE success
    BY <1>3, <2>1, SucceededIs DEF SameSecrets
  <2>2. CASE ~success
    <3>1. e = Failed(entry, now)
      BY <2>2
    <3> QED
      BY <1>3, <3>1, FailedIs DEF SameSecrets
  <2> QED
    BY <2>1, <2>2
<1>5. ASSUME success PROVE e.fails = 0 /\ e.locked = Never
  BY <1>3, <1>5, SucceededIs
<1>6. ASSUME ~success
      PROVE  /\ e.fails = Least(entry.fails + 1, MaxFailure)
             /\ e.fails = MaxFailure => e.locked # Never
             /\ entry.locked <= e.locked
             /\ e.locked <= now + Duration
  <2>1. /\ e.fails = Least(entry.fails + 1, MaxFailure)
        /\ e.locked = IF entry.fails + 1 >= MaxFailure THEN now + Duration ELSE entry.locked
    <3>1. e = Failed(entry, now)
      BY <1>6
    <3> QED
      BY <1>3, <3>1, FailedIs
  <2>2. entry.locked <= now + Duration
    BY DEF Undisturbed, Counted
  <2>3. e.fails = MaxFailure => entry.fails + 1 >= MaxFailure
    BY <1>3, <2>1, PolicyAssumption DEF Least
  <2> QED
    BY <1>3, <2>1, <2>2, <2>3, PolicyAssumption DEF Never
<1>7. Attempt(q)
  BY <1>1, <1>4, <1>5, <1>6 DEF Attempt
<1>8. Fits(q)
  <2>1. Fits(req[s])
    BY <1>2 DEF Undisturbed, AllFit
  <2> QED
    BY <1>1, <1>7, <2>1 DEF Fits, Attempts
<1> QED
  BY <1>1, <1>2, <1>8, SlotStep DEF ToCommit

LEMMA ClockStep == TypeOK /\ Undisturbed /\ Tick => Undisturbed'
<1> SUFFICES ASSUME TypeOK, Undisturbed, Tick PROVE Undisturbed'
  OBVIOUS
<1>1. now \in Nat /\ now' = now + 1 /\ UNCHANGED <<entry, req, past, streak, unlocked>>
  BY BoundsAssumption DEF Tick, TypeOK
<1>2. ASSUME NEW s \in Slots, req[s] # Idle PROVE Fits(req[s])'
  <2>0. entry.locked \in Nat
    BY DEF TypeOK, Entries
  <2>1. req[s] \in Requests /\ Fits(req[s])
    BY <1>2 DEF TypeOK, Undisturbed, AllFit
  <2>2. req[s].loaded.locked \in Nat
    BY <2>1 DEF Requests, Entries
  <2>3. Attempt(req[s]) => Attempt(req[s])'
    BY <1>1, <2>2, PolicyAssumption DEF Attempt, SameSecrets
  <2> QED
    BY <1>1, <2>0, <2>1, <2>3 DEF Fits
<1>3. AllFit'
  BY <1>1, <1>2 DEF AllFit
<1>4. Counted'
  BY <1>1, PolicyAssumption DEF Undisturbed, Counted, TypeOK, Entries
<1> QED
  BY <1>1, <1>3, <1>4 DEF Undisturbed, Single, Remembered, Salted, IsSha

(* After a batch nothing is under way, when nothing overlapped.            *)
LEMMA AllIdle ==
    ASSUME TypeOK, Single, NEW s \in Slots, req[s] # Idle, Finish(s)
    PROVE  Single' /\ AllFit'
<1>1. \A t \in Slots : req'[t] = Idle
  BY DEF Finish, Single, TypeOK
<1> QED
  BY <1>1 DEF Single, AllFit


LEMMA AttemptStep ==
    ASSUME TypeOK, Undisturbed, NEW s \in Slots, CommitAttempt(s)
    PROVE  Undisturbed'
<1> DEFINE q == req[s]
<1>1. q \in Requests /\ q # Idle /\ q.type \in Attempts /\ q.step = "commit"
  BY AtRequest DEF CommitAttempt, Attempts
<1>2. Attempt(q)
  BY <1>1 DEF Undisturbed, AllFit, Fits
<1>3. Single' /\ AllFit'
  BY <1>1, AllIdle DEF CommitAttempt, Undisturbed
<1>4. /\ entry' = q.loaded /\ UNCHANGED <<now, past>> /\ unlocked' = FALSE
      /\ streak' = IF q.success THEN 0 ELSE Least(streak + 1, MaxFailure)
  BY DEF CommitAttempt
<1>5. Counted'
  <2>1. entry.fails = streak
    BY DEF Undisturbed, Counted
  <2>2. CASE q.success
    BY <1>2, <1>4, <2>2, BoundsAssumption, PolicyAssumption DEF Attempt, Counted, Never, TypeOK
  <2>3. CASE ~q.success
    BY <1>2, <1>4, <2>1, <2>3 DEF Attempt, Counted
  <2> QED
    BY <2>2, <2>3
<1>6. /\ entry'.password = entry.password /\ entry'.history = entry.history
      /\ entry'.shaSalt = entry.shaSalt /\ past' = past
  BY <1>2, <1>4 DEF Attempt, SameSecrets
<1>7. Remembered'
  BY <1>6 DEF Undisturbed, Remembered
<1>8. Salted'
  <2>1. Salted
    BY DEF Undisturbed
  <2> QED
    BY <1>6, <2>1 DEF Salted, IsSha
<1> QED
  BY <1>3, <1>5, <1>7, <1>8 DEF Undisturbed

(* The operator's modify leaves the attempts and the secrets as they are.  *)
LEMMA UnlockStep ==
    ASSUME TypeOK, Undisturbed, NEW s \in Slots, CommitUnlock(s)
    PROVE  Undisturbed'
<1>1. req[s] \in Requests /\ req[s] # Idle /\ req[s].type = "unlock" /\ req[s].step = "commit"
  BY AtRequest DEF CommitUnlock
<1>2. req[s].loaded = entry /\ entry \in Entries
  BY <1>1 DEF Undisturbed, AllFit, Fits, TypeOK
<1>3. Single' /\ AllFit'
  BY <1>1, AllIdle DEF CommitUnlock, Undisturbed
<1>4. /\ entry'.password = entry.password /\ entry'.history = entry.history
      /\ entry'.shaSalt = entry.shaSalt /\ entry'.fails = entry.fails
      /\ entry'.locked = Never /\ unlocked' /\ UNCHANGED <<now, past, streak>>
  BY <1>2 DEF CommitUnlock, Entries
<1>5. Counted'
  <2>1. now \in Nat
    BY BoundsAssumption DEF TypeOK
  <2> QED
    BY <1>4, <2>1, PolicyAssumption DEF Undisturbed, Counted, Never
<1>6. Remembered'
  BY <1>4 DEF Undisturbed, Remembered
<1>7. Salted'
  <2>1. Salted
    BY DEF Undisturbed
  <2> QED
    BY <1>4, <2>1 DEF Salted, IsSha
<1> QED
  BY <1>3, <1>5, <1>6, <1>7 DEF Undisturbed

(* What a change of password that nothing overlaps makes of the entry.     *)
LEMMA ChangedIs ==
    ASSUME TypeOK, Undisturbed, NEW s \in Slots, CommitChange(s)
    PROVE  /\ req[s].word \in Words /\ ~Reused(entry, req[s].word)
           /\ entry'.password = [alg |-> NewAlg, word |-> req[s].word]
           /\ entry'.history = NewHistory(entry)
           /\ entry'.fails = 0 /\ entry'.locked = Never
           /\ entry.password.alg = "sha" /\ UseBcrypt => entry'.shaSalt
           /\ UseBcrypt /\ entry.shaSalt
                 /\ (\A i \in Dropped(entry) : entry.history[i].alg # "sha") => entry'.shaSalt
<1>1. req[s] \in Requests /\ req[s] # Idle /\ req[s].type = "change" /\ req[s].step = "commit"
  BY AtRequest DEF CommitChange
<1>2. req[s].salted = entry /\ req[s].loaded = entry /\ ~Reused(entry, req[s].word)
  BY <1>1 DEF Undisturbed, AllFit, Fits
<1>3. entry' = Updated(entry, entry, req[s].word)
  BY <1>2 DEF CommitChange
<1>4. entry.fails \in 0 .. MaxFailure /\ entry.locked \in Nat
  BY DEF TypeOK, Entries
<1>5. entry'.fails = 0
  BY <1>3, <1>4, PolicyAssumption DEF Updated
<1>6. entry'.locked = Never
  BY <1>3, <1>4 DEF Updated, Never
<1>7. req[s].word \in Words
  BY <1>1 DEF Requests
<1> QED
  BY <1>2, <1>3, <1>5, <1>6, <1>7 DEF Updated

LEMMA ChangeStep ==
    ASSUME TypeOK, Undisturbed, NEW s \in Slots, CommitChange(s)
    PROVE  Undisturbed'
<1> DEFINE word == req[s].word
           old == entry.history
           new == entry'.history
<1>1. Single' /\ AllFit'
  <2>1. req[s] # Idle /\ Finish(s)
    BY AtRequest DEF CommitChange
  <2> QED
    BY <2>1, AllIdle DEF Undisturbed
<1>2. /\ entry \in Entries /\ past \in Seq(Words) /\ Len(past) \in Nat /\ Len(past) > 0
      /\ Len(old) \in Nat /\ now \in Nat
  BY BoundsAssumption DEF TypeOK, Entries, Undisturbed, Remembered
<1>3. /\ new = NewHistory(entry)
      /\ Len(new) = Least(Len(old) + 1, InHistory)
      /\ \A i \in 1 .. Len(new) : new[i] = IF i = 1 THEN entry.password ELSE old[i - 1]
  <2>1. new = NewHistory(entry)
    BY ChangedIs
  <2> HIDE DEF old, new
  <2>2. /\ Len(NewHistory(entry)) = Least(Len(entry.history) + 1, InHistory)
        /\ \A i \in 1 .. Len(NewHistory(entry)) :
             NewHistory(entry)[i] = IF i = 1 THEN entry.password ELSE entry.history[i - 1]
    BY <1>2, NewHistoryIs
  <2> QED
    BY <2>1, <2>2 DEF old
<1>4. /\ past' \in Seq(Words) /\ Len(past') = Len(past) + 1 /\ past'[1] = word
      /\ \A i \in 2 .. Len(past') : past'[i] = past[i - 1]
  <2>1. word \in Words /\ past' = <<word>> \o past
    BY ChangedIs DEF CommitChange
  <2>2. <<word>> \in Seq(Words) /\ Len(<<word>>) = 1 /\ <<word>>[1] = word
    BY <2>1
  <2> HIDE DEF word
  <2> QED
    BY <1>2, <2>1, <2>2, ConcatProperties
<1>5. /\ Len(old) = Least(Len(past) - 1, InHistory) /\ past[1] = entry.password.word
      /\ \A i \in 1 .. Len(old) : old[i].word = past[i + 1]
  BY DEF Undisturbed, Remembered
<1>6. /\ entry'.password.word = word /\ entry'.password.alg = NewAlg /\ ~Reused(entry, word)
  <2>1. entry'.password = [alg |-> NewAlg, word |-> word]
    BY ChangedIs
  <2>2. ~Reused(entry, word)
    BY ChangedIs
  <2> QED
    BY <2>1, <2>2
<1> HIDE DEF word, old, new
<1>7. Counted'
  <2>1. entry'.fails = 0 /\ entry'.locked = 0 /\ streak' = 0 /\ now' = now
    BY ChangedIs DEF CommitChange, Never
  <2> QED
    BY <1>2, <2>1, PolicyAssumption DEF Counted
<1>8. Remembered'
  <2>1. Len(new) = Least(Len(past') - 1, InHistory)
    BY <1>2, <1>3, <1>4, <1>5, PolicyAssumption DEF Least
  <2>2. Len(new) <= Len(past)
    BY <1>2, <1>4, <2>1, PolicyAssumption DEF Least
  <2>3. ASSUME NEW i \in 1 .. Len(new) PROVE new[i].word = past'[i + 1]
    <3>1. i \in Nat /\ Len(new) \in Nat /\ past'[i + 1] = past[i]
      <4>1. Len(new) \in Nat /\ i \in Nat
        BY <1>2, <1>3, PolicyAssumption DEF Least
      <4>2. i + 1 \in 2 .. Len(past') /\ (i + 1) - 1 = i
        BY <1>2, <1>4, <2>2, <4>1
      <4> QED
        BY <1>4, <4>1, <4>2
    <3>2. CASE i = 1
      BY <1>3, <1>5, <3>1, <3>2
    <3>3. CASE i # 1
      <4>1. i - 1 \in 1 .. Len(old)
        BY <1>2, <1>3, <3>1, <3>3, PolicyAssumption DEF Least
      <4> QED
        BY <1>3, <1>5, <3>1, <3>3, <4>1
    <3> QED
      BY <3>2, <3>3
  <2>4. ASSUME NEW i \in 2 .. Len(past'), i <= InHistory + 2 PROVE past'[1] # past'[i]
    <3>1. /\ entry.password.word # word
          /\ \A j \in 1 .. Len(old) : old[j].word # word
      BY <1>2, <1>6 DEF Reused, old, Entries
    <3>2. CASE i = 2
      BY <1>2, <1>4, <1>5, <3>1, <3>2
    <3>3. CASE i # 2
      <4>1. i - 2 \in 1 .. Len(old)
        BY <1>2, <1>4, <1>5, <2>4, <3>3, PolicyAssumption DEF Least
      <4>2. old[i - 2].word = past[i - 1]
        BY <1>5, <4>1, <1>4
      <4> QED
        BY <1>4, <3>1, <4>1, <4>2
    <3> QED
      BY <3>2, <3>3
  <2> QED
    BY <1>2, <1>4, <1>6, <2>1, <2>3, <2>4 DEF Remembered, new
<1>9. Salted'
  <2> SUFFICES ASSUME UseBcrypt PROVE Salted'
    BY DEF Salted
  <2>1. entry'.password.alg # "sha"
    BY <1>6 DEF NewAlg
  <2>2. /\ \A i \in 1 .. Len(old) : old[i].alg = "sha" => entry.shaSalt
        /\ \A i, j \in 1 .. Len(old) : old[i].alg = "sha" /\ old[j].alg = "sha" => i = j
        /\ entry.password.alg = "sha" => \A i \in 1 .. Len(old) : old[i].alg # "sha"
    BY DEF Undisturbed, Salted, IsSha, old
  <2>3. ASSUME NEW i \in 1 .. Len(new), i # 1
        PROVE  i - 1 \in 1 .. Len(old) /\ new[i] = old[i - 1] /\ i <= InHistory
    BY <1>2, <1>3, <2>3, PolicyAssumption DEF Least
  <2>4. ASSUME NEW i \in 1 .. Len(new), new[i].alg = "sha" PROVE entry'.shaSalt
    <3>1. CASE i = 1
      BY <1>3, <2>4, <3>1, ChangedIs
    <3>2. CASE i # 1
      <4>1. i - 1 \in 1 .. Len(old) /\ old[i - 1].alg = "sha" /\ i <= InHistory
        BY <2>3, <2>4, <3>2
      <4>2. ASSUME NEW j \in Dropped(entry) PROVE entry.history[j].alg # "sha"
        <5>1. j \in 1 .. Len(old) /\ j + 1 > InHistory
          BY <1>2 DEF Dropped, old, Entries
        <5> QED
          BY <2>2, <4>1, <5>1, PolicyAssumption DEF old
      <4> QED
        BY <2>2, <4>1, <4>2, ChangedIs
    <3> QED
      BY <3>1, <3>2
  <2>5. ASSUME NEW i \in 1 .. Len(new), NEW j \in 1 .. Len(new),
               new[i].alg = "sha", new[j].alg = "sha"
        PROVE  i = j
    <3>1. CASE i = 1 /\ j # 1
      BY <1>3, <2>2, <2>3, <2>5, <3>1
    <3>2. CASE i # 1 /\ j = 1
      BY <1>3, <2>2, <2>3, <2>5, <3>2
    <3>3. CASE i # 1 /\ j # 1
      <4>1. i - 1 = j - 1
        BY <2>2, <2>3, <2>5, <3>3
      <4> QED
        BY <4>1
    <3> QED
      BY <3>1, <3>2, <3>3
  <2> QED
    BY <2>1, <2>4, <2>5 DEF Salted, IsSha, new
<1> QED
  BY <1>1, <1>7, <1>8, <1>9 DEF Undisturbed

LEMMA InvStep == TypeOK /\ PasswordInv /\ [Next]_vars => PasswordInv'
<1> SUFFICES ASSUME TypeOK, PasswordInv, [Next]_vars, ~disturbed' PROVE Undisturbed'
  BY DEF PasswordInv
<1>1. ~disturbed /\ Undisturbed
  BY Monotone DEF PasswordInv
<1>2. entry.fails \in 0 .. MaxFailure /\ entry.fails = streak
  BY <1>1 DEF TypeOK, Entries, Undisturbed, Counted
<1>3. CASE UNCHANGED vars
  BY <1>1, <1>3 DEF vars, Undisturbed, Single, AllFit, Fits, Attempt, SameSecrets, Counted,
                    Remembered, Salted, IsSha
<1>4. CASE Tick
  BY <1>1, <1>4, ClockStep
<1>5. CASE Throw
  BY <1>1, <1>5 DEF Throw, Undisturbed, Single, AllFit, Counted, Remembered, Salted, IsSha
<1>6. ASSUME NEW s \in Slots, req' = [req EXCEPT ![s] = Idle],
             UNCHANGED <<entry, now, past, streak, unlocked>>
      PROVE  Undisturbed'
  BY <1>1, <1>6, SlotStep
<1>7. ASSUME NEW s \in Slots,
             BeginBind(s) \/ BeginCompare(s) \/ BeginChange(s) \/ BeginUnlock(s)
      PROVE  Undisturbed'
  <2>0. entry.password.word \in Words
    BY DEF TypeOK, Entries, Hashes
  <2>1. PICK type \in {"bind", "compare", "change", "unlock"}, word \in Words :
            Begin(s, type, word)
    BY <1>7, <2>0 DEF BeginBind, BeginCompare, BeginChange, BeginUnlock
  <2> DEFINE q == [type |-> type, step |-> "salt", word |-> word, policy |-> TRUE,
                   salted |-> entry, loaded |-> entry, success |-> FALSE]
  <2>2. Fits(q)
    BY DEF Fits
  <2>3. \A t \in Slots : req[t] = Idle
    BY <1>1, <2>1 DEF Begin
  <2>4. req' = [req EXCEPT ![s] = q] /\ UNCHANGED <<entry, now, past, streak, unlocked>>
    BY <2>1 DEF Begin
  <2> HIDE DEF q
  <2> QED
    BY <1>1, <2>2, <2>3, <2>4, SlotStep
<1>8. ASSUME NEW s \in Slots, BindSalt(s) \/ CompareSalt(s) PROVE Undisturbed'
  <2>1. /\ req[s] \in Requests /\ req[s] # Idle /\ req[s].type \in Attempts
        /\ req[s].type = "compare" => CompareSalt(s)
    BY <1>8, AtRequest DEF BindSalt, CompareSalt, Attempts
  <2> DEFINE a == [req[s] EXCEPT !.step = "policy"]
             b == [a EXCEPT !.salted = entry]
             q == [b EXCEPT !.loaded = entry]
  <2>2. \/ Throw
        \/ /\ \/ req' = [req EXCEPT ![s] = Idle]
              \/ /\ req' = [req EXCEPT ![s] = q]
                 /\ req[s].type = "compare" => entry.locked <= now
           /\ UNCHANGED <<entry, now, past, streak, unlocked>>
    <3>1. CASE BindSalt(s)
      <4>1. req[s].type = "bind"
        BY <3>1 DEF BindSalt, At
      <4> QED
        BY <3>1, <4>1 DEF BindSalt, TypeOK
    <3>2. CASE CompareSalt(s)
      <4>1. entry.locked \in Nat /\ now \in Nat
        BY BoundsAssumption DEF TypeOK, Entries
      <4> HIDE DEF q
      <4>2. \/ now < entry.locked /\ req' = [req EXCEPT ![s] = Idle]
            \/ ~(now < entry.locked) /\ req' = [req EXCEPT ![s] = q]
        BY <3>2 DEF CompareSalt, Finish, TypeOK, q
      <4>3. UNCHANGED <<entry, now, past, streak, unlocked>>
        BY <3>2 DEF CompareSalt
      <4> QED
        BY <4>1, <4>2, <4>3
    <3> QED
      BY <1>8, <3>1, <3>2
  <2>3. a \in Requests /\ a.type = req[s].type /\ a.step = "policy"
    BY <2>1 DEF Requests
  <2> HIDE DEF a
  <2>4. b \in Requests /\ b.type = a.type /\ b.step = a.step
    BY <2>3 DEF Requests, TypeOK
  <2> HIDE DEF b
  <2>5. q.type = b.type /\ q.step = b.step /\ q.loaded = entry
    BY <2>4 DEF Requests
  <2> HIDE DEF q
  <2>6. (req[s].type = "compare" => entry.locked <= now) => Fits(q)
    BY <2>1, <2>3, <2>4, <2>5 DEF Fits, Attempts
  <2> QED
    BY <1>1, <1>5, <1>6, <2>1, <2>2, <2>6, SlotStep
<1>9. ASSUME NEW s \in Slots, LoginNow(s), req[s].loaded = entry, req[s].loaded.fails = 0
      PROVE  Undisturbed'
  <2>1. UNCHANGED <<entry, now, past, streak, unlocked>>
    BY <1>2, <1>9 DEF LoginNow
  <2> QED
    BY <1>6, <1>9, <2>1 DEF LoginNow, Finish
<1>10. ASSUME NEW s \in Slots, BindPolicy(s) PROVE Undisturbed'
  <2> DEFINE e == req[s].loaded
  <2>1. /\ req[s] \in Requests /\ req[s] # Idle /\ req[s].type \in Attempts
        /\ req[s].step = "policy" /\ e \in Entries
    BY <1>10, AtRequest DEF BindPolicy, Requests, Attempts
  <2>2. e = entry
    BY <1>1, <2>1 DEF Undisturbed, AllFit, Fits
  <2>3. PICK policy \in BOOLEAN :
            \/ ToCommit(s, Succeeded(e), TRUE, policy)
            \/ e.fails = 0 /\ LoginNow(s)
            \/ ToCommit(s, Failed(e, now), FALSE, policy)
            \/ Throw
    BY <1>10, <2>1 DEF BindPolicy
  <2>4. Succeeded(entry) \in Entries /\ Failed(entry, now) \in Entries
    BY <2>1, <2>2, SucceededIs, FailedIs, BoundsAssumption DEF TypeOK
  <2>5. disturbed' \in BOOLEAN
    BY TypeStep DEF TypeOK
  <2> HIDE DEF e
  <2>6. CASE ToCommit(s, Succeeded(e), TRUE, policy)
    BY <1>1, <2>1, <2>2, <2>4, <2>5, <2>6, PreparedFits
  <2>7. CASE ToCommit(s, Failed(e, now), FALSE, policy)
    BY <1>1, <2>1, <2>2, <2>4, <2>5, <2>7, PreparedFits
  <2> QED
    BY <1>5, <1>9, <2>2, <2>3, <2>6, <2>7 DEF e
<1>11. ASSUME NEW s \in Slots, ComparePolicy(s) PROVE Undisturbed'
  <2> DEFINE e == req[s].loaded
             found == e.password.word = req[s].word
  <2>1. /\ req[s] \in Requests /\ req[s] # Idle /\ req[s].type \in Attempts
        /\ req[s].step = "policy" /\ e \in Entries
    BY <1>11, AtRequest DEF ComparePolicy, Requests, Attempts
  <2>2. e = entry
    BY <1>1, <2>1 DEF Undisturbed, AllFit, Fits
  <2>3. PICK policy \in BOOLEAN :
            /\ disturbed' = (disturbed \/ ~policy)
            /\ \/ ToCommit(s, Failed(e, now), FALSE, policy)
               \/ (found \/ ~policy) /\ ToCommit(s, Succeeded(e), found, policy)
               \/ e.fails = 0 /\ LoginNow(s)
               \/ Finish(s) /\ UNCHANGED <<entry, now, past, streak, unlocked>>
    BY <1>11, <2>1 DEF ComparePolicy
  <2>4. Succeeded(entry) \in Entries /\ Failed(entry, now) \in Entries
    BY <2>1, <2>2, SucceededIs, FailedIs, BoundsAssumption DEF TypeOK
  <2>5. disturbed' \in BOOLEAN /\ policy
    BY <2>3, TypeStep DEF TypeOK
  <2>6. CASE ToCommit(s, Failed(e, now), FALSE, policy)
    <3> HIDE DEF e
    <3> QED
      BY <1>1, <2>1, <2>2, <2>4, <2>5, <2>6, PreparedFits
  <2>7. CASE found /\ ToCommit(s, Succeeded(e), found, policy)
    <3>1. ToCommit(s, Succeeded(e), TRUE, policy)
      BY <2>7 DEF ToCommit
    <3> HIDE DEF e
    <3> QED
      BY <1>1, <2>1, <2>2, <2>4, <2>5, <3>1, PreparedFits
  <2>8. CASE Finish(s) /\ UNCHANGED <<entry, now, past, streak, unlocked>>
    BY <1>6, <2>8 DEF Finish
  <2>9. CASE e.fails = 0 /\ LoginNow(s)
    BY <1>9, <2>2, <2>9
  <2> HIDE DEF e, found
  <2> QED
    BY <2>3, <2>5, <2>6, <2>7, <2>8, <2>9
<1>12. ASSUME NEW s \in Slots, ChangeSalt(s) \/ ChangeLoad(s) PROVE Undisturbed'
  <2>1. req[s] \in Requests /\ req[s] # Idle /\ req[s].type = "change"
    BY <1>12, AtRequest DEF ChangeSalt, ChangeLoad
  <2>2. Fits(req[s])
    BY <1>1, <2>1 DEF Undisturbed, AllFit
  <2> DEFINE a == [req[s] EXCEPT !.step = "policy"]
             b == [a EXCEPT !.salted = entry]
             c == [req[s] EXCEPT !.step = "commit"]
             d == [c EXCEPT !.loaded = entry]
  <2>3. \/ ChangeSalt(s) /\ req' = [req EXCEPT ![s] = b]
        \/ ChangeLoad(s) /\ req' = [req EXCEPT ![s] = d]
    BY <1>12 DEF ChangeSalt, ChangeLoad, TypeOK
  <2>4. /\ a \in Requests /\ a.type = "change" /\ a.step = "policy"
        /\ c \in Requests /\ c.type = "change" /\ c.step = "commit"
        /\ c.salted = req[s].salted /\ c.word = req[s].word
    BY <2>1 DEF Requests
  <2> HIDE DEF a, c
  <2>5. /\ b.type = "change" /\ b.step = "policy" /\ b.salted = entry
        /\ d.type = "change" /\ d.step = "commit" /\ d.loaded = entry
        /\ d.salted = req[s].salted /\ d.word = req[s].word
    BY <2>4 DEF Requests
  <2> HIDE DEF b, d
  <2>6. CASE ChangeSalt(s)
    <3>1. Fits(b)
      BY <2>5 DEF Fits, Attempts
    <3>2. req' = [req EXCEPT ![s] = b] /\ UNCHANGED <<entry, now, past, streak, unlocked>>
      BY <2>3, <2>6 DEF ChangeSalt, ChangeLoad, At
    <3> QED
      BY <1>1, <2>1, <3>1, <3>2, SlotStep
  <2>7. CASE ChangeLoad(s)
    <3>1. req[s].step = "load"
      BY <2>7 DEF ChangeLoad, At
    <3>2. Fits(d)
      BY <2>1, <2>2, <2>5, <3>1 DEF Fits, Attempts
    <3>3. req' = [req EXCEPT ![s] = d] /\ UNCHANGED <<entry, now, past, streak, unlocked>>
      BY <2>3, <2>7 DEF ChangeSalt, ChangeLoad, At
    <3> QED
      BY <1>1, <2>1, <3>2, <3>3, SlotStep
  <2> QED
    BY <1>12, <2>6, <2>7
<1>13. ASSUME NEW s \in Slots, ChangePolicy(s) PROVE Undisturbed'
  <2>1. /\ req[s] \in Requests /\ req[s] # Idle /\ req[s].type = "change"
        /\ req[s].step = "policy"
    BY <1>13, AtRequest DEF ChangePolicy
  <2>2. req[s].salted = entry
    BY <1>1, <2>1 DEF Undisturbed, AllFit, Fits
  <2> DEFINE q == [req[s] EXCEPT !.step = "load"]
  <2>3. \/ Throw
        \/ /\ \/ req' = [req EXCEPT ![s] = Idle]
              \/ ~Reused(entry, req[s].word) /\ req' = [req EXCEPT ![s] = q]
           /\ UNCHANGED <<entry, now, past, streak, unlocked>>
    BY <1>13, <2>2 DEF ChangePolicy, TypeOK
  <2>4. q.type = "change" /\ q.step = "load" /\ q.salted = req[s].salted /\ q.word = req[s].word
    BY <2>1 DEF Requests
  <2> HIDE DEF q
  <2>5. ~Reused(entry, req[s].word) => Fits(q)
    BY <2>2, <2>4 DEF Fits
  <2> QED
    BY <1>1, <1>5, <1>6, <2>1, <2>3, <2>5, SlotStep
<1>14. ASSUME NEW s \in Slots, MorayFails(s) PROVE Undisturbed'
  BY <1>6, <1>14 DEF MorayFails, Finish
<1>15. ASSUME NEW s \in Slots, CommitAttempt(s) \/ CommitChange(s) PROVE Undisturbed'
  BY <1>1, <1>15, AttemptStep, ChangeStep
<1>16. ASSUME NEW s \in Slots, UnlockLoad(s) PROVE Undisturbed'
  <2>1. req[s] \in Requests /\ req[s] # Idle /\ req[s].type = "unlock"
    BY <1>16, AtRequest DEF UnlockLoad
  <2> DEFINE c == [req[s] EXCEPT !.step = "commit"]
             d == [c EXCEPT !.loaded = entry]
  <2>2. req' = [req EXCEPT ![s] = d] /\ UNCHANGED <<entry, now, past, streak, unlocked>>
    BY <1>16 DEF UnlockLoad, TypeOK
  <2>3. c \in Requests /\ c.type = "unlock" /\ c.step = "commit"
    BY <2>1 DEF Requests
  <2> HIDE DEF c
  <2>4. d.type = "unlock" /\ d.step = "commit" /\ d.loaded = entry
    BY <2>3 DEF Requests
  <2> HIDE DEF d
  <2>5. Fits(d)
    BY <2>4 DEF Fits, Attempts
  <2> QED
    BY <1>1, <2>1, <2>2, <2>5, SlotStep
<1>17. ASSUME NEW s \in Slots, CommitUnlock(s) PROVE Undisturbed'
  BY <1>1, <1>17, UnlockStep
<1> QED
  BY <1>3, <1>4, <1>7, <1>8, <1>10, <1>11, <1>12, <1>13, <1>14, <1>15, <1>16, <1>17 DEF Next

LEMMA InvHolds == Spec => [](TypeOK /\ PasswordInv)
<1>1. Init => TypeOK /\ PasswordInv
  BY TypeInit, InvInit
<1>2. TypeOK /\ PasswordInv /\ [Next]_vars => (TypeOK /\ PasswordInv)'
  BY TypeStep, InvStep
<1> QED
  BY <1>1, <1>2, PTL DEF Spec

-----------------------------------------------------------------------------
(* The attempts on record are those that failed in a row, under any policy *)
(* (logFailedLoginAttempt, removeFailedLoginAttempts, salt.modify).        *)
THEOREM FailuresCountedHolds == Spec => []FailuresCounted
<1>1. PasswordInv => FailuresCounted
  BY DEF PasswordInv, Undisturbed, Counted, FailuresCounted
<1> QED
  BY <1>1, InvHolds, PTL

(* As many failures in a row as the policy allows leave a lock             *)
(* (logFailedLoginAttempt).                                                *)
THEOREM FailuresLockHolds == Spec => []FailuresLock
<1>1. PasswordInv => FailuresLock
  BY DEF PasswordInv, Undisturbed, Counted, FailuresLock
<1> QED
  BY <1>1, InvHolds, PTL

(* The history is the passwords before the present one, newest first, for  *)
(* any pwdinhistory (checkPwdHistory, salt.modify).                        *)
THEOREM HistoryFaithfulHolds == Spec => []HistoryFaithful
<1>1. TypeOK /\ PasswordInv => HistoryFaithful
  <2> SUFFICES ASSUME TypeOK, PasswordInv, ~disturbed PROVE HistoryFaithful
    BY DEF HistoryFaithful
  <2>1. DOMAIN entry.history = 1 .. Len(entry.history)
    BY DEF TypeOK, Entries
  <2> QED
    BY <2>1 DEF PasswordInv, Undisturbed, Remembered, HistoryFaithful
<1> QED
  BY <1>1, InvHolds, PTL

(* A password is not used again before pwdinhistory others have followed   *)
(* it (checkPwdHistory).                                                   *)
THEOREM NoReuseHolds == Spec => []NoReuse
<1>1. PasswordInv => NoReuse
  BY DEF PasswordInv, Undisturbed, Remembered, NoReuse
<1> QED
  BY <1>1, InvHolds, PTL

(* The salt of an imported account outlives its password in the history    *)
(* (salt.modify).                                                          *)
THEOREM LegacySaltHolds == Spec => []LegacySaltKept
<1>1. TypeOK /\ PasswordInv => LegacySaltKept
  <2> SUFFICES ASSUME TypeOK, PasswordInv, ~disturbed PROVE LegacySaltKept
    BY DEF LegacySaltKept
  <2>1. DOMAIN entry.history = 1 .. Len(entry.history)
    BY DEF TypeOK, Entries
  <2> QED
    BY <2>1 DEF PasswordInv, Undisturbed, Salted, IsSha, LegacySaltKept
<1> QED
  BY <1>1, InvHolds, PTL

(* A locked account is out of a compare's reach: it gets no answer and     *)
(* leaves no trace, whenever the lock was set and whatever the clock does  *)
(* while it is under way (compare).                                        *)
THEOREM LockHonouredHolds == Spec => LockHonoured
<1>1. ASSUME TypeOK, PasswordInv, [Next]_vars, ~disturbed, now < entry.locked,
             NEW s \in Slots, req[s] # Idle, req[s].type = "compare"
      PROVE  (answer' = "none" /\ UNCHANGED entry) \/ UNCHANGED vars
  <2>1. Undisturbed /\ Fits(req[s]) /\ req[s] \in Requests
    BY <1>1 DEF PasswordInv, Undisturbed, AllFit, TypeOK
  <2>2. now \in Nat /\ entry.locked \in Nat
    BY <1>1, BoundsAssumption DEF TypeOK, Entries
  <2>3. req[s].step = "salt"
    BY <1>1, <2>1, <2>2 DEF Fits
  <2>4. ASSUME NEW t \in Slots, req[t] # Idle PROVE t = s
    BY <1>1, <2>1, <2>4 DEF Undisturbed, Single
  <2>5. CASE Tick
    BY <2>5 DEF Tick, Unanswered
  <2>6. ASSUME NEW t \in Slots,
               \/ BeginBind(t) \/ BeginCompare(t) \/ BeginChange(t) \/ BeginUnlock(t)
               \/ MorayFails(t) \/ BindSalt(t) \/ CompareSalt(t)
               \/ ChangeSalt(t) \/ ChangePolicy(t) \/ ChangeLoad(t) \/ UnlockLoad(t)
        PROVE  answer' = "none" /\ UNCHANGED entry
    BY <2>6 DEF BeginBind, BeginCompare, BeginChange, BeginUnlock, Begin, MorayFails, BindSalt,
                CompareSalt, ChangeSalt, ChangePolicy, ChangeLoad, UnlockLoad, Throw, Unanswered
  <2>7. ASSUME NEW t \in Slots,
               \/ BindPolicy(t) \/ ComparePolicy(t) \/ CommitAttempt(t)
               \/ CommitChange(t) \/ CommitUnlock(t)
        PROVE  FALSE
    <3>1. req[t] # Idle /\ req[t].step # "salt"
      BY <2>7 DEF BindPolicy, ComparePolicy, CommitAttempt, CommitChange, CommitUnlock, At
    <3> QED
      BY <2>3, <2>4, <3>1
  <2> QED
    BY <1>1, <2>5, <2>6, <2>7 DEF Next
<1>2. TypeOK /\ PasswordInv /\ [Next]_vars =>
        [~disturbed /\ now < entry.locked =>
            \A s \in Slots : req[s] # Idle /\ req[s].type = "compare" =>
                answer' = "none" /\ UNCHANGED entry]_vars
  BY <1>1 DEF vars
<1> QED
  BY <1>2, InvHolds, PTL DEF Spec, LockHonoured

=============================================================================
