---------------------------- MODULE RoleLinksProofs ----------------------------
(***************************************************************************)
(* What TLAPS proves about RoleLinks for every account, every number of    *)
(* requests and every list of changes: the types, that the batch of a      *)
(* request touches other entries in its own DN only, and that requests     *)
(* that do not overlap keep roles and policies symmetric.                  *)
(***************************************************************************)
EXTENDS RoleLinks, TLAPS

\* The DNs of the entries a request still has to load or has loaded.
AllJobs(r) == r.jobs \cup {o.job : o \in r.objects}

\* A request is what its handlers make of it.
Shaped(r) ==
    /\ r \in Requests
    /\ r.changes \in ChangeLists(r.dn)
    /\ r.entry \subseteq OtherKind(r.dn)
    /\ \A job \in AllJobs(r) : job.dn \in OtherKind(r.dn)
    /\ r.step = "load" => r.type # "add"

\* TypeOK is not inductive alone: the DN of a request stays within its kind
\* of entry on the lists it is put on.
TypeInv ==
    /\ links \in [DNs -> (SUBSET DNs) \cup {NoEntry}]
    /\ \A dn \in DNs : Present(dn) => links[dn] \subseteq OtherKind(dn)
    /\ req \in [Slots -> Requests \cup {Idle}]
    /\ \A s \in Slots : req[s] # Idle => Shaped(req[s])
    /\ overlapped \in BOOLEAN

-----------------------------------------------------------------------------
\* The two kinds of entries list each other, never themselves.
LEMMA Kinds ==
    ASSUME NEW dn \in DNs
    PROVE  /\ OtherKind(dn) \subseteq DNs /\ dn \notin OtherKind(dn)
           /\ \A other \in OtherKind(dn) : dn \in OtherKind(other)
BY KindsAssumption DEF OtherKind, DNs

\* NoEntry is not a list.
LEMMA NoEntryIsNoList == \A list \in SUBSET DNs : list # NoEntry
BY NoEntryAssumption DEF NoEntry

\* Idle is not a request.
LEMMA IdleIsNoRequest == Idle \notin Requests
<1> SUFFICES ASSUME Idle \in Requests PROVE FALSE
    OBVIOUS
<1>1. Idle.type \in Types
    BY DEF Requests
<1> QED BY <1>1 DEF Idle, Types

\* The types of a request that is shaped.
LEMMA ShapedTypes == ASSUME TypeInv PROVE TypeOK
<1>1. ASSUME NEW s \in Slots, req[s] # Idle
      PROVE  /\ req[s].type \in Types /\ req[s].step \in Steps /\ req[s].dn \in DNs
             /\ req[s].changes \in ChangeLists(req[s].dn)
             /\ req[s].entry \subseteq OtherKind(req[s].dn)
             /\ req[s].jobs \subseteq Jobs
             /\ \A o \in req[s].objects : o.job \in Jobs /\ o.loaded \subseteq DNs
    BY <1>1 DEF TypeInv, Shaped, Requests, Objects
<1> QED BY <1>1 DEF TypeInv, TypeOK, Present

\* The jobs of a modification are about the other kind.
LEMMA ModifyJobsType ==
    ASSUME NEW dn \in DNs, NEW changes \in ChangeLists(dn), NEW entry, entry \subseteq OtherKind(dn)
    PROVE  /\ ModifyJobs(entry, changes) \subseteq Jobs
           /\ \A job \in ModifyJobs(entry, changes) : job.dn \in OtherKind(dn)
<1> SUFFICES ASSUME NEW job \in ModifyJobs(entry, changes)
             PROVE  job \in Jobs /\ job.dn \in OtherKind(dn)
    OBVIOUS
<1>1. PICK n \in 0 .. MaxChanges : changes \in [1 .. n -> Changes(dn)]
    BY DEF ChangeLists
<1>2. PICK i \in DOMAIN changes :
          job \in [index : {i}, dn : ToLink(entry, changes[i]), put : {TRUE}]
                    \cup [index : {i}, dn : ToUnlink(entry, changes[i]), put : {FALSE}]
    BY DEF ModifyJobs
<1>3. i \in 1 .. MaxChanges + 1 /\ changes[i] \in Changes(dn)
    BY <1>1, <1>2, ChangesAssumption
<1>4. changes[i].vals \subseteq OtherKind(dn) /\ changes[i].op \in Ops
    BY <1>3 DEF Changes
<1>5. /\ ToLink(entry, changes[i]) \subseteq OtherKind(dn)
      /\ ToUnlink(entry, changes[i]) \subseteq OtherKind(dn)
    BY <1>4 DEF ToLink, ToUnlink, Ops
<1> QED BY <1>2, <1>3, <1>5, Kinds DEF Jobs

\* The result of a modification lists the other kind.
LEMMA ResultType ==
    ASSUME NEW dn \in DNs, NEW changes \in ChangeLists(dn), NEW entry, entry \subseteq OtherKind(dn)
    PROVE  Result(entry, changes) \subseteq OtherKind(dn)
<1> SUFFICES ASSUME NEW x \in Result(entry, changes) PROVE x \in OtherKind(dn)
    OBVIOUS
<1>1. PICK n \in 0 .. MaxChanges : changes \in [1 .. n -> Changes(dn)]
    BY DEF ChangeLists
<1>2. n \in Nat /\ Len(changes) = n
    BY <1>1, ChangesAssumption
<1>3. PICK i \in 0 .. n : IF i = 0 THEN x \in entry ELSE x \in Modified({}, changes[i])
    BY <1>2 DEF Result
<1>4. CASE i # 0
    <2>1. changes[i] \in Changes(dn)
        BY <1>1, <1>3, <1>4
    <2>2. changes[i].vals \subseteq OtherKind(dn) /\ changes[i].op \in Ops
        BY <2>1 DEF Changes
    <2> QED BY <1>3, <1>4, <2>2 DEF Modified, Ops
<1> QED BY <1>3, <1>4

\* A request that begins has neither jobs nor objects.
Fresh(r) == r.jobs = {} /\ r.objects = {} /\ r.step \in {"begin", "load"}

\* What a step makes of a request: the next step, with what is known of the
\* jobs to do and done.
LEMMA BeginShape ==
    ASSUME NEW s \in Slots, BeginAdd(s) \/ BeginModify(s) \/ BeginDelete(s)
    PROVE  \E r : Begin(s, r) /\ Shaped(r) /\ Fresh(r)
<1>2. ASSUME NEW dn \in DNs, NEW type \in Types, NEW step \in {"begin", "load"},
             step = "load" => type # "add",
             NEW changes \in ChangeLists(dn), NEW entry, entry \subseteq OtherKind(dn), NEW r,
             r = [type |-> type, step |-> step, dn |-> dn, changes |-> changes,
                  entry |-> entry, jobs |-> {}, objects |-> {}]
      PROVE  Shaped(r) /\ Fresh(r)
    <2>1. entry \subseteq DNs
        BY <1>2, Kinds
    <2> QED BY <1>2, <2>1 DEF Shaped, Fresh, Requests, AllJobs, Steps
<1>3. ASSUME NEW dn \in DNs PROVE <<>> \in ChangeLists(dn)
    <2>1. <<>> \in [1 .. 0 -> Changes(dn)] /\ 0 \in 0 .. MaxChanges
        BY ChangesAssumption
    <2> QED BY <2>1 DEF ChangeLists
<1>4. CASE BeginAdd(s)
    <2>1. PICK dn \in DNs : \E members \in SUBSET OtherKind(dn) :
            Begin(s, [type |-> "add", step |-> "begin", dn |-> dn, changes |-> <<>>,
                      entry |-> members, jobs |-> {}, objects |-> {}])
        BY <1>4 DEF BeginAdd
    <2> QED BY <1>2, <1>3, <2>1 DEF Types
<1>5. CASE BeginModify(s)
    <2>1. PICK dn \in DNs : \E changes \in ChangeLists(dn) :
            Begin(s, [type |-> "modify", step |-> "load", dn |-> dn, changes |-> changes,
                      entry |-> {}, jobs |-> {}, objects |-> {}])
        BY <1>5 DEF BeginModify
    <2> QED BY <1>2, <2>1 DEF Types
<1>6. CASE BeginDelete(s)
    <2>1. PICK dn \in DNs :
            Begin(s, [type |-> "delete", step |-> "begin", dn |-> dn, changes |-> <<>>,
                      entry |-> {}, jobs |-> {}, objects |-> {}])
        BY <1>6 DEF BeginDelete
    <2> QED BY <1>2, <1>3, <2>1 DEF Types
<1> QED BY <1>4, <1>5, <1>6

\* The jobs a request is made for, from its list as it was sent or loaded.
Expected(r) ==
    CASE r.type = "add" -> [index : {1}, dn : r.entry, put : {TRUE}]
      [] r.type = "delete" -> [index : {1}, dn : r.entry, put : {FALSE}]
      [] r.type = "modify" -> ModifyJobs(r.entry, r.changes)

\* One step of a request that does not end it: r is the request before, n
\* after it.
Prepared(r, n) ==
    /\ n.type = r.type /\ n.dn = r.dn /\ n.changes = r.changes
    /\ \/ \* entryExists of a delete
          /\ r.step = "begin" /\ n.step = "load"
          /\ n.jobs = r.jobs /\ n.objects = r.objects
       \/ \* the jobs are known
          /\ r.step \in {"begin", "load"}
          /\ n.step = (IF n.jobs = {} THEN "commit" ELSE "linked")
          /\ n.objects = r.objects
          /\ n.jobs = Expected(n)
          /\ IF r.type = "add" THEN ~Present(r.dn) ELSE Present(r.dn) /\ n.entry = links[r.dn]
       \/ \* a linked entry is loaded
          /\ r.step = "linked"
          /\ n.step = (IF n.jobs = {} THEN "commit" ELSE "linked")
          /\ n.entry = r.entry
          /\ \E job \in r.jobs :
                /\ Present(job.dn)
                /\ n.jobs = r.jobs \ {job}
                /\ n.objects = r.objects \cup {[job |-> job, loaded |-> links[job.dn]]}

\* A request after a load, with jobs left or not.
LEMMA WithJobsIs ==
    ASSUME NEW r \in Requests, NEW jobs \in SUBSET Jobs, NEW n, n = WithJobs(r, jobs)
    PROVE  /\ n \in Requests
           /\ n.type = r.type /\ n.dn = r.dn /\ n.changes = r.changes
           /\ n.entry = r.entry /\ n.objects = r.objects /\ n.jobs = jobs
           /\ n.step = IF jobs = {} THEN "commit" ELSE "linked"
<1>1. (IF jobs = {} THEN "commit" ELSE "linked") \in Steps
    BY DEF Steps
<1> QED BY <1>1 DEF WithJobs, Requests

\* The same with another list or with other objects.
LEMMA RequestWith ==
    ASSUME NEW r \in Requests, NEW entry \in SUBSET DNs, NEW objects \in SUBSET Objects
    PROVE  /\ LET n == [r EXCEPT !.entry = entry]
              IN  /\ n \in Requests
                  /\ n.type = r.type /\ n.dn = r.dn /\ n.changes = r.changes
                  /\ n.entry = entry /\ n.objects = r.objects /\ n.jobs = r.jobs
           /\ LET n == [r EXCEPT !.objects = objects]
              IN  /\ n \in Requests
                  /\ n.type = r.type /\ n.dn = r.dn /\ n.changes = r.changes
                  /\ n.entry = r.entry /\ n.objects = objects /\ n.jobs = r.jobs
BY DEF Requests

\* The steps of a request before its batch is sent.
LEMMA PreparedShape ==
    ASSUME TypeInv, NEW s \in Slots,
           AddEntryExists(s) \/ DeleteEntryExists(s) \/ Load(s) \/ LoadLinked(s)
    PROVE  /\ req[s] # Idle /\ UNCHANGED <<links, overlapped>>
           /\ \/ Finish(s)
              \/ \E n : /\ req' = [req EXCEPT ![s] = n]
                        /\ Shaped(n) /\ Prepared(req[s], n)
<1> DEFINE r == req[s]
<1>1. req[s] # Idle /\ UNCHANGED <<links, overlapped>>
    BY DEF AddEntryExists, DeleteEntryExists, Load, LoadLinked, At
<1>2. Shaped(r) /\ r \in Requests /\ r.dn \in DNs
    BY <1>1 DEF TypeInv, Shaped, Requests
<1>3. /\ r.type \in Types /\ r.jobs \subseteq Jobs /\ r.objects \subseteq Objects
      /\ r.entry \subseteq OtherKind(r.dn) /\ r.changes \in ChangeLists(r.dn)
      /\ \A job \in r.jobs \cup {o.job : o \in r.objects} : job.dn \in OtherKind(r.dn)
    BY <1>2 DEF Shaped, AllJobs, Requests
<1>4. ASSUME NEW list, list \subseteq OtherKind(r.dn), NEW put \in BOOLEAN
      PROVE  LET jobs == [index : {1}, dn : list, put : {put}]
             IN  jobs \in SUBSET Jobs /\ \A job \in jobs : job.dn \in OtherKind(r.dn)
    <2>1. list \subseteq DNs /\ 1 \in 1 .. MaxChanges + 1
        BY <1>2, <1>4, Kinds, ChangesAssumption
    <2> QED BY <1>4, <2>1 DEF Jobs
<1>5. CASE AddEntryExists(s)
    <2> DEFINE jobs == [index : {1}, dn : r.entry, put : {TRUE}]
               n == WithJobs(r, jobs)
    <2>1. r.step = "begin" /\ r.type = "add"
        BY <1>5 DEF AddEntryExists, At
    <2>2. \/ Finish(s)
          \/ ~Present(r.dn) /\ req' = [req EXCEPT ![s] = n]
        BY <1>5 DEF AddEntryExists
    <2>3. jobs \in SUBSET Jobs /\ \A job \in jobs : job.dn \in OtherKind(r.dn)
        BY <1>3, <1>4
    <2>4. jobs = [index : {1}, dn : r.entry, put : {TRUE}]
        OBVIOUS
    <2> HIDE DEF jobs
    <2>5. /\ n \in Requests
          /\ n.type = r.type /\ n.dn = r.dn /\ n.changes = r.changes
          /\ n.entry = r.entry /\ n.objects = r.objects /\ n.jobs = jobs
          /\ n.step = IF jobs = {} THEN "commit" ELSE "linked"
        BY <1>2, <2>3, WithJobsIs
    <2> HIDE DEF n, r
    <2>6. Shaped(n)
        BY <1>3, <2>3, <2>5 DEF Shaped, AllJobs
    <2>7. ~Present(r.dn) => Prepared(r, n)
        BY <2>1, <2>4, <2>5 DEF Prepared, Expected
    <2> QED BY <1>1, <2>2, <2>6, <2>7 DEF r
<1>6. CASE DeleteEntryExists(s)
    <2> DEFINE n == [r EXCEPT !.step = "load"]
    <2>1. (Finish(s) \/ req' = [req EXCEPT ![s] = n]) /\ r.type = "delete" /\ r.step = "begin"
        BY <1>6 DEF DeleteEntryExists, At
    <2>2. /\ n \in Requests
          /\ n.type = r.type /\ n.dn = r.dn /\ n.changes = r.changes
          /\ n.entry = r.entry /\ n.objects = r.objects /\ n.jobs = r.jobs /\ n.step = "load"
        BY <1>2 DEF Requests, Steps
    <2> HIDE DEF n, r
    <2>3. Shaped(n) /\ Prepared(r, n)
        BY <1>3, <2>1, <2>2 DEF Shaped, AllJobs, Prepared
    <2> QED BY <1>1, <2>1, <2>3 DEF r
<1>7. CASE Load(s)
    <2> DEFINE entry == links[r.dn]
               jobs == IF r.type = "modify" THEN ModifyJobs(entry, r.changes)
                       ELSE [index : {1}, dn : entry, put : {FALSE}]
               loaded == [r EXCEPT !.entry = entry]
               n == WithJobs(loaded, jobs)
    <2>1. \/ Finish(s)
          \/ Present(r.dn) /\ req' = [req EXCEPT ![s] = n]
        BY <1>7 DEF Load
    <2> SUFFICES ASSUME Present(r.dn) PROVE Shaped(n) /\ Prepared(r, n)
        BY <1>1, <2>1
    <2>2. entry \subseteq OtherKind(r.dn) /\ entry \in SUBSET DNs
        BY <1>2, Kinds DEF TypeInv
    <2>3. r.step = "load" /\ r.type \in {"modify", "delete"}
        BY <1>1, <1>2, <1>7 DEF Load, At, Shaped, Requests, Types
    <2>4. jobs \in SUBSET Jobs /\ \A job \in jobs : job.dn \in OtherKind(r.dn)
        <3>1. CASE r.type = "modify"
            BY <1>2, <1>3, <2>2, <3>1, ModifyJobsType
        <3>2. CASE r.type # "modify"
            BY <1>4, <2>2, <3>2
        <3> QED BY <3>1, <3>2
    <2>5. jobs = IF r.type = "modify" THEN ModifyJobs(entry, r.changes)
                 ELSE [index : {1}, dn : entry, put : {FALSE}]
        OBVIOUS
    <2>6. entry = links[r.dn]
        OBVIOUS
    <2> HIDE DEF jobs, entry
    <2>7. /\ loaded \in Requests
          /\ loaded.type = r.type /\ loaded.dn = r.dn /\ loaded.changes = r.changes
          /\ loaded.entry = entry /\ loaded.objects = r.objects
        BY <1>2, <2>2, RequestWith
    <2> HIDE DEF loaded
    <2>8. /\ n \in Requests
          /\ n.type = r.type /\ n.dn = r.dn /\ n.changes = r.changes
          /\ n.entry = entry /\ n.objects = r.objects /\ n.jobs = jobs
          /\ n.step = IF jobs = {} THEN "commit" ELSE "linked"
        BY <2>4, <2>7, WithJobsIs
    <2> HIDE DEF n, r
    <2>9. Shaped(n)
        BY <1>3, <2>2, <2>4, <2>8 DEF Shaped, AllJobs
    <2>10. jobs = Expected(n)
        BY <2>3, <2>5, <2>8 DEF Expected
    <2>11. Prepared(r, n)
        BY <2>3, <2>6, <2>8, <2>10 DEF Prepared
    <2> QED BY <2>9, <2>11
<1>8. CASE LoadLinked(s)
    <2>1. PICK job \in NextJobs(s) :
            LET objects == r.objects \cup {[job |-> job, loaded |-> links[job.dn]]}
            IN  IF Present(job.dn)
                  THEN req' = [req EXCEPT ![s] =
                         WithJobs([r EXCEPT !.objects = objects], r.jobs \ {job})]
                  ELSE Finish(s)
        BY <1>8 DEF LoadLinked
    <2> DEFINE object == [job |-> job, loaded |-> links[job.dn]]
               objects == r.objects \cup {object}
               loaded == [r EXCEPT !.objects = objects]
               jobs == r.jobs \ {job}
               n == WithJobs(loaded, jobs)
    <2>2. CASE ~Present(job.dn)
        BY <1>1, <2>1, <2>2
    <2>3. CASE Present(job.dn)
        <3>1. req' = [req EXCEPT ![s] = n]
            BY <2>1, <2>3
        <3>2. job \in r.jobs /\ job \in Jobs /\ job.dn \in OtherKind(r.dn) /\ job.dn \in DNs
            BY <1>2, <1>3, Kinds DEF NextJobs
        <3>3. links[job.dn] \in SUBSET DNs
            BY <2>3, <3>2, Kinds DEF TypeInv, Present
        <3>4. object \in Objects /\ object.job = job
            BY <3>2, <3>3 DEF Objects
        <3>5. object = [job |-> job, loaded |-> links[job.dn]]
            OBVIOUS
        <3> HIDE DEF object
        <3>6. objects \in SUBSET Objects /\ jobs \in SUBSET Jobs
            BY <1>3, <3>4
        <3>7. /\ loaded \in Requests
              /\ loaded.type = r.type /\ loaded.dn = r.dn /\ loaded.changes = r.changes
              /\ loaded.entry = r.entry /\ loaded.objects = objects
            <4>1. objects \in SUBSET Objects /\ r \in Requests /\ {} \in SUBSET DNs
                BY <1>2, <3>6
            <4> HIDE DEF objects, r
            <4> QED BY <4>1, RequestWith
        <3> HIDE DEF loaded
        <3>8. /\ n \in Requests
              /\ n.type = r.type /\ n.dn = r.dn /\ n.changes = r.changes
              /\ n.entry = r.entry /\ n.objects = objects /\ n.jobs = jobs
              /\ n.step = IF jobs = {} THEN "commit" ELSE "linked"
            BY <3>6, <3>7, WithJobsIs
        <3>9. r.step = "linked"
            BY <1>8 DEF LoadLinked, At
        <3> HIDE DEF n, r
        <3>10. \A j \in n.jobs \cup {o.job : o \in n.objects} : j.dn \in OtherKind(r.dn)
            BY <1>3, <3>2, <3>4, <3>8
        <3>11. Shaped(n)
            BY <1>3, <3>8, <3>10 DEF Shaped, AllJobs
        <3>12. Prepared(r, n)
            BY <2>3, <3>2, <3>5, <3>8, <3>9 DEF Prepared
        <3> QED BY <1>1, <3>1, <3>11, <3>12 DEF r
    <2> QED BY <2>2, <2>3
<1> QED BY <1>5, <1>6, <1>7, <1>8

-----------------------------------------------------------------------------
\* A linked entry that the batch writes gets or loses the request's DN, and
\* keeps what it lists today (etags of reverseIdx and dropReverseIdx).
LEMMA RelinkedIs ==
    ASSUME NEW r, EtagsMatch(r), NEW dn, \E o \in r.objects : o.job.dn = dn
    PROVE  \E o \in r.objects :
              /\ o.job.dn = dn /\ o.loaded = links[dn]
              /\ Relinked(dn, r) = IF o.job.put THEN links[dn] \cup {r.dn} ELSE links[dn] \ {r.dn}
<1> DEFINE o == CHOOSE p \in r.objects : p.job.dn = dn
<1>1. o \in r.objects /\ o.job.dn = dn
    OBVIOUS
<1>2. o.loaded = links[dn]
    BY <1>1 DEF EtagsMatch
<1>3. Relinked(dn, r) = IF o.job.put THEN o.loaded \cup {r.dn} ELSE o.loaded \ {r.dn}
    BY DEF Relinked
<1> HIDE DEF o
<1> QED BY <1>1, <1>2, <1>3

\* What a batch leaves: nothing, or the request's entry and the linked ones.
LEMMA CommitIs ==
    ASSUME NEW s \in Slots, Commit(s)
    PROVE  LET r == req[s]
           IN  /\ r # Idle /\ r.step = "commit" /\ Finish(s) /\ UNCHANGED overlapped
               /\ \/ UNCHANGED links
                  \/ \E value :
                        /\ Write(s, value) /\ EtagsMatch(r)
                        /\ r.type = "add" => ~Present(r.dn) /\ value = r.entry
                        /\ r.type = "delete" => Present(r.dn) /\ value = NoEntry
                        /\ r.type = "modify" => value = Result(r.entry, r.changes)
BY DEF Commit, At

\* The batch of a request with a value of the right kind keeps the types.
LEMMA WriteType ==
    ASSUME TypeInv, NEW s \in Slots, req[s] # Idle, EtagsMatch(req[s]),
           NEW value, value = NoEntry \/ value \subseteq OtherKind(req[s].dn),
           Write(s, value)
    PROVE  /\ links' \in [DNs -> (SUBSET DNs) \cup {NoEntry}]
           /\ \A dn \in DNs : links'[dn] = NoEntry \/ links'[dn] \subseteq OtherKind(dn)
           /\ \A dn \in DNs \ {req[s].dn} :
                 links'[dn] = links[dn] \/ links'[dn] \cup {req[s].dn} = links[dn] \cup {req[s].dn}
<1> DEFINE r == req[s]
<1>1. Shaped(r) /\ r.dn \in DNs
    BY DEF TypeInv, Shaped, Requests
<1>2. links' = [dn \in DNs |->
                  CASE dn = r.dn -> value
                    [] dn \in {o.job.dn : o \in r.objects} -> Relinked(dn, r)
                    [] OTHER -> links[dn]]
    BY DEF Write
<1> HIDE DEF r
<1>3. ASSUME NEW dn \in DNs, dn # r.dn
      PROVE  \/ links'[dn] = links[dn]
             \/ /\ links[dn] # NoEntry /\ links[dn] \subseteq OtherKind(dn)
                /\ r.dn \in OtherKind(dn)
                /\ links'[dn] \in {links[dn] \cup {r.dn}, links[dn] \ {r.dn}}
    <2>1. CASE dn \in {o.job.dn : o \in r.objects}
        <3>1. EtagsMatch(r) /\ \E o \in r.objects : o.job.dn = dn
            BY <2>1 DEF r
        <3>2. PICK o \in r.objects :
                  /\ o.job.dn = dn /\ o.loaded = links[dn]
                  /\ Relinked(dn, r) = IF o.job.put THEN links[dn] \cup {r.dn} ELSE links[dn] \ {r.dn}
            BY <3>1, RelinkedIs
        <3>3. o \in Objects /\ o.job \in AllJobs(r)
            BY <1>1, <3>2 DEF Shaped, Requests, AllJobs
        <3>4. o.loaded \in SUBSET DNs /\ dn \in OtherKind(r.dn)
            BY <1>1, <3>2, <3>3 DEF Shaped, Objects
        <3>5. links[dn] # NoEntry /\ links[dn] \subseteq OtherKind(dn)
            BY <3>2, <3>4, NoEntryIsNoList DEF TypeInv, Present
        <3>6. links'[dn] = Relinked(dn, r)
            BY <1>2, <1>3, <2>1
        <3> QED BY <1>1, <3>2, <3>4, <3>5, <3>6, Kinds
    <2>2. CASE dn \notin {o.job.dn : o \in r.objects}
        BY <1>2, <1>3, <2>2
    <2> QED BY <2>1, <2>2
<1>4. links'[r.dn] = value
    <2>1. links'[r.dn] = CASE r.dn = r.dn -> value
                           [] r.dn \in {o.job.dn : o \in r.objects} -> Relinked(r.dn, r)
                           [] OTHER -> links[r.dn]
        BY <1>1, <1>2
    <2>2. r.dn \notin {o.job.dn : o \in r.objects}
        BY <1>1, Kinds DEF Shaped, AllJobs
    <2> QED BY <2>1, <2>2
<1>5. \A dn \in DNs : links'[dn] = NoEntry \/ links'[dn] \subseteq OtherKind(dn)
    <2> SUFFICES ASSUME NEW dn \in DNs PROVE links'[dn] = NoEntry \/ links'[dn] \subseteq OtherKind(dn)
        OBVIOUS
    <2>1. CASE dn = r.dn
        BY <1>4, <2>1 DEF r
    <2>2. CASE dn # r.dn
        BY <1>3, <2>2 DEF TypeInv, Present
    <2> QED BY <2>1, <2>2
<1>6. links' \in [DNs -> (SUBSET DNs) \cup {NoEntry}]
    <2>1. \A dn \in DNs : links'[dn] \in (SUBSET DNs) \cup {NoEntry}
        <3> SUFFICES ASSUME NEW dn \in DNs PROVE links'[dn] \in (SUBSET DNs) \cup {NoEntry}
            OBVIOUS
        <3> QED BY <1>5, Kinds
    <2>2. links' = [dn \in DNs |-> links'[dn]]
        BY <1>2
    <2> QED BY <2>1, <2>2
<1>7. \A dn \in DNs \ {r.dn} : links'[dn] = links[dn] \/ links'[dn] \cup {r.dn} = links[dn] \cup {r.dn}
    BY <1>3
<1> QED BY <1>5, <1>6, <1>7 DEF r

\* A batch writes a list of the right kind.
LEMMA CommitType ==
    ASSUME TypeInv, NEW s \in Slots, Commit(s)
    PROVE  /\ links' \in [DNs -> (SUBSET DNs) \cup {NoEntry}]
           /\ \A dn \in DNs : links'[dn] = NoEntry \/ links'[dn] \subseteq OtherKind(dn)
           /\ \A dn \in DNs \ {req[s].dn} :
                 links'[dn] = links[dn] \/ links'[dn] \cup {req[s].dn} = links[dn] \cup {req[s].dn}
<1> DEFINE r == req[s]
<1>1. r # Idle
    BY CommitIs
<1>2. CASE UNCHANGED links
    BY <1>2 DEF TypeInv, Present
<1>3. CASE \E value :
              /\ Write(s, value) /\ EtagsMatch(r)
              /\ r.type = "add" => ~Present(r.dn) /\ value = r.entry
              /\ r.type = "delete" => Present(r.dn) /\ value = NoEntry
              /\ r.type = "modify" => value = Result(r.entry, r.changes)
    <2>1. PICK value :
              /\ Write(s, value) /\ EtagsMatch(r)
              /\ r.type = "add" => value = r.entry
              /\ r.type = "delete" => value = NoEntry
              /\ r.type = "modify" => value = Result(r.entry, r.changes)
        BY <1>3
    <2>2. Shaped(r)
        BY <1>1 DEF TypeInv
    <2>3. r.type \in Types /\ r.dn \in DNs /\ r.changes \in ChangeLists(r.dn) /\ r.entry \subseteq OtherKind(r.dn)
        BY <2>2 DEF Shaped, Requests
    <2>4. Result(r.entry, r.changes) \subseteq OtherKind(r.dn)
        <3> HIDE DEF r
        <3> QED BY <2>3, ResultType
    <2>5. value = NoEntry \/ value \subseteq OtherKind(r.dn)
        BY <2>1, <2>3, <2>4 DEF Types
    <2> QED BY <1>1, <2>1, <2>5, WriteType
<1> QED BY <1>2, <1>3, CommitIs

\* The initial directory has no entries and no requests.
LEMMA TypeInit == Init => TypeInv
BY DEF Init, TypeInv, Present

\* A slot takes a request that has its shape, or becomes idle.
LEMMA SlotType ==
    ASSUME TypeInv, NEW s \in Slots, NEW n, n = Idle \/ Shaped(n),
           req' = [req EXCEPT ![s] = n]
    PROVE  /\ req' \in [Slots -> Requests \cup {Idle}]
           /\ \A t \in Slots : req'[t] # Idle => Shaped(req'[t])
<1>1. n \in Requests \cup {Idle}
    BY DEF Shaped
<1> QED BY <1>1 DEF TypeInv

\* Every step keeps the types (add.js, mod.js and del.js).
LEMMA TypeStep == ASSUME TypeInv, [Next]_vars PROVE TypeInv'
<1>1. CASE UNCHANGED vars
    BY <1>1 DEF vars, TypeInv, Present
<1>2. ASSUME NEW s \in Slots, BeginAdd(s) \/ BeginModify(s) \/ BeginDelete(s) PROVE TypeInv'
    <2>1. PICK r : Begin(s, r) /\ Shaped(r)
        BY <1>2, BeginShape
    <2>2. req' = [req EXCEPT ![s] = r] /\ UNCHANGED links /\ overlapped' \in BOOLEAN
        BY <2>1 DEF Begin, TypeInv
    <2> QED BY <2>1, <2>2, SlotType DEF TypeInv, Present
<1>3. ASSUME NEW s \in Slots, AddEntryExists(s) \/ DeleteEntryExists(s) \/ Load(s) \/ LoadLinked(s)
      PROVE  TypeInv'
    <2>1. UNCHANGED <<links, overlapped>> /\
          \E n : req' = [req EXCEPT ![s] = n] /\ (n = Idle \/ Shaped(n))
        BY <1>3, PreparedShape DEF Finish
    <2> QED BY <2>1, SlotType DEF TypeInv, Present
<1>4. ASSUME NEW s \in Slots, RemoveThrows(s) PROVE TypeInv'
    BY <1>4 DEF RemoveThrows, TypeInv, Present
<1>5. ASSUME NEW s \in Slots, MorayFails(s) PROVE TypeInv'
    <2>1. UNCHANGED <<links, overlapped>> /\ req' = [req EXCEPT ![s] = Idle]
        BY <1>5 DEF MorayFails, Finish
    <2> QED BY <2>1, SlotType DEF TypeInv, Present
<1>6. ASSUME NEW s \in Slots, Commit(s) PROVE TypeInv'
    <2>1. UNCHANGED overlapped /\ req' = [req EXCEPT ![s] = Idle]
        BY <1>6 DEF Commit, Finish
    <2> QED BY <1>6, <2>1, SlotType, CommitType DEF TypeInv, Present
<1> QED BY <1>1, <1>2, <1>3, <1>4, <1>5, <1>6 DEF Next

\* Lists hold entries of the other kind only, and every request stays within
\* its kind, for any number of requests and changes.
THEOREM TypesHold == Spec => []TypeOK
<1>1. TypeInv => TypeOK
    BY ShapedTypes
<1> QED BY <1>1, TypeInit, TypeStep, PTL DEF Spec

\* However requests interleave, the batch of one changes the lists of others
\* in its own DN only (roleGroupReverseIndex and its etags).
THEOREM OnlyOwnLinkHolds == Spec => OnlyOwnLink
<1> DEFINE Own(s) == req[s] # Idle /\ req'[s] = Idle =>
                        \A dn \in DNs \ {req[s].dn} :
                            \/ links'[dn] = links[dn]
                            \/ links'[dn] \cup {req[s].dn} = links[dn] \cup {req[s].dn}
<1>1. ASSUME TypeInv, [Next]_vars, NEW s \in Slots PROVE Own(s)
    <2>1. CASE UNCHANGED links
        BY <2>1
    <2>2. ASSUME NEW t \in Slots, Commit(t) PROVE Own(s)
        <3>1. req' = [req EXCEPT ![t] = Idle] /\ DOMAIN req = Slots
            BY <1>1, <2>2 DEF Commit, Finish, TypeInv
        <3>2. CASE s = t
            BY <1>1, <2>2, <3>2, CommitType
        <3>3. CASE s # t
            BY <3>1, <3>3
        <3> QED BY <3>2, <3>3
    <2>3. UNCHANGED links \/ \E t \in Slots : Commit(t)
        BY <1>1 DEF Next, vars, BeginAdd, BeginModify, BeginDelete, Begin, AddEntryExists,
           DeleteEntryExists, Load, LoadLinked, RemoveThrows, MorayFails
    <2> QED BY <2>1, <2>2, <2>3
<1>2. TypeInv /\ [Next]_vars =>
        [\A s \in Slots : req[s] # Idle /\ req'[s] = Idle =>
            \A dn \in DNs \ {req[s].dn} :
                links'[dn] = links[dn] \/ links'[dn] \cup {req[s].dn} = links[dn] \cup {req[s].dn}]_vars
    BY <1>1
<1> QED BY <1>2, TypeInit, TypeStep, PTL DEF Spec, OnlyOwnLink

-----------------------------------------------------------------------------
(***************************************************************************)
(* Requests that do not overlap.  What the only request has loaded is      *)
(* still true, and its jobs and objects together are what its list asks    *)
(* for, so that its batch writes both sides of every link.                 *)
(***************************************************************************)
Serial(r) ==
    /\ r.step \in {"begin", "load"} => r.objects = {}
    /\ r.step = "commit" => r.jobs = {}
    /\ r.step \in {"linked", "commit"} =>
          /\ AllJobs(r) = Expected(r)
          /\ IF r.type = "add" THEN ~Present(r.dn) ELSE Present(r.dn) /\ r.entry = links[r.dn]
          /\ \A o \in r.objects : Present(o.job.dn)

SerialInv ==
    ~overlapped /\ MaxChanges <= 1 =>
        /\ Symmetric
        /\ \A s, t \in Slots : req[s] # Idle /\ req[t] # Idle => s = t
        /\ \A s \in Slots : req[s] # Idle => Serial(req[s])

\* What changes to a list at most one modification makes.
LEMMA ResultIs ==
    ASSUME NEW dn \in DNs, NEW changes \in ChangeLists(dn), NEW entry, entry \subseteq OtherKind(dn),
           MaxChanges <= 1, NEW other \in DNs
    PROVE  /\ other \in Result(entry, changes) <=>
                \/ \E job \in ModifyJobs(entry, changes) : job.dn = other /\ job.put
                \/ other \in entry /\ ~\E job \in ModifyJobs(entry, changes) : job.dn = other /\ ~job.put
           /\ \A job, next \in ModifyJobs(entry, changes) : job.dn = next.dn => job.put = next.put
<1>1. PICK n \in 0 .. MaxChanges : changes \in [1 .. n -> Changes(dn)]
    BY DEF ChangeLists
<1>2. n \in {0, 1} /\ Len(changes) = n /\ DOMAIN changes = 1 .. n
    BY <1>1, ChangesAssumption
<1>3. CASE n = 0
    <2>1. ModifyJobs(entry, changes) = {}
        BY <1>2, <1>3 DEF ModifyJobs
    <2>2. other \in Result(entry, changes) <=> other \in entry
        BY <1>2, <1>3 DEF Result
    <2> QED BY <2>1, <2>2
<1>4. CASE n = 1
    <2> DEFINE c == changes[1]
    <2>1. c.op \in Ops /\ c.vals \subseteq OtherKind(dn)
        <3>1. c \in Changes(dn)
            BY <1>1, <1>4
        <3> QED BY <3>1 DEF Changes
    <2>2. /\ 1 .. n = {1} /\ DOMAIN changes = {1} /\ 0 .. n = {0, 1}
          /\ 0 + 1 .. n = {1} /\ 1 + 1 .. n = {}
        BY <1>2, <1>4
    <2>3. \A job : job \in ModifyJobs(entry, changes) <=>
              \/ job \in [index : {1}, dn : ToLink(entry, c), put : {TRUE}]
              \/ job \in [index : {1}, dn : ToUnlink(entry, c), put : {FALSE}]
        BY <2>2 DEF ModifyJobs
    <2>4. other \in Result(entry, changes) <=>
              \/ other \in entry /\ other \in Modified({other}, c)
              \/ other \in Modified({}, c)
        <3>1. Len(changes) = n
            BY <1>2
        <3> QED BY <2>2, <3>1 DEF Result
    <2> HIDE DEF c
    <2>5. /\ \A x : (\E job \in ModifyJobs(entry, changes) : job.dn = x /\ job.put) <=> x \in ToLink(entry, c)
          /\ \A x : (\E job \in ModifyJobs(entry, changes) : job.dn = x /\ ~job.put) <=> x \in ToUnlink(entry, c)
          /\ \A job \in ModifyJobs(entry, changes) : job.put \in BOOLEAN
        <3>1. ASSUME NEW x, x \in ToLink(entry, c)
              PROVE  \E job \in ModifyJobs(entry, changes) : job.dn = x /\ job.put
            <4>1. [index |-> 1, dn |-> x, put |-> TRUE] \in ModifyJobs(entry, changes)
                BY <2>3, <3>1
            <4> QED BY <4>1
        <3>2. ASSUME NEW x, x \in ToUnlink(entry, c)
              PROVE  \E job \in ModifyJobs(entry, changes) : job.dn = x /\ ~job.put
            <4>1. [index |-> 1, dn |-> x, put |-> FALSE] \in ModifyJobs(entry, changes)
                BY <2>3, <3>2
            <4> QED BY <4>1
        <3>3. ASSUME NEW job \in ModifyJobs(entry, changes)
              PROVE  /\ job.put \in BOOLEAN
                     /\ job.put => job.dn \in ToLink(entry, c)
                     /\ ~job.put => job.dn \in ToUnlink(entry, c)
            <4>1. CASE job \in [index : {1}, dn : ToLink(entry, c), put : {TRUE}]
                <5>1. job.put = TRUE /\ job.dn \in ToLink(entry, c)
                    BY <4>1
                <5> QED BY <5>1
            <4>2. CASE job \in [index : {1}, dn : ToUnlink(entry, c), put : {FALSE}]
                <5>1. job.put = FALSE /\ job.dn \in ToUnlink(entry, c)
                    BY <4>2
                <5> QED BY <5>1
            <4> QED BY <2>3, <4>1, <4>2
        <3> QED BY <3>1, <3>2, <3>3
    <2>6. \A x : ~(x \in ToLink(entry, c) /\ x \in ToUnlink(entry, c))
        BY <2>1 DEF ToLink, ToUnlink, Ops
    <2>7. other \in Result(entry, changes) <=>
              other \in ToLink(entry, c) \/ (other \in entry /\ other \notin ToUnlink(entry, c))
        BY <2>1, <2>4 DEF Modified, ToLink, ToUnlink, Ops
    <2>8. \A job, next \in ModifyJobs(entry, changes) : job.dn = next.dn => job.put = next.put
        BY <2>5, <2>6
    <2> QED BY <2>5, <2>7, <2>8
<1> QED BY <1>2, <1>3, <1>4

\* The list that the batch of a request leaves in its own entry.
Value(r) ==
    CASE r.type = "add" -> r.entry
      [] r.type = "delete" -> NoEntry
      [] r.type = "modify" -> Result(r.entry, r.changes)

\* Which entries the jobs of a request name: all that join or leave the list
\* of its own entry, and no others.
LEMMA ExpectedIs ==
    ASSUME TypeInv, MaxChanges <= 1, NEW r, Shaped(r), NEW e \in DNs,
           IF r.type = "add" THEN ~Present(r.dn) ELSE Present(r.dn) /\ r.entry = links[r.dn]
    PROVE  /\ \A job \in Expected(r) : job.dn = e =>
                 IF job.put THEN Value(r) # NoEntry /\ e \in Value(r)
                 ELSE Value(r) = NoEntry \/ e \notin Value(r)
           /\ (~\E job \in Expected(r) : job.dn = e) =>
                 (Value(r) # NoEntry /\ e \in Value(r) <=> Present(r.dn) /\ e \in links[r.dn])
<1>1. /\ r.type \in Types /\ r.dn \in DNs /\ r.changes \in ChangeLists(r.dn)
      /\ r.entry \subseteq OtherKind(r.dn) /\ r.entry \in SUBSET DNs
    BY DEF Shaped, Requests
<1>2. CASE r.type = "add"
    <2>1. Expected(r) = [index : {1}, dn : r.entry, put : {TRUE}] /\ Value(r) = r.entry
        BY <1>2 DEF Expected, Value
    <2>2. r.entry # NoEntry /\ ~Present(r.dn)
        BY <1>1, <1>2, NoEntryIsNoList
    <2>3. \A job \in Expected(r) : job.put = TRUE /\ job.dn \in r.entry
        <3> SUFFICES ASSUME NEW job \in [index : {1}, dn : r.entry, put : {TRUE}]
                     PROVE  job.put = TRUE /\ job.dn \in r.entry
            BY <2>1
        <3> QED OBVIOUS
    <2>4. ASSUME e \in r.entry PROVE \E job \in Expected(r) : job.dn = e
        <3>1. [index |-> 1, dn |-> e, put |-> TRUE] \in Expected(r)
            BY <2>1, <2>4
        <3> QED BY <3>1
    <2> QED BY <2>1, <2>2, <2>3, <2>4
<1>3. CASE r.type = "delete"
    <2>1. Expected(r) = [index : {1}, dn : r.entry, put : {FALSE}] /\ Value(r) = NoEntry
        BY <1>3 DEF Expected, Value
    <2>2. \A job \in Expected(r) : job.put = FALSE /\ job.dn \in r.entry
        <3> SUFFICES ASSUME NEW job \in [index : {1}, dn : r.entry, put : {FALSE}]
                     PROVE  job.put = FALSE /\ job.dn \in r.entry
            BY <2>1
        <3> QED OBVIOUS
    <2>3. ASSUME e \in r.entry PROVE \E job \in Expected(r) : job.dn = e
        <3>1. [index |-> 1, dn |-> e, put |-> FALSE] \in Expected(r)
            BY <2>1, <2>3
        <3> QED BY <3>1
    <2> QED BY <1>3, <2>1, <2>2, <2>3
<1>4. CASE r.type = "modify"
    <2> DEFINE jobs == ModifyJobs(r.entry, r.changes)
    <2>1. Expected(r) = jobs /\ Value(r) = Result(r.entry, r.changes)
        BY <1>4 DEF Expected, Value
    <2>2. /\ e \in Value(r) <=>
                \/ \E job \in jobs : job.dn = e /\ job.put
                \/ e \in r.entry /\ ~\E job \in jobs : job.dn = e /\ ~job.put
          /\ \A job, next \in jobs : job.dn = next.dn => job.put = next.put
        BY <1>1, <2>1, ResultIs
    <2>3. Value(r) # NoEntry
        <3>1. Value(r) \subseteq OtherKind(r.dn)
            BY <1>1, <2>1, ResultType
        <3> QED BY <1>1, <3>1, Kinds, NoEntryIsNoList
    <2>4. Present(r.dn) /\ r.entry = links[r.dn]
        BY <1>4
    <2> HIDE DEF jobs
    <2>5. ASSUME NEW job \in jobs, job.dn = e, job.put PROVE e \in Value(r)
        BY <2>2, <2>5
    <2>6. ASSUME NEW job \in jobs, job.dn = e, ~job.put PROVE e \notin Value(r)
        <3>1. ~\E next \in jobs : next.dn = e /\ next.put
            BY <2>2, <2>6
        <3> QED BY <2>2, <2>6, <3>1
    <2> QED BY <2>1, <2>2, <2>3, <2>4, <2>5, <2>6
<1> QED BY <1>1, <1>2, <1>3, <1>4 DEF Types

\* The other side of the links of a batch: an entry on the list in the end
\* is there, and is written or has the link already; an entry that is not on
\* the list is written without the link or does not have it.
LEMMA BothSides ==
    ASSUME TypeInv, Symmetric, MaxChanges <= 1, NEW r, Shaped(r), Serial(r), r.step = "commit",
           EtagsMatch(r), NEW e \in DNs
    PROVE  LET written == {o.job.dn : o \in r.objects}
               on == Value(r) # NoEntry /\ e \in Value(r)
           IN  /\ e \in written =>
                     /\ Present(e) /\ e \in OtherKind(r.dn)
                     /\ Relinked(e, r) = IF on THEN links[e] \cup {r.dn} ELSE links[e] \ {r.dn}
               /\ e \notin written => (on <=> Present(r.dn) /\ e \in links[r.dn])
               /\ on => Present(e)
<1> DEFINE on == Value(r) # NoEntry /\ e \in Value(r)
<1>1. /\ {o.job : o \in r.objects} = Expected(r)
      /\ IF r.type = "add" THEN ~Present(r.dn) ELSE Present(r.dn) /\ r.entry = links[r.dn]
      /\ \A o \in r.objects : Present(o.job.dn)
    BY DEF Serial, AllJobs
<1>2. r.dn \in DNs /\ \A o \in r.objects : o.job.dn \in OtherKind(r.dn)
    BY DEF Shaped, AllJobs, Requests
<1>3. /\ \A job \in Expected(r) : job.dn = e => IF job.put THEN on ELSE ~on
      /\ (~\E job \in Expected(r) : job.dn = e) => (on <=> Present(r.dn) /\ e \in links[r.dn])
    BY <1>1, ExpectedIs
<1> HIDE DEF on
<1>4. ASSUME NEW o \in r.objects, o.job.dn = e
      PROVE  /\ Present(e) /\ e \in OtherKind(r.dn)
             /\ Relinked(e, r) = IF on THEN links[e] \cup {r.dn} ELSE links[e] \ {r.dn}
    <2>1. PICK p \in r.objects :
              /\ p.job.dn = e /\ p.loaded = links[e]
              /\ Relinked(e, r) = IF p.job.put THEN links[e] \cup {r.dn} ELSE links[e] \ {r.dn}
        BY <1>4, RelinkedIs
    <2>2. p.job \in Expected(r)
        BY <1>1
    <2>3. IF p.job.put THEN on ELSE ~on
        BY <1>3, <2>1, <2>2
    <2> QED BY <1>1, <1>2, <1>4, <2>1, <2>3
<1>5. ASSUME e \notin {o.job.dn : o \in r.objects}
      PROVE  on <=> Present(r.dn) /\ e \in links[r.dn]
    <2>1. ~\E job \in Expected(r) : job.dn = e
        BY <1>1, <1>5
    <2> QED BY <1>3, <2>1
<1>6. ASSUME on PROVE Present(e)
    <2>1. CASE e \in {o.job.dn : o \in r.objects}
        BY <1>4, <2>1
    <2>2. CASE e \notin {o.job.dn : o \in r.objects}
        BY <1>2, <1>5, <1>6, <2>2 DEF Symmetric
    <2> QED BY <2>1, <2>2
<1> QED BY <1>4, <1>5, <1>6 DEF on

\* The batch of a request that is alone keeps the lists symmetric.
LEMMA SymmetricCommit ==
    ASSUME TypeInv, Symmetric, MaxChanges <= 1, NEW s \in Slots, Commit(s), Serial(req[s])
    PROVE  Symmetric'
<1> DEFINE r == req[s]
           d == r.dn
           value == Value(r)
           written == {o.job.dn : o \in r.objects}
           On(e) == value # NoEntry /\ e \in value
<1>1. r # Idle /\ r.step = "commit" /\ Shaped(r)
    BY CommitIs DEF TypeInv
<1>2. d \in DNs /\ r.type \in Types
    BY <1>1 DEF Shaped, Requests
<1>3. CASE UNCHANGED links
    BY <1>3 DEF Symmetric, Present
<1>4. CASE ~UNCHANGED links
    <2>1. EtagsMatch(r) /\ Write(s, value)
        <3>1. PICK v :
                  /\ Write(s, v) /\ EtagsMatch(r)
                  /\ r.type = "add" => v = r.entry
                  /\ r.type = "delete" => v = NoEntry
                  /\ r.type = "modify" => v = Result(r.entry, r.changes)
            BY <1>4, CommitIs
        <3>2. v = value
            BY <1>2, <3>1 DEF Value, Types
        <3> QED BY <3>1, <3>2
    <2>2. links' = [dn \in DNs |-> CASE dn = d -> value
                                     [] dn \in written -> Relinked(dn, r)
                                     [] OTHER -> links[dn]]
        BY <2>1 DEF Write
    <2>3. ASSUME NEW e \in DNs
          PROVE  /\ e \in written =>
                       /\ Present(e) /\ e \in OtherKind(d)
                       /\ Relinked(e, r) = IF On(e) THEN links[e] \cup {d} ELSE links[e] \ {d}
                 /\ e \notin written => (On(e) <=> Present(d) /\ e \in links[d])
                 /\ On(e) => Present(e)
        BY <1>1, <2>1, BothSides
    <2> HIDE DEF value, written, r
    <2>4. ASSUME NEW e \in DNs, e # d
          PROVE  links'[e] = IF e \in written THEN IF On(e) THEN links[e] \cup {d} ELSE links[e] \ {d}
                             ELSE links[e]
        <3>1. CASE e \in written
            BY <2>2, <2>3, <2>4, <3>1
        <3>2. CASE e \notin written
            BY <2>2, <2>4, <3>2
        <3> QED BY <3>1, <3>2
    <2>5. links'[d] = value
        <3>1. links'[d] = CASE d = d -> value
                            [] d \in written -> Relinked(d, r)
                            [] OTHER -> links[d]
            BY <1>2, <2>2
        <3>2. d \notin written
            BY <1>2, <2>3, Kinds
        <3> QED BY <3>1, <3>2
    <2>6. value = NoEntry \/ value \subseteq OtherKind(d)
        <3>1. links'[d] = NoEntry \/ links'[d] \subseteq OtherKind(d)
            BY <1>2, CommitType
        <3> QED BY <2>5, <3>1
    <2>7. ASSUME NEW e \in DNs, e # d, Present(e)
          PROVE  links[e] \in SUBSET DNs /\ links'[e] \in SUBSET DNs /\ Present(e)'
        <3>1. links[e] \in SUBSET DNs
            BY <2>7 DEF TypeInv, Present
        <3>2. links'[e] \in SUBSET DNs
            BY <1>2, <2>4, <2>7, <3>1
        <3> QED BY <3>1, <3>2, NoEntryIsNoList DEF Present
    <2> SUFFICES ASSUME NEW dn \in DNs, links'[dn] # NoEntry, NEW other \in links'[dn]
                 PROVE  links'[other] # NoEntry /\ dn \in links'[other]
        BY DEF Symmetric, Present
    <2>8. CASE dn = d
        <3>1. On(other) /\ other \in OtherKind(d)
            BY <2>5, <2>6, <2>8
        <3>2. other \in DNs /\ other # d
            BY <1>2, <3>1, Kinds
        <3>3. Present(other)
            BY <2>3, <3>1, <3>2
        <3>4. d \in links'[other]
            <4>1. CASE other \in written
                BY <2>4, <3>1, <3>2, <4>1
            <4>2. CASE other \notin written
                <5>1. Present(d) /\ other \in links[d]
                    BY <2>3, <3>1, <3>2, <4>2
                <5> QED BY <1>2, <2>4, <3>2, <4>2, <5>1 DEF Symmetric
            <4> QED BY <4>1, <4>2
        <3> QED BY <2>7, <2>8, <3>2, <3>3, <3>4 DEF Present
    <2>9. CASE dn # d
        <3>1. Present(dn)
            <4>1. CASE dn \in written
                BY <2>3, <4>1
            <4>2. CASE dn \notin written
                BY <2>4, <2>9, <4>2 DEF Present
            <4> QED BY <4>1, <4>2
        <3>2. CASE other = d
            <4>1. CASE dn \in written
                <5>1. On(dn)
                    BY <2>4, <2>9, <3>2, <4>1
                <5> QED BY <2>5, <3>2, <5>1
            <4>2. CASE dn \notin written
                <5>1. Present(d) /\ dn \in links[d]
                    BY <2>4, <2>9, <3>1, <3>2, <4>2 DEF Symmetric
                <5>2. On(dn)
                    BY <2>3, <4>2, <5>1
                <5> QED BY <2>5, <3>2, <5>2
            <4> QED BY <4>1, <4>2
        <3>3. CASE other # d
            <4>1. other \in links[dn]
                BY <2>4, <2>9, <3>3
            <4>2. Present(other) /\ dn \in links[other] /\ other \in DNs
                BY <2>7, <2>9, <3>1, <4>1 DEF Symmetric
            <4>3. dn \in links'[other]
                BY <2>4, <2>9, <3>3, <4>2
            <4> QED BY <2>7, <3>3, <4>2, <4>3 DEF Present
        <3> QED BY <3>2, <3>3
    <2> QED BY <2>8, <2>9
<1> QED BY <1>3, <1>4

\* A step before the batch keeps what is loaded and what is left to load
\* together.
LEMMA SerialPrepared ==
    ASSUME NEW r, NEW n, Serial(r), Prepared(r, n), UNCHANGED links
    PROVE  Serial(n)'
<1>1. \A dn : Present(dn)' <=> Present(dn)
    BY DEF Present
<1>2. SUFFICES Serial(n)
    BY <1>1 DEF Serial
<1>3. CASE r.step = "begin" /\ n.step = "load" /\ n.jobs = r.jobs /\ n.objects = r.objects
    BY <1>3 DEF Serial
<1>4. CASE /\ r.step \in {"begin", "load"}
           /\ n.step = (IF n.jobs = {} THEN "commit" ELSE "linked")
           /\ n.objects = r.objects
           /\ n.jobs = Expected(n)
           /\ IF r.type = "add" THEN ~Present(r.dn) ELSE Present(r.dn) /\ n.entry = links[r.dn]
    <2>1. n.objects = {} /\ AllJobs(n) = Expected(n)
        BY <1>4 DEF Serial, AllJobs
    <2>2. n.type = r.type /\ n.dn = r.dn
        BY DEF Prepared
    <2> QED BY <1>4, <2>1, <2>2 DEF Serial
<1>5. ASSUME r.step = "linked", n.entry = r.entry,
             n.step = (IF n.jobs = {} THEN "commit" ELSE "linked"),
             NEW job \in r.jobs, Present(job.dn), n.jobs = r.jobs \ {job},
             n.objects = r.objects \cup {[job |-> job, loaded |-> links[job.dn]]}
      PROVE  Serial(n)
    <2> DEFINE object == [job |-> job, loaded |-> links[job.dn]]
    <2>1. object.job = job /\ n.objects = r.objects \cup {object}
        BY <1>5
    <2> HIDE DEF object
    <2>2. n.type = r.type /\ n.dn = r.dn /\ n.changes = r.changes
        BY DEF Prepared
    <2>3. Expected(n) = Expected(r)
        BY <1>5, <2>2 DEF Expected
    <2>4. AllJobs(n) = AllJobs(r)
        BY <1>5, <2>1 DEF AllJobs
    <2>5. \A o \in n.objects : Present(o.job.dn)
        BY <1>5, <2>1 DEF Serial
    <2> QED BY <1>5, <2>2, <2>3, <2>4, <2>5 DEF Serial
<1> QED BY <1>3, <1>4, <1>5 DEF Prepared

\* The account starts empty.
LEMMA SerialInit == Init => SerialInv
BY DEF Init, SerialInv, Symmetric, Present

\* A slot that becomes idle leaves at most the other requests.
LEMMA SerialFinish ==
    ASSUME TypeInv, SerialInv, NEW s \in Slots, Finish(s), UNCHANGED <<links, overlapped>>
    PROVE  SerialInv'
<1>1. \A t \in Slots : req'[t] = IF t = s THEN Idle ELSE req[t]
    BY DEF Finish, TypeInv
<1>2. \A dn : Present(dn)' <=> Present(dn)
    BY DEF Present
<1>3. \A r : Serial(r)' <=> Serial(r)
    BY <1>2 DEF Serial
<1>4. Symmetric' <=> Symmetric
    BY <1>2 DEF Symmetric
<1> QED BY <1>1, <1>3, <1>4 DEF SerialInv

\* Every step keeps the lists symmetric as long as no two requests overlap
\* and a modify changes a list once.
LEMMA SerialStep == ASSUME TypeInv, SerialInv, [Next]_vars PROVE SerialInv'
<1> USE DEF SerialInv
<1>1. CASE UNCHANGED vars
    BY <1>1 DEF vars, Symmetric, Present, Serial
<1>2. ASSUME NEW s \in Slots, BeginAdd(s) \/ BeginModify(s) \/ BeginDelete(s) PROVE SerialInv'
    <2>1. PICK r : Begin(s, r) /\ Fresh(r)
        BY <1>2, BeginShape
    <2> SUFFICES ASSUME ~overlapped', MaxChanges <= 1
                 PROVE  /\ Symmetric'
                        /\ \A t, u \in Slots : req'[t] # Idle /\ req'[u] # Idle => t = u
                        /\ \A t \in Slots : req'[t] # Idle => Serial(req[t])'
        OBVIOUS
    <2>2. /\ ~overlapped /\ UNCHANGED links
          /\ \A t \in Slots : req[t] = Idle
          /\ \A t \in Slots : req'[t] = IF t = s THEN r ELSE Idle
        BY <2>1 DEF Begin, TypeInv
    <2>3. Symmetric'
        BY <2>2 DEF Symmetric, Present
    <2>4. Serial(r)'
        BY <2>1 DEF Fresh, Serial
    <2> QED BY <2>2, <2>3, <2>4
<1>3. ASSUME NEW s \in Slots, AddEntryExists(s) \/ DeleteEntryExists(s) \/ Load(s) \/ LoadLinked(s)
      PROVE  SerialInv'
    <2>1. req[s] # Idle /\ UNCHANGED <<links, overlapped>>
        BY <1>3, PreparedShape
    <2>2. CASE Finish(s)
        BY <2>1, <2>2, SerialFinish
    <2>3. ASSUME NEW n, req' = [req EXCEPT ![s] = n], Prepared(req[s], n) PROVE SerialInv'
        <3> SUFFICES ASSUME ~overlapped, MaxChanges <= 1
                     PROVE  /\ Symmetric'
                            /\ \A t, u \in Slots : req'[t] # Idle /\ req'[u] # Idle => t = u
                            /\ \A t \in Slots : req'[t] # Idle => Serial(req[t])'
            BY <2>1
        <3>1. \A t \in Slots : req'[t] = IF t = s THEN n ELSE Idle
            BY <2>1, <2>3 DEF TypeInv
        <3>2. Symmetric'
            BY <2>1 DEF Symmetric, Present
        <3>3. Serial(n)'
            BY <2>1, <2>3, SerialPrepared
        <3> QED BY <3>1, <3>2, <3>3
    <2> QED BY <1>3, <2>2, <2>3, PreparedShape
<1>4. ASSUME NEW s \in Slots, RemoveThrows(s) PROVE SerialInv'
    BY <1>4 DEF RemoveThrows, Symmetric, Present
<1>5. ASSUME NEW s \in Slots, MorayFails(s) PROVE SerialInv'
    BY <1>5, SerialFinish DEF MorayFails
<1>6. ASSUME NEW s \in Slots, Commit(s) PROVE SerialInv'
    <2> SUFFICES ASSUME ~overlapped, MaxChanges <= 1
                 PROVE  Symmetric' /\ \A t \in Slots : req'[t] = Idle
        BY <1>6, CommitIs
    <2>1. req[s] # Idle /\ Finish(s) /\ Serial(req[s])
        BY <1>6, CommitIs
    <2>2. Symmetric'
        BY <1>6, <2>1, SymmetricCommit
    <2> QED BY <2>1, <2>2 DEF Finish, TypeInv
<1> QED BY <1>1, <1>2, <1>3, <1>4, <1>5, <1>6 DEF Next

\* Requests that do not overlap, each with one change of a list at most,
\* keep roles and policies symmetric, however many entries there are and
\* however the requests fail (roleGroupReverseIndex of add, mod and del).
THEOREM SymmetricSerialHolds == Spec => []SymmetricSerial
<1>1. SerialInv => SymmetricSerial
    BY DEF SerialInv, SymmetricSerial
<1>2. TypeInv /\ SerialInv /\ [Next]_vars => SerialInv'
    BY SerialStep
<1> QED BY <1>1, <1>2, TypeInit, TypeStep, SerialInit, PTL DEF Spec

=============================================================================
