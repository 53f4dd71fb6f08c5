------------------------------ MODULE RoleLinks ------------------------------
(***************************************************************************)
(* The reverse index between the roles and the policies of an account      *)
(* (roleGroupReverseIndex in lib/db/add.js, mod.js and del.js): a role     *)
(* lists its policies in 'memberpolicy', a policy lists its roles in       *)
(* 'memberrole', and a write to one side updates the other side's entries  *)
(* in the same batch, each guarded by the etag it was loaded with.         *)
(*                                                                         *)
(* An entry is the set of DNs its list names, however often it does.       *)
(* Every moray call of a request is an action; the requests of different   *)
(* clients interleave.                                                     *)
(***************************************************************************)
EXTENDS Integers, Sequences

CONSTANTS
    Roles, Policies,    \* DNs
    Slots,              \* requests that can be under way at the same time
    MaxChanges          \* bound: changes in one modify request

ASSUME KindsAssumption == Roles \cap Policies = {}

ASSUME ChangesAssumption == MaxChanges \in Nat

VARIABLES
    links,          \* the DNs an entry lists, or NoEntry
    req,            \* the requests under way
    overlapped      \* two requests have been under way at the same time

vars == <<links, req, overlapped>>

-----------------------------------------------------------------------------
DNs == Roles \cup Policies

NoEntry == {"none"}

ASSUME NoEntryAssumption == "none" \notin DNs

OtherKind(dn) == IF dn \in Roles THEN Policies ELSE Roles

Ops == {"add", "delete", "replace"}

\* A modification of the list: an add names values, the others may not.
Changes(dn) ==
    {c \in [op : Ops, vals : SUBSET OtherKind(dn)] : c.op = "add" => c.vals # {}}

\* The changes of a modify request; none when it is about other attributes.
ChangeLists(dn) == UNION {[1 .. n -> Changes(dn)] : n \in 0 .. MaxChanges}

\* What remains to be done to a linked entry: put the request's DN on its
\* list, or take it off.  Jobs are done in the order of the changes.
Jobs == [index : 1 .. MaxChanges + 1, dn : DNs, put : BOOLEAN]

\* A linked entry to write: its value when it was loaded (its etag is a
\* checksum of that) and the job.
Objects == [job : Jobs, loaded : SUBSET DNs]

Types == {"add", "modify", "delete"}

Steps == {"begin", "load", "linked", "commit"}

Requests ==
    [type : Types, step : Steps, dn : DNs, changes : UNION {ChangeLists(dn) : dn \in DNs},
     entry : SUBSET DNs, jobs : SUBSET Jobs, objects : SUBSET Objects]

Idle == [type |-> "none"]

TypeOK ==
    /\ \A dn \in DNs : links[dn] # NoEntry => links[dn] \subseteq OtherKind(dn)
    /\ \A s \in Slots : req[s] # Idle =>
        /\ req[s].type \in Types
        /\ req[s].step \in Steps
        /\ req[s].dn \in DNs
        /\ req[s].changes \in ChangeLists(req[s].dn)
        /\ req[s].entry \subseteq OtherKind(req[s].dn)
        /\ req[s].jobs \subseteq Jobs
        /\ \A o \in req[s].objects : o.job \in Jobs /\ o.loaded \subseteq DNs
    /\ overlapped \in BOOLEAN

Init ==
    /\ links = [dn \in DNs |-> NoEntry]
    /\ req = [s \in Slots |-> Idle]
    /\ overlapped = FALSE

-----------------------------------------------------------------------------
Present(dn) == links[dn] # NoEntry

\* change(): one modification of the list.
Modified(entry, c) ==
    CASE c.op = "add" -> entry \cup c.vals
      [] c.op = "delete" -> IF c.vals = {} THEN {} ELSE entry \ c.vals
      [] c.op = "replace" -> c.vals

\* The changes one after another: what is on the list in the end was there,
\* or was put there by a change, and was not taken off by a later one.
Result(entry, changes) ==
    {dn \in DNs : \E i \in 0 .. Len(changes) :
        /\ IF i = 0 THEN dn \in entry ELSE dn \in Modified({}, changes[i])
        /\ \A j \in i + 1 .. Len(changes) : dn \in Modified({dn}, changes[j])}

\* processChanges: the targets to link and to unlink.  Each change is
\* compared with the entry as it was loaded.
ToLink(entry, c) == IF c.op = "delete" THEN {} ELSE c.vals \ entry

ToUnlink(entry, c) ==
    CASE c.op = "add" -> {}
      [] c.op = "delete" -> IF c.vals = {} THEN entry ELSE c.vals \cap entry
      [] c.op = "replace" -> entry \ c.vals

\* Mutant: a replace does not unlink what it removes.
ModifyJobsKeepLinks(entry, changes) ==
    UNION {[index : {i}, dn : ToLink(entry, changes[i]), put : {TRUE}]
             \cup [index : {i},
                   dn : IF changes[i].op = "replace" THEN {} ELSE ToUnlink(entry, changes[i]),
                   put : {FALSE}] : i \in DOMAIN changes}

ModifyJobs(entry, changes) ==
    UNION {[index : {i}, dn : ToLink(entry, changes[i]), put : {TRUE}]
             \cup [index : {i}, dn : ToUnlink(entry, changes[i]), put : {FALSE}] :
           i \in DOMAIN changes}

-----------------------------------------------------------------------------
Begin(s, request) ==
    /\ req[s] = Idle
    /\ req' = [req EXCEPT ![s] = request]
    /\ overlapped' = (overlapped \/ \E t \in Slots : req[t] # Idle)
    /\ UNCHANGED links

BeginAdd(s) ==
    \E dn \in DNs : \E members \in SUBSET OtherKind(dn) :
        Begin(s, [type |-> "add", step |-> "begin", dn |-> dn, changes |-> <<>>,
                  entry |-> members, jobs |-> {}, objects |-> {}])

BeginModify(s) ==
    \E dn \in DNs : \E changes \in ChangeLists(dn) :
        Begin(s, [type |-> "modify", step |-> "load", dn |-> dn, changes |-> changes,
                  entry |-> {}, jobs |-> {}, objects |-> {}])

BeginDelete(s) ==
    \E dn \in DNs :
        Begin(s, [type |-> "delete", step |-> "begin", dn |-> dn, changes |-> <<>>,
                  entry |-> {}, jobs |-> {}, objects |-> {}])

At(s, step) == req[s] # Idle /\ req[s].step = step

Finish(s) == req' = [req EXCEPT ![s] = Idle]

MorayFails(s) ==
    /\ req[s] # Idle
    /\ Finish(s)
    /\ UNCHANGED <<links, overlapped>>

\* The linked entries are loaded one after another, then the batch is sent.
WithJobs(request, jobs) ==
    [request EXCEPT !.step = IF jobs = {} THEN "commit" ELSE "linked", !.jobs = jobs]

\* entryExists of an add.
AddEntryExists(s) ==
    /\ At(s, "begin")
    /\ req[s].type = "add"
    /\ IF Present(req[s].dn)
         THEN Finish(s)
         ELSE req' = [req EXCEPT ![s] =
                WithJobs(@, [index : {1}, dn : @.entry, put : {TRUE}])]
    /\ UNCHANGED <<links, overlapped>>

\* entryExists of a delete; a role or a policy has no children.
DeleteEntryExists(s) ==
    /\ At(s, "begin")
    /\ req[s].type = "delete"
    /\ IF Present(req[s].dn) THEN req' = [req EXCEPT ![s].step = "load"] ELSE Finish(s)
    /\ UNCHANGED <<links, overlapped>>

\* Mutant: an entry that is not there is not noticed.
LoadUnchecked(s) ==
    /\ At(s, "load")
    /\ LET entry == links[req[s].dn]
           jobs  == IF req[s].type = "modify" THEN ModifyJobs(entry, req[s].changes)
                    ELSE [index : {1}, dn : entry, put : {FALSE}]
       IN  req' = [req EXCEPT ![s] = WithJobs([@ EXCEPT !.entry = entry], jobs)]
    /\ UNCHANGED <<links, overlapped>>

\* load, then the jobs that follow from the entry loaded.
Load(s) ==
    /\ At(s, "load")
    /\ LET entry == links[req[s].dn]
           jobs  == IF req[s].type = "modify" THEN ModifyJobs(entry, req[s].changes)
                    ELSE [index : {1}, dn : entry, put : {FALSE}]
       IN  IF Present(req[s].dn)
             THEN req' = [req EXCEPT ![s] = WithJobs([@ EXCEPT !.entry = entry], jobs)]
             ELSE Finish(s)
    /\ UNCHANGED <<links, overlapped>>

\* The jobs to do next: those of the first change that has some left.
NextJobs(s) == {job \in req[s].jobs : \A other \in req[s].jobs : job.index <= other.index}

\* loadLinked, in the order of the changes.
LoadLinked(s) ==
    /\ At(s, "linked")
    /\ \E job \in NextJobs(s) :
        LET objects == req[s].objects \cup {[job |-> job, loaded |-> links[job.dn]]}
        IN  IF Present(job.dn)
              THEN req' = [req EXCEPT ![s] =
                     WithJobs([@ EXCEPT !.objects = objects], @.jobs \ {job})]
              ELSE Finish(s)
    /\ UNCHANGED <<links, overlapped>>

\* doRemove and dropReverseIdx throw on an entry that has no list, which is
\* one way of listing nothing: the process ends, with all its requests.
RemoveThrows(s) ==
    /\ At(s, "linked")
    /\ \E job \in NextJobs(s) : ~job.put /\ links[job.dn] = {}
    /\ req' = [t \in Slots |-> Idle]
    /\ UNCHANGED <<links, overlapped>>

-----------------------------------------------------------------------------
\* Mutant: linked entries are written whatever they have become.
EtagsIgnored(request) == TRUE

\* Every linked entry still is what was loaded, and none is written twice
\* in the batch unless its first write changed nothing.
EtagsMatch(request) ==
    /\ \A o \in request.objects : links[o.job.dn] = o.loaded
    /\ \A o, p \in request.objects :
            o # p /\ o.job.dn = p.job.dn => ~o.job.put /\ request.dn \notin o.loaded

Relinked(dn, request) ==
    LET o == CHOOSE p \in request.objects : p.job.dn = dn
    IN  IF o.job.put THEN o.loaded \cup {request.dn} ELSE o.loaded \ {request.dn}

\* The batch of a request whose own entry becomes value.
Write(s, value) ==
    LET written == {o.job.dn : o \in req[s].objects}
    IN  links' = [dn \in DNs |->
                    CASE dn = req[s].dn -> value
                      [] dn \in written -> Relinked(dn, req[s])
                      [] OTHER -> links[dn]]

\* save puts a new entry with a null etag, and a modified one without etag;
\* a delete fails when the entry is gone.
Commit(s) ==
    /\ At(s, "commit")
    /\ LET request == req[s]
           accepted == EtagsMatch(request) /\
                CASE request.type = "add" -> ~Present(request.dn)
                  [] request.type = "delete" -> Present(request.dn)
                  [] request.type = "modify" -> TRUE
           value == CASE request.type = "add" -> request.entry
                      [] request.type = "delete" -> NoEntry
                      [] request.type = "modify" -> Result(request.entry, request.changes)
       IN  IF accepted THEN Write(s, value) ELSE UNCHANGED links
    /\ Finish(s)
    /\ UNCHANGED overlapped

-----------------------------------------------------------------------------
Next ==
    \E s \in Slots :
        \/ BeginAdd(s) \/ BeginModify(s) \/ BeginDelete(s)
        \/ AddEntryExists(s) \/ DeleteEntryExists(s) \/ Load(s) \/ LoadLinked(s)
        \/ RemoveThrows(s)
        \/ Commit(s) \/ MorayFails(s)

Spec == Init /\ [][Next]_vars

-----------------------------------------------------------------------------
(***************************************************************************)
(* Properties                                                              *)
(***************************************************************************)

\* A role lists a policy exactly when that policy lists the role, and both
\* exist (roleGroupReverseIndex of add, modify and delete together).
Symmetric ==
    \A dn \in DNs : Present(dn) =>
        \A other \in links[dn] : Present(other) /\ dn \in links[other]

\* As long as requests do not overlap and a modify changes the list once.
SymmetricSerial == ~overlapped /\ MaxChanges <= 1 => Symmetric

\* A policy lists every role that links to it.  The code does not have this
\* property when a modify changes a list twice (README).
PoliciesListRoles ==
    \A role \in Roles : Present(role) =>
        \A policy \in links[role] : Present(policy) => role \in links[policy]

\* However requests interleave, the batch of a request about one DN changes
\* another entry's list in that DN only: the etags keep it from undoing the
\* links of others (doAdd, doRemove, reverseIdx, dropReverseIdx).
OnlyOwnLink ==
    [][\A s \in Slots : req[s] # Idle /\ req'[s] = Idle =>
        \A dn \in DNs \ {req[s].dn} :
            links'[dn] = links[dn] \/ links'[dn] \cup {req[s].dn} = links[dn] \cup {req[s].dn}]_vars

=============================================================================
