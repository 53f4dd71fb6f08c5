---------------------------- MODULE CapiCustomers ----------------------------
(***************************************************************************)
(* The customers and the login of the CAPI server (capi/customers.js,      *)
(* capi/login.js, capi/util.js), an HTTP service in front of UFDS.  Each   *)
(* CAPI process has a cache of the customers it has looked up, which it    *)
(* clears when it writes; the cache of another process keeps what it has   *)
(* until that expires.  A request is a chain of LDAP operations: the model *)
(* lets every operation be sent, be applied by UFDS and be answered in     *)
(* three steps, between which those of other requests come.                *)
(*                                                                         *)
(* A modify is applied by UFDS in two steps of its own: it loads the entry *)
(* and saves all of it, as changed, without looking whether it is still    *)
(* what was loaded (lib/db/mod.js).  A search, an add and a delete are     *)
(* applied at once.  Time is counted in ticks, of which a cached customer  *)
(* lives Expiry and an operation waits at most Timeout for its answer (the *)
(* client's clientTimeout).                                                *)
(***************************************************************************)
EXTENDS Integers

CONSTANTS
    Procs,          \* CAPI processes
    Customers,      \* their uuids; addUser draws a new one for each customer
    Digests,        \* what userpassword may hold
    Reqs,           \* slots for the HTTP requests in progress
    None,
    Expiry,
    Timeout

ASSUME NoneAssumption == None \notin Procs \cup Digests

ASSUME TimeAssumption == Expiry \in Nat \ {0} /\ Timeout \in Nat

VARIABLES
    users,          \* UFDS: the digest of each customer, or None
    operators,      \* UFDS: the members of cn=operators
    cache,          \* of each process: digest of a customer (or None) and age
    req,            \* the request in each slot
    answer,         \* the request answered by the last step, and its answer
    \* bookkeeping
    used,           \* uuids that a create has drawn
    since,          \* ticks since a customer last had a digest
    promised,       \* customers that were said to have been created as operators
    deleted,        \* customers to which a delete has been applied
    overlapped,     \* those whose change of cn=operators met another one
    stranded        \* those whose deletion stopped half way, or met their creation

ghosts == <<used, since, promised, deleted, overlapped, stranded>>

vars == <<users, operators, cache, req, answer, ghosts>>

-----------------------------------------------------------------------------
Cap == Expiry + Timeout

Loads == {"load", "reload"}

Writes == {"add", "code", "modify", "delete", "group"}

Request ==
    [op : {"create", "update", "del", "login"},
     cust : Customers,
     arg : Digests \cup {None},     \* the password of the request, if any
     role : BOOLEAN,                \* create: req.params.role is '2'
     proc : Procs \cup {None},      \* None: the process has died
     at : Loads \cup Writes,        \* the LDAP operation under way
     stage : {"sent", "loaded", "done", "refused"},
     seen : Digests \cup {None},    \* the customer that a search has read or a modify loaded
     members : SUBSET Customers,    \* the group that a modify has loaded
     age : 0 .. Timeout,            \* ticks since a search has read
     kept : Digests \cup {None},    \* update of a wrapped body: the customer to answer with
     clean : BOOLEAN]               \* nobody has written after the request did

Answer ==
    [op : {"create", "update", "login"}, cust : Customers, arg : Digests \cup {None},
     digest : Digests, reloaded : BOOLEAN, clean : BOOLEAN]

(* Slots that hold no request and steps without an answer have this value. *)
Nothing == [nothing |-> None]

Busy == {r \in Reqs : req[r] # Nothing}

NoCached == [digest |-> None, age |-> 0]

NewCache == [c \in Customers |-> NoCached]

TypeOK ==
    /\ users \in [Customers -> Digests \cup {None}]
    /\ operators \subseteq Customers
    /\ cache \in [Procs -> [Customers -> [digest : Digests \cup {None}, age : 0 .. Expiry - 1]]]
    /\ req \in [Reqs -> Request \cup {Nothing}]
    /\ answer \in Answer \cup {Nothing}
    /\ used \subseteq Customers
    /\ since \in [Customers -> [Digests -> 0 .. Cap]]
    /\ promised \subseteq Customers
    /\ deleted \subseteq Customers
    /\ overlapped \subseteq Customers
    /\ stranded \subseteq Customers

Init ==
    /\ users = [c \in Customers |-> None]
    /\ operators = {}
    /\ cache = [p \in Procs |-> NewCache]
    /\ req = [r \in Reqs |-> Nothing]
    /\ answer = Nothing
    /\ used = {}
    /\ since = [c \in Customers |-> [d \in Digests |-> Cap]]
    /\ promised = {}
    /\ deleted = {}
    /\ overlapped = {}
    /\ stranded = {}

-----------------------------------------------------------------------------
(* The next LDAP operation of a request, or its HTTP answer: an error or   *)
(* nothing, or the customer.                                               *)
Send(r, q, op) ==
    /\ req' = [req EXCEPT ![r] = [q EXCEPT !.at = op, !.stage = "sent", !.seen = None,
                                          !.members = {}, !.age = 0]]
    /\ answer' = Nothing

Reply(r) ==
    /\ req' = [req EXCEPT ![r] = Nothing]
    /\ answer' = Nothing

ReplyWith(r, q, d) ==
    /\ req' = [req EXCEPT ![r] = Nothing]
    /\ answer' = [op |-> q.op, cust |-> q.cust, arg |-> q.arg, digest |-> d,
                  reloaded |-> (q.at = "reload"), clean |-> q.clean]

(* The handler that comes after loadCustomer, which has found the digest d. *)
Login(r, q, d) ==
    /\ q.op = "login"
    /\ IF d = q.arg THEN ReplyWith(r, q, d) ELSE Reply(r)

Respond(r, q, d) ==
    /\ q.at = "reload"
    /\ ReplyWith(r, q, d)

(* The body of an update may be the attributes or an object "customer" with *)
(* them; then that replaces req.params, and the uuid of the URL is lost.     *)
Modify(r, q, d) ==
    /\ q.op = "update" /\ q.at = "load"
    /\ \E k \in {None, d} : Send(r, [q EXCEPT !.kept = k], "modify")

Delete(r, q) ==
    /\ q.op = "del"
    /\ Send(r, q, "delete")

Found(r, q, d) ==
    Login(r, q, d) \/ Respond(r, q, d) \/ Modify(r, q, d) \/ Delete(r, q)

(* loadCustomer: getUser answers from the process's cache if it can.       *)
LoadCustomer(r, q, cached) ==
    \/ /\ cached[q.cust].digest = None
       /\ Send(r, q, q.at)
    \/ /\ cached[q.cust].digest # None
       /\ Found(r, q, cached[q.cust].digest)

-----------------------------------------------------------------------------
(* A request arrives at a process.                                         *)
Arrived(op, c, d, role, p, at) ==
    [op |-> op, cust |-> c, arg |-> d, role |-> role, proc |-> p, at |-> at,
     stage |-> "sent", seen |-> None, members |-> {}, age |-> 0, kept |-> None, clean |-> FALSE]

Create(r, p, c, d, role) ==
    /\ req[r] = Nothing
    /\ c \notin used
    /\ used' = used \cup {c}
    /\ Send(r, Arrived("create", c, d, role, p, "add"), "add")
    /\ UNCHANGED <<users, operators, cache, since, promised, deleted, overlapped, stranded>>

Handle(r, p, op, c, d) ==
    /\ req[r] = Nothing
    /\ c \in used
    /\ LoadCustomer(r, Arrived(op, c, d, FALSE, p, "load"), cache[p])
    /\ UNCHANGED <<users, operators, cache, ghosts>>

Begin(r) ==
    \E p \in Procs, c \in Customers :
        \/ \E d \in Digests, role \in BOOLEAN : Create(r, p, c, d, role)
        \/ \E d \in Digests \cup {None} : Handle(r, p, "update", c, d)
        \/ \E d \in Digests : Handle(r, p, "login", c, d)
        \/ Handle(r, p, "del", c, None)

-----------------------------------------------------------------------------
(* UFDS applies an operation.                                              *)
Serving(r, ops) ==
    /\ r \in Busy
    /\ req[r].stage = "sent"
    /\ req[r].at \in ops
    /\ answer' = Nothing

(* The customer of r is written: what others had written to it is gone.    *)
Applied(r) ==
    [x \in Reqs |->
        IF x = r
        THEN [req[r] EXCEPT !.stage = "done", !.seen = None,
                            !.clean = (req[r].op = "update" /\ req[r].arg # None)]
        ELSE IF x \in Busy /\ req[x].cust = req[r].cust
        THEN [req[x] EXCEPT !.clean = FALSE]
        ELSE req[x]]

Changed(r, d) ==
    /\ users' = [users EXCEPT ![req[r].cust] = d]
    /\ since' = [since EXCEPT ![req[r].cust][d] = 0]
    /\ req' = Applied(r)

ServeSearch(r) ==
    /\ Serving(r, Loads)
    /\ users[req[r].cust] # None
    /\ req' = [req EXCEPT ![r].stage = "done", ![r].seen = users[req[r].cust], ![r].age = 0]
    /\ UNCHANGED <<users, operators, cache, ghosts>>

ServeAdd(r) ==
    /\ Serving(r, {"add"})
    /\ Changed(r, req[r].arg)
    /\ UNCHANGED <<operators, cache, used, promised, deleted, overlapped, stranded>>

ServeDelete(r) ==
    /\ Serving(r, {"delete"})
    /\ users[req[r].cust] # None
    /\ users' = [users EXCEPT ![req[r].cust] = None]
    /\ req' = Applied(r)
    /\ deleted' = deleted \cup {req[r].cust}
    /\ stranded' = IF \E x \in Busy : req[x].op = "create" /\ req[x].cust = req[r].cust
                   THEN stranded \cup {req[r].cust} ELSE stranded
    /\ UNCHANGED <<operators, cache, used, since, promised, overlapped>>

(* A modify loads the customer or the group ...                            *)
LoadEntry(r) ==
    /\ Serving(r, {"modify", "code"})
    /\ users[req[r].cust] # None
    /\ req' = [req EXCEPT ![r].stage = "loaded", ![r].seen = users[req[r].cust]]
    /\ UNCHANGED <<users, operators, cache, ghosts>>

LoadGroup(r) ==
    /\ Serving(r, {"group"})
    /\ req' = [req EXCEPT ![r].stage = "loaded", ![r].members = operators]
    /\ UNCHANGED <<users, operators, cache, ghosts>>

(* ... and saves all of it, whatever was written or deleted in between.    *)
Saving(r, ops) ==
    /\ r \in Busy
    /\ req[r].stage = "loaded"
    /\ req[r].at \in ops
    /\ answer' = Nothing

SaveEntry(r) ==
    /\ Saving(r, {"modify", "code"})
    /\ Changed(r, IF req[r].at = "modify" /\ req[r].arg # None THEN req[r].arg ELSE req[r].seen)
    /\ UNCHANGED <<operators, cache, used, promised, deleted, overlapped, stranded>>

SaveGroup(r) ==
    /\ Saving(r, {"group"})
    /\ operators' = IF req[r].op = "create" THEN req[r].members \cup {req[r].cust}
                                            ELSE req[r].members \ {req[r].cust}
    /\ req' = [req EXCEPT ![r].stage = "done", ![r].members = {}]
    /\ overlapped' = IF \E x \in Busy \ {r} : req[x].at = "group" /\ req[x].stage = "loaded"
                     THEN overlapped \cup {req[r].cust} ELSE overlapped
    /\ UNCHANGED <<users, cache, used, since, promised, deleted, stranded>>

(* The deletion has been applied and the group not been changed.           *)
HalfDeleted(q) ==
    /\ q.op = "del"
    /\ \/ q.at = "delete" /\ q.stage = "done"
       \/ q.at = "group" /\ q.stage \in {"sent", "loaded"}

Stranded(rs) == {req[r].cust : r \in {x \in rs : HalfDeleted(req[x])}}

(* UFDS refuses it: the entry is not there or has children, moray is down; *)
(* or the connection breaks and the answer to an operation that was        *)
(* applied is lost.                                                        *)
Refuse(r) ==
    /\ r \in Busy
    /\ req[r].stage # "refused"
    /\ req' = [req EXCEPT ![r].stage = "refused", ![r].seen = None, ![r].members = {},
                        ![r].age = 0]
    /\ answer' = Nothing
    /\ stranded' = stranded \cup Stranded({r})
    /\ UNCHANGED <<users, operators, cache, used, since, promised, deleted, overlapped>>

-----------------------------------------------------------------------------
(* The process of a request gets the answer to its LDAP operation.         *)
Answered(r, ops, stages) ==
    /\ r \in Busy
    /\ req[r].proc # None
    /\ req[r].at \in ops
    /\ req[r].stage \in stages

\* Mutant: writes through ufds.client leave the cache as it is.
ClearedNot(r) == cache

Cleared(r) == [cache EXCEPT ![req[r].proc] = NewCache]

LoadAnswered(r) ==
    /\ Answered(r, Loads, {"done"})
    /\ cache' = [cache EXCEPT ![req[r].proc][req[r].cust] = [digest |-> req[r].seen, age |-> 0]]
    /\ Found(r, req[r], req[r].seen)
    /\ UNCHANGED <<users, operators, ghosts>>

(* addUser and updateUser of the client clear the cache themselves.        *)
Added(r) ==
    /\ Answered(r, {"add"}, {"done"})
    /\ cache' = Cleared(r)
    /\ Send(r, req[r], "code")
    /\ UNCHANGED <<users, operators, ghosts>>

Coded(r) ==
    /\ Answered(r, {"code"}, {"done"})
    /\ cache' = Cleared(r)
    /\ \/ req[r].role /\ Send(r, req[r], "group")
       \/ ~req[r].role /\ ReplyWith(r, req[r], req[r].arg)
    /\ UNCHANGED <<users, operators, ghosts>>

\* Mutant: create ignores an error of the change of the group, as del does.
MadeOperatorAnyway(r) ==
    /\ Answered(r, {"group"}, {"done", "refused"})
    /\ req[r].op = "create"
    /\ cache' = Cleared(r)
    /\ ReplyWith(r, req[r], req[r].arg)
    /\ promised' = promised \cup {req[r].cust}
    /\ UNCHANGED <<users, operators, used, since, deleted, overlapped, stranded>>

MadeOperator(r) ==
    /\ Answered(r, {"group"}, {"done"})
    /\ req[r].op = "create"
    /\ cache' = Cleared(r)
    /\ ReplyWith(r, req[r], req[r].arg)
    /\ promised' = promised \cup {req[r].cust}
    /\ UNCHANGED <<users, operators, used, since, deleted, overlapped, stranded>>

(* update and forgot_password load the customer again, for their answer,    *)
(* but for an update whose wrapped body has neither uuid nor login: that     *)
(* answers with the customer it had loaded before.                           *)
Modified(r) ==
    /\ Answered(r, {"modify"}, {"done"})
    /\ cache' = Cleared(r)
    /\ \/ /\ req[r].kept = None
          /\ LoadCustomer(r, [req[r] EXCEPT !.at = "reload"], cache'[req[r].proc])
       \/ /\ req[r].kept # None
          /\ ReplyWith(r, req[r], req[r].kept)
    /\ UNCHANGED <<users, operators, ghosts>>

\* Mutant: del leaves the group as it is.
DeletedOnly(r) ==
    /\ Answered(r, {"delete"}, {"done"})
    /\ cache' = Cleared(r)
    /\ Reply(r)
    /\ UNCHANGED <<users, operators, ghosts>>

Deleted(r) ==
    /\ Answered(r, {"delete"}, {"done"})
    /\ cache' = Cleared(r)
    /\ Send(r, req[r], "group")
    /\ UNCHANGED <<users, operators, ghosts>>

(* del ignores an error of the change of the group.                        *)
LeftGroup(r) ==
    /\ Answered(r, {"group"}, {"done", "refused"})
    /\ req[r].op = "del"
    /\ cache' = Cleared(r)
    /\ Reply(r)
    /\ UNCHANGED <<users, operators, ghosts>>

(* Of a create that has failed the customer stays: the call that should     *)
(* delete it is made on req.ldap, which nothing sets, and throws.           *)
Failed(r) ==
    /\ Answered(r, Loads \cup Writes, {"refused"})
    /\ ~ (req[r].op = "del" /\ req[r].at = "group")
    /\ Reply(r)
    /\ UNCHANGED <<users, operators, cache, ghosts>>

-----------------------------------------------------------------------------
(* A process dies.  What it has sent may still be applied by UFDS.         *)
Crash(p) ==
    /\ cache' = [cache EXCEPT ![p] = NewCache]
    /\ req' = [r \in Reqs |->
                  IF r \notin Busy \/ req[r].proc # p THEN req[r]
                  ELSE IF req[r].stage \in {"sent", "loaded"} THEN [req[r] EXCEPT !.proc = None]
                  ELSE Nothing]
    /\ answer' = Nothing
    /\ stranded' = stranded \cup Stranded({x \in Busy : req[x].proc = p /\ req[x].stage = "done"})
    /\ UNCHANGED <<users, operators, used, since, promised, deleted, overlapped>>

Orphaned(r) ==
    /\ r \in Busy
    /\ req[r].proc = None
    /\ req[r].stage \in {"done", "refused"}
    /\ req' = [req EXCEPT ![r] = Nothing]
    /\ answer' = Nothing
    /\ stranded' = stranded \cup Stranded({r})
    /\ UNCHANGED <<users, operators, cache, used, since, promised, deleted, overlapped>>

(* Time passes: the answer to a search is waited for no longer than        *)
(* Timeout, and a cached customer is kept no longer than Expiry.           *)
Waiting(r) == r \in Busy /\ req[r].at \in Loads /\ req[r].stage = "done"

\* Mutant: an expired customer is dropped one tick late.
OlderLate(e) == IF e.digest = None \/ e.age = Expiry THEN NoCached ELSE [e EXCEPT !.age = @ + 1]

Older(e) == IF e.digest = None \/ e.age + 1 = Expiry THEN NoCached ELSE [e EXCEPT !.age = @ + 1]

Tick ==
    /\ \A r \in Reqs : Waiting(r) => req[r].age < Timeout
    /\ req' = [r \in Reqs |-> IF Waiting(r) THEN [req[r] EXCEPT !.age = @ + 1] ELSE req[r]]
    /\ cache' = [p \in Procs |-> [c \in Customers |-> Older(cache[p][c])]]
    /\ since' = [c \in Customers |-> [d \in Digests |->
                    IF users[c] = d THEN 0
                    ELSE IF since[c][d] < Cap THEN since[c][d] + 1 ELSE Cap]]
    /\ answer' = Nothing
    /\ UNCHANGED <<users, operators, used, promised, deleted, overlapped, stranded>>

-----------------------------------------------------------------------------
Serve(r) ==
    \/ ServeSearch(r) \/ ServeAdd(r) \/ ServeDelete(r)
    \/ LoadEntry(r) \/ LoadGroup(r) \/ SaveEntry(r) \/ SaveGroup(r) \/ Refuse(r)

Continue(r) ==
    \/ LoadAnswered(r) \/ Added(r) \/ Coded(r) \/ MadeOperator(r)
    \/ Modified(r) \/ Deleted(r) \/ LeftGroup(r) \/ Failed(r) \/ Orphaned(r)

Next ==
    \/ \E r \in Reqs : Begin(r) \/ Serve(r) \/ Continue(r)
    \/ \E p \in Procs : Crash(p)
    \/ Tick

Spec == Init /\ [][Next]_vars

-----------------------------------------------------------------------------
(* The digest that a login is accepted with was the customer's less than   *)
(* Expiry + Timeout ticks ago, whatever was written by whichever process   *)
(* and however searches, their answers and the clearing of the caches came *)
(* in between.                                                             *)
LoginCurrent ==
    answer # Nothing /\ answer.op = "login" =>
        since[answer.cust][answer.digest] < Expiry + Timeout

(* The customer that update answers with, having loaded it again, has the  *)
(* password it was given, unless the customer was written or deleted after *)
(* it; any modify of the customer writes the password, the one it had      *)
(* loaded if it changes something else.                                    *)
UpdateSeen ==
    answer # Nothing /\ answer.op = "update" /\ answer.arg # None
        /\ answer.reloaded /\ answer.clean =>
            answer.digest = answer.arg

(* A customer that create has said to be an operator is one until it is    *)
(* deleted, unless its change of the group was saved while another one was *)
(* between its load and its save: refused and repeated deletions, those of *)
(* other customers and dying processes take nobody out of the group.       *)
CreateTruthful == promised \ (deleted \cup overlapped) \subseteq operators

(* The group has no member that does not exist, but for one whose deletion *)
(* is under way or stopped between the customer and the group, one that    *)
(* was deleted while it was being created, and one whose change of the     *)
(* group was saved while another one was between its load and its save.    *)
OperatorsExist ==
    \A c \in operators \ (stranded \cup overlapped) :
        \/ users[c] # None
        \/ \E r \in Busy : req[r].cust = c /\ HalfDeleted(req[r])

=============================================================================
