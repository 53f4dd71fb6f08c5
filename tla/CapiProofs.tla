----------------------------- MODULE CapiProofs -----------------------------
(***************************************************************************)
(* Proofs about CapiCustomers: its types and its four invariants.  What    *)
(* each action does to the slot of its request is stated once (the *View   *)
(* formulas); the proofs about the invariants use only that.               *)
(***************************************************************************)
EXTENDS CapiCustomers, TLAPS

(* What a request may be at, and what it carries then.                     *)
Shape(q) ==
    /\ q.op \in {"create", "login"} => q.arg \in Digests
    /\ q.op = "login" => q.at = "load"
    /\ q.op = "create" => q.at \in {"add", "code", "group"}
    /\ q.op = "update" => q.at \in {"load", "modify", "reload"}
    /\ q.op = "del" => q.at \in {"load", "delete", "group"}
    /\ q.at \in Loads /\ q.stage = "done" => q.seen \in Digests
    /\ q.stage = "loaded" => q.at \in {"modify", "code", "group"}
    /\ q.stage = "loaded" /\ q.at # "group" => q.seen \in Digests

Shaped == {q \in Request : Shape(q)}

Cached == [digest : Digests \cup {None}, age : 0 .. Expiry - 1]

Caches == [Procs -> [Customers -> Cached]]

Records ==
    /\ users \in [Customers -> Digests \cup {None}]
    /\ operators \subseteq Customers
    /\ cache \in Caches
    /\ used \subseteq Customers
    /\ since \in [Customers -> [Digests -> 0 .. Cap]]
    /\ promised \subseteq Customers
    /\ deleted \subseteq Customers
    /\ overlapped \subseteq Customers
    /\ stranded \subseteq Customers

SlotsFilled == req' = [x \in Reqs |-> req'[x]]

SlotsOK == req \in [Reqs -> Shaped \cup {Nothing}]

AnswerOK == answer \in Answer \cup {Nothing}

TInv == Records /\ SlotsOK /\ AnswerOK

LEMMA TInvTypes == TInv => TypeOK
<1>1. Shaped \subseteq Request
  BY DEF Shaped
<1> QED
  BY <1>1 DEF TInv, Records, SlotsOK, AnswerOK, TypeOK, Caches, Cached

LEMMA NotNothing ==
    ASSUME NEW q \in Request
    PROVE  q # Nothing
<1>1. "op" \in DOMAIN q
  BY DEF Request
<1>2. DOMAIN Nothing = {"nothing"}
  BY DEF Nothing
<1> QED
  BY <1>1, <1>2

LEMMA BusyShape ==
    ASSUME TInv, NEW r \in Busy
    PROVE  /\ r \in Reqs /\ req[r] # Nothing /\ req[r] \in Request /\ Shape(req[r])
           /\ req[r] \in Shaped /\ req[r].cust \in Customers
BY DEF Busy, TInv, SlotsOK, Shaped, Request

-----------------------------------------------------------------------------
(* Of two forms of a request: that it is the same one, and that UFDS has   *)
(* done as much of its operation.                                          *)
Same(q, m) ==
    /\ m.op = q.op /\ m.cust = q.cust /\ m.arg = q.arg
    /\ m.proc = q.proc /\ m.at = q.at /\ m.kept = q.kept

Held(q, m) ==
    /\ Same(q, m)
    /\ m.stage = q.stage /\ m.seen = q.seen /\ m.members = q.members /\ m.age = q.age

(* The forms that the actions give a request.                              *)
LEMMA UncleanForm ==
    ASSUME NEW q \in Request,
           NEW m, m = [q EXCEPT !.clean = FALSE]
    PROVE  m \in Request /\ Held(q, m) /\ ~m.clean
BY DEF Request, Held, Same

LEMMA SavedForm ==
    ASSUME NEW q \in Request,
           NEW m, m = [q EXCEPT !.stage = "done", !.members = {}]
    PROVE  m \in Request /\ Same(q, m) /\ m.stage = "done" /\ m.clean = q.clean
BY DEF Request, Same

LEMMA RefusedForm ==
    ASSUME NEW q \in Request,
           NEW m, m = [q EXCEPT !.stage = "refused", !.seen = None, !.members = {}, !.age = 0]
    PROVE  m \in Request /\ Same(q, m) /\ m.stage = "refused" /\ m.clean = q.clean
<1>1. 0 \in 0 .. Timeout
  BY TimeAssumption
<1> QED
  BY <1>1 DEF Request, Same

LEMMA KeptForm ==
    ASSUME NEW q \in Request, NEW k \in Digests \cup {None},
           NEW m, m = [q EXCEPT !.kept = k]
    PROVE  /\ m \in Request
           /\ m.op = q.op /\ m.cust = q.cust /\ m.arg = q.arg /\ m.proc = q.proc
           /\ m.at = q.at /\ m.stage = q.stage /\ m.clean = q.clean
BY DEF Request

-----------------------------------------------------------------------------
(***************************************************************************)
(* The steps of UFDS, as what they do to the slots and the entries.        *)
(***************************************************************************)
Untouched(r) == \A x \in Reqs \ {r} : req'[x] = req[x]

(* The other requests for the customer are told that somebody wrote.       *)
OthersMarked(r) ==
    \A x \in Reqs \ {r} :
        \/ req'[x] = req[x] /\ (req[x] # Nothing => req[x].cust # req[r].cust)
        \/ /\ req[x] # Nothing /\ req[x].cust = req[r].cust
           /\ req'[x] \in Request /\ Held(req[x], req'[x]) /\ ~req'[x].clean

SearchView(r) ==
    /\ req[r].at \in Loads /\ req[r].stage = "sent"
    /\ req'[r].stage = "done" /\ req'[r].seen = users[req[r].cust] /\ req'[r].age = 0
    /\ users[req[r].cust] \in Digests
    /\ req'[r].clean = req[r].clean
    /\ Untouched(r)
    /\ UNCHANGED <<users, operators, since, deleted, overlapped, stranded>>

WriteView(r, d) ==
    /\ \/ req[r].at = "add" /\ req[r].stage = "sent" /\ d = req[r].arg
       \/ /\ req[r].at \in {"modify", "code"} /\ req[r].stage = "loaded"
          /\ req[r].at = "modify" /\ req[r].arg # None => d = req[r].arg
    /\ req'[r].stage = "done" /\ req'[r].clean = (req[r].op = "update" /\ req[r].arg # None)
    /\ OthersMarked(r)
    /\ users' = [users EXCEPT ![req[r].cust] = d]
    /\ since' = [since EXCEPT ![req[r].cust][d] = 0]
    /\ UNCHANGED <<operators, deleted, overlapped, stranded>>

DeleteView(r) ==
    /\ req[r].at = "delete" /\ req[r].stage = "sent" /\ req[r].op = "del"
    /\ req'[r].stage = "done" /\ ~req'[r].clean
    /\ OthersMarked(r)
    /\ users' = [users EXCEPT ![req[r].cust] = None]
    /\ deleted' = deleted \cup {req[r].cust}
    /\ stranded' = IF \E x \in Busy : req[x].op = "create" /\ req[x].cust = req[r].cust
                   THEN stranded \cup {req[r].cust} ELSE stranded
    /\ UNCHANGED <<operators, since, overlapped>>

LoadView(r) ==
    /\ req[r].at \in {"modify", "code", "group"} /\ req[r].stage = "sent"
    /\ req'[r].stage = "loaded" /\ req'[r].clean = req[r].clean
    /\ req[r].at # "group" => req'[r].seen \in Digests
    /\ req[r].at = "group" => req'[r].members = operators
    /\ Untouched(r)
    /\ UNCHANGED <<users, operators, since, deleted, overlapped, stranded>>

SaveGroupView(r) ==
    /\ req[r].at = "group" /\ req[r].stage = "loaded"
    /\ req'[r].stage = "done" /\ req'[r].clean = req[r].clean
    /\ operators' = IF req[r].op = "create" THEN req[r].members \cup {req[r].cust}
                                            ELSE req[r].members \ {req[r].cust}
    /\ overlapped' = IF \E x \in Busy \ {r} : req[x].at = "group" /\ req[x].stage = "loaded"
                     THEN overlapped \cup {req[r].cust} ELSE overlapped
    /\ Untouched(r)
    /\ UNCHANGED <<users, since, deleted, stranded>>

RefuseView(r) ==
    /\ req[r].stage # "refused"
    /\ req'[r].stage = "refused" /\ req'[r].clean = req[r].clean
    /\ stranded' = stranded \cup Stranded({r})
    /\ Untouched(r)
    /\ UNCHANGED <<users, operators, since, deleted, overlapped>>

LEMMA AppliedView ==
    ASSUME TInv, NEW r \in Busy, req' = Applied(r)
    PROVE  /\ req'[r] \in Request /\ Same(req[r], req'[r]) /\ req'[r].stage = "done"
           /\ req'[r].clean = (req[r].op = "update" /\ req[r].arg # None)
           /\ OthersMarked(r)
<1>1. r \in Reqs /\ req[r] \in Request
  BY BusyShape
<1>2. req'[r] = [req[r] EXCEPT !.stage = "done", !.seen = None,
                               !.clean = (req[r].op = "update" /\ req[r].arg # None)]
  BY <1>1 DEF Applied
<1>3. ASSUME NEW x \in Reqs \ {r}
      PROVE  \/ req'[x] = req[x] /\ (req[x] # Nothing => req[x].cust # req[r].cust)
             \/ /\ req[x] # Nothing /\ req[x].cust = req[r].cust
                /\ req'[x] \in Request /\ Held(req[x], req'[x]) /\ ~req'[x].clean
  <2>1. CASE x \in Busy /\ req[x].cust = req[r].cust
    <3>1. req'[x] = [req[x] EXCEPT !.clean = FALSE] /\ req[x] \in Request /\ req[x] # Nothing
      BY <2>1, BusyShape DEF Applied
    <3> QED
      BY <2>1, <3>1, UncleanForm
  <2>2. CASE ~(x \in Busy /\ req[x].cust = req[r].cust)
    BY <2>2 DEF Applied, Busy
  <2> QED
    BY <2>1, <2>2
<1> DEFINE b == (req[r].op = "update" /\ req[r].arg # None)
<1>4. b \in BOOLEAN /\ req'[r] = [req[r] EXCEPT !.stage = "done", !.seen = None, !.clean = b]
  BY <1>2
<1> HIDE DEF b
<1>5. /\ req'[r] \in Request /\ Same(req[r], req'[r]) /\ req'[r].stage = "done"
      /\ req'[r].clean = b
  BY <1>1, <1>4 DEF Request, Same
<1> QED
  BY <1>3, <1>5 DEF OthersMarked, b

LEMMA ServeView ==
    ASSUME TInv, NEW r \in Reqs, Serve(r)
    PROVE  /\ r \in Busy /\ answer' = Nothing /\ UNCHANGED <<cache, used, promised>>
           /\ req'[r] \in Request /\ Same(req[r], req'[r]) /\ SlotsFilled
           /\ \/ SearchView(r) \/ DeleteView(r) \/ LoadView(r) \/ SaveGroupView(r) \/ RefuseView(r)
              \/ \E d \in Digests : WriteView(r, d)
<1>0. SlotsOK
  BY DEF TInv
<1>1. r \in Busy /\ answer' = Nothing /\ UNCHANGED <<cache, used, promised>>
  BY DEF Serve, ServeSearch, ServeAdd, ServeDelete, LoadEntry, LoadGroup, SaveEntry, SaveGroup,
         Refuse, Serving, Saving, Changed, ghosts
<1>2. /\ req[r] \in Request /\ Shape(req[r]) /\ req[r] # Nothing /\ req[r].cust \in Customers
      /\ req[r].arg \in Digests \cup {None} /\ req[r].members \subseteq Customers
  BY <1>1, BusyShape DEF Request
<1>3. ASSUME NEW m, req' = [req EXCEPT ![r] = m]
      PROVE  req'[r] = m /\ Untouched(r) /\ SlotsFilled
  BY <1>0, <1>3 DEF SlotsOK, Untouched, SlotsFilled
<1>4. ASSUME req' = Applied(r)
      PROVE  SlotsFilled
  BY <1>4 DEF Applied, SlotsFilled
<1>5. CASE ServeSearch(r)
  <2>1. users[req[r].cust] \in Digests
    BY <1>2, <1>5 DEF ServeSearch, TInv, Records
  <2>2. req' = [req EXCEPT ![r] = [req[r] EXCEPT !.stage = "done",
                                                 !.seen = users[req[r].cust], !.age = 0]]
    BY <1>0, <1>5 DEF ServeSearch, SlotsOK
  <2> DEFINE d == users[req[r].cust]
  <2>3. req'[r] = [req[r] EXCEPT !.stage = "done", !.seen = d, !.age = 0]
        /\ Untouched(r) /\ SlotsFilled
    BY <1>3, <2>2
  <2> HIDE DEF d
  <2>4. /\ req'[r] \in Request /\ Same(req[r], req'[r]) /\ req'[r].clean = req[r].clean
        /\ req'[r].stage = "done" /\ req'[r].seen = d /\ req'[r].age = 0
    <3>1. 0 \in 0 .. Timeout
      BY TimeAssumption
    <3> QED
      BY <1>2, <2>1, <2>3, <3>1 DEF d, Request, Same
  <2>5. SearchView(r)
    BY <1>5, <2>1, <2>3, <2>4 DEF ServeSearch, Serving, SearchView, ghosts, d
  <2> QED
    BY <1>1, <2>3, <2>4, <2>5
<1>6. CASE ServeAdd(r)
  <2>1. req[r].arg \in Digests /\ req[r].at = "add" /\ req[r].stage = "sent"
    BY <1>2, <1>6 DEF ServeAdd, Serving, Shape, Request
  <2>2. req' = Applied(r) /\ SlotsFilled
    BY <1>4, <1>6 DEF ServeAdd, Changed
  <2>3. WriteView(r, req[r].arg) /\ req'[r] \in Request /\ Same(req[r], req'[r])
    BY <1>1, <1>6, <2>1, <2>2, AppliedView DEF ServeAdd, Changed, WriteView
  <2> QED
    BY <1>1, <2>1, <2>2, <2>3
<1>7. CASE SaveEntry(r)
  <2> DEFINE d == IF req[r].at = "modify" /\ req[r].arg # None THEN req[r].arg ELSE req[r].seen
  <2>1. req[r].at \in {"modify", "code"} /\ req[r].stage = "loaded" /\ Changed(r, d)
    BY <1>7 DEF SaveEntry, Saving
  <2>2. d \in Digests /\ (req[r].at = "modify" /\ req[r].arg # None => d = req[r].arg)
    BY <1>2, <2>1 DEF Shape
  <2> HIDE DEF d
  <2>3. req' = Applied(r) /\ SlotsFilled
    BY <1>4, <2>1 DEF Changed
  <2>4. WriteView(r, d) /\ req'[r] \in Request /\ Same(req[r], req'[r])
    BY <1>1, <1>7, <2>1, <2>2, <2>3, AppliedView DEF SaveEntry, Changed, WriteView
  <2> QED
    BY <1>1, <2>2, <2>3, <2>4
<1>8. CASE ServeDelete(r)
  <2>1. req[r].at = "delete" /\ req[r].stage = "sent" /\ req[r].op = "del"
    BY <1>2, <1>8 DEF ServeDelete, Serving, Shape, Request
  <2>2. req' = Applied(r) /\ SlotsFilled
    BY <1>4, <1>8 DEF ServeDelete
  <2>3. DeleteView(r) /\ req'[r] \in Request /\ Same(req[r], req'[r])
    BY <1>1, <1>8, <2>1, <2>2, AppliedView DEF ServeDelete, DeleteView
  <2> QED
    BY <1>1, <2>2, <2>3
<1>9. CASE LoadEntry(r)
  <2>1. users[req[r].cust] \in Digests
    BY <1>2, <1>9 DEF LoadEntry, TInv, Records
  <2>2. req' = [req EXCEPT ![r] = [req[r] EXCEPT !.stage = "loaded", !.seen = users[req[r].cust]]]
    BY <1>0, <1>9 DEF LoadEntry, SlotsOK
  <2> DEFINE d == users[req[r].cust]
  <2>3. req'[r] = [req[r] EXCEPT !.stage = "loaded", !.seen = d]
        /\ Untouched(r) /\ SlotsFilled
    BY <1>3, <2>2
  <2> HIDE DEF d
  <2>4. /\ req'[r] \in Request /\ Same(req[r], req'[r]) /\ req'[r].clean = req[r].clean
        /\ req'[r].stage = "loaded" /\ req'[r].seen \in Digests
    BY <1>2, <2>1, <2>3 DEF d, Request, Same
  <2>5. LoadView(r)
    BY <1>9, <2>3, <2>4 DEF LoadEntry, Serving, LoadView, ghosts
  <2> QED
    BY <1>1, <2>3, <2>4, <2>5
<1>10. CASE LoadGroup(r)
  <2>1. operators \in SUBSET Customers
    BY DEF TInv, Records
  <2>2. req' = [req EXCEPT ![r] = [req[r] EXCEPT !.stage = "loaded", !.members = operators]]
    BY <1>0, <1>10 DEF LoadGroup, SlotsOK
  <2>3. req'[r] = [req[r] EXCEPT !.stage = "loaded", !.members = operators]
        /\ Untouched(r) /\ SlotsFilled
    BY <1>3, <2>2
  <2>4. /\ req'[r] \in Request /\ Same(req[r], req'[r]) /\ req'[r].clean = req[r].clean
        /\ req'[r].stage = "loaded" /\ req'[r].members = operators
    BY <1>2, <2>1, <2>3 DEF Request, Same
  <2>5. LoadView(r)
    BY <1>10, <2>3, <2>4 DEF LoadGroup, Serving, LoadView, ghosts
  <2> QED
    BY <1>1, <2>3, <2>4, <2>5
<1>11. CASE SaveGroup(r)
  <2>1. req' = [req EXCEPT ![r] = [req[r] EXCEPT !.stage = "done", !.members = {}]]
    BY <1>0, <1>11 DEF SaveGroup, SlotsOK
  <2>2. SaveGroupView(r) /\ req'[r] \in Request /\ Same(req[r], req'[r])
    BY <1>2, <1>3, <1>11, <2>1, SavedForm DEF SaveGroup, Saving, SaveGroupView
  <2> QED
    BY <1>1, <1>3, <2>1, <2>2
<1>12. CASE Refuse(r)
  <2>1. req' = [req EXCEPT ![r] = [req[r] EXCEPT !.stage = "refused", !.seen = None,
                                                 !.members = {}, !.age = 0]]
    BY <1>0, <1>12 DEF Refuse, SlotsOK
  <2>2. req'[r] = [req[r] EXCEPT !.stage = "refused", !.seen = None, !.members = {}, !.age = 0]
        /\ Untouched(r) /\ SlotsFilled
    BY <1>3, <2>1
  <2>3. /\ req'[r] \in Request /\ Same(req[r], req'[r]) /\ req'[r].clean = req[r].clean
        /\ req'[r].stage = "refused"
    BY <1>2, <2>2, RefusedForm
  <2>4. RefuseView(r)
    BY <1>12, <2>2, <2>3 DEF Refuse, RefuseView
  <2> QED
    BY <1>1, <2>2, <2>3, <2>4
<1> QED
  BY <1>5, <1>6, <1>7, <1>8, <1>9, <1>10, <1>11, <1>12 DEF Serve

-----------------------------------------------------------------------------
(***************************************************************************)
(* The steps of a process, as what they do to the slot of the request.     *)
(***************************************************************************)
(* A request goes on with its next operation.                              *)
Goes(r, q) ==
    /\ req'[r] \in Request
    /\ req'[r].op = q.op /\ req'[r].cust = q.cust /\ req'[r].arg = q.arg
    /\ req'[r].proc = q.proc /\ req'[r].clean = q.clean
    /\ req'[r].stage = "sent"
    /\ answer' = Nothing

LEMMA SentFields ==
    ASSUME SlotsOK, NEW r \in Reqs, NEW q \in Request, NEW op \in Loads \cup Writes, Send(r, q, op)
    PROVE  Goes(r, q) /\ req'[r].at = op /\ Untouched(r) /\ SlotsFilled
<1> DEFINE m == [q EXCEPT !.at = op, !.stage = "sent", !.seen = None, !.members = {}, !.age = 0]
<1>1. req'[r] = m /\ Untouched(r) /\ SlotsFilled /\ answer' = Nothing
  BY DEF Send, SlotsOK, Untouched, SlotsFilled
<1>2. m = [q EXCEPT !.at = op, !.stage = "sent", !.seen = None, !.members = {}, !.age = 0]
  OBVIOUS
<1> HIDE DEF m
<1>3. /\ m \in Request
      /\ m.op = q.op /\ m.cust = q.cust /\ m.arg = q.arg
      /\ m.proc = q.proc /\ m.clean = q.clean /\ m.at = op /\ m.stage = "sent"
  <2>1. 0 \in 0 .. Timeout
    BY TimeAssumption
  <2> QED
    BY <1>2, <2>1 DEF Request
<1> QED
  BY <1>1, <1>3 DEF Goes

LEMMA ReplyFields ==
    ASSUME SlotsOK, NEW r \in Reqs, Reply(r) \/ \E q, d : ReplyWith(r, q, d)
    PROVE  req'[r] = Nothing /\ Untouched(r) /\ SlotsFilled
BY DEF Reply, ReplyWith, SlotsOK, Untouched, SlotsFilled

LEMMA ReplyAnswer ==
    ASSUME NEW r, NEW q \in Request, NEW d \in Digests, ReplyWith(r, q, d), q.op # "del"
    PROVE  /\ answer' \in Answer
           /\ answer'.op = q.op /\ answer'.cust = q.cust /\ answer'.arg = q.arg
           /\ answer'.digest = d /\ answer'.clean = q.clean
           /\ answer'.reloaded = (q.at = "reload")
BY DEF ReplyWith, Answer, Request

(* What follows on a customer that was found.                              *)
FoundView(r, q, d) ==
    \/ /\ req'[r] = Nothing
       /\ \/ answer' = Nothing
          \/ /\ answer' \in Answer
             /\ answer'.op = q.op /\ answer'.cust = q.cust /\ answer'.arg = q.arg
             /\ answer'.digest = d /\ answer'.clean = q.clean
             /\ q.op = "login" \/ q.at = "reload"
       /\ q.op # "del"
    \/ /\ Goes(r, q)
       /\ \/ q.op = "update" /\ q.at = "load" /\ req'[r].at = "modify"
          \/ q.op = "del" /\ req'[r].at = "delete"

LEMMA FoundGives ==
    ASSUME SlotsOK, NEW r \in Reqs, NEW q \in Request, NEW d \in Digests, Found(r, q, d),
           q.at = "reload" => q.op = "update"
    PROVE  FoundView(r, q, d) /\ Untouched(r) /\ SlotsFilled
<1>1. CASE Login(r, q, d)
  <2>1. q.op = "login" /\ (ReplyWith(r, q, d) \/ Reply(r))
    BY <1>1 DEF Login
  <2>2. req'[r] = Nothing /\ Untouched(r) /\ SlotsFilled
    BY <2>1, ReplyFields
  <2>3. CASE ReplyWith(r, q, d)
    BY <2>1, <2>2, <2>3, ReplyAnswer DEF FoundView
  <2>4. CASE Reply(r)
    BY <2>1, <2>2, <2>4 DEF FoundView, Reply
  <2> QED
    BY <2>1, <2>3, <2>4
<1>2. CASE Respond(r, q, d)
  <2>1. q.at = "reload" /\ q.op = "update" /\ ReplyWith(r, q, d)
    BY <1>2 DEF Respond
  <2>2. req'[r] = Nothing /\ Untouched(r) /\ SlotsFilled
    BY <2>1, ReplyFields
  <2> QED
    BY <2>1, <2>2, ReplyAnswer DEF FoundView
<1>3. CASE Modify(r, q, d)
  <2>1. PICK k \in {None, d} : Send(r, [q EXCEPT !.kept = k], "modify")
    BY <1>3 DEF Modify
  <2> DEFINE m == [q EXCEPT !.kept = k]
  <2>2. m = [q EXCEPT !.kept = k] /\ k \in Digests \cup {None}
    OBVIOUS
  <2>3. Send(r, m, "modify")
    BY <2>1
  <2> HIDE DEF m
  <2>4. /\ m \in Request
        /\ m.op = q.op /\ m.cust = q.cust /\ m.arg = q.arg /\ m.proc = q.proc /\ m.clean = q.clean
    BY <2>2, KeptForm
  <2>5. Goes(r, m) /\ req'[r].at = "modify" /\ Untouched(r) /\ SlotsFilled
    BY <2>3, <2>4, SentFields DEF Writes
  <2> QED
    BY <1>3, <2>4, <2>5 DEF Goes, FoundView, Modify
<1>4. CASE Delete(r, q)
  BY <1>4, SentFields DEF Delete, Writes, FoundView
<1> QED
  BY <1>1, <1>2, <1>3, <1>4 DEF Found

LEMMA BeginView ==
    ASSUME TInv, NEW r \in Reqs, Begin(r)
    PROVE  /\ req[r] = Nothing
           /\ UNCHANGED <<users, operators, cache, since, promised, deleted, overlapped, stranded>>
           /\ used \subseteq used' /\ used' \subseteq Customers
           /\ Untouched(r) /\ SlotsFilled
           /\ req'[r] # Nothing =>
                 /\ req'[r] \in Shaped /\ req'[r].stage = "sent" /\ ~req'[r].clean
                 /\ req'[r].op = "create" => req'[r].at = "add"
                 /\ req'[r].op = "del" => req'[r].at \in {"load", "delete"}
           /\ answer' # Nothing =>
                 /\ answer' \in Answer /\ answer'.op = "login"
                 /\ \E p \in Procs : /\ cache[p][answer'.cust].digest = answer'.digest
                                     /\ cache[p][answer'.cust].digest # None
<1>0. SlotsOK /\ Records
  BY DEF TInv
<1>1. /\ req[r] = Nothing
      /\ UNCHANGED <<users, operators, cache, since, promised, deleted, overlapped, stranded>>
      /\ used \subseteq used' /\ used' \subseteq Customers
  BY <1>0 DEF Begin, Create, Handle, ghosts, Records
<1>2. ASSUME NEW p \in Procs, NEW c \in Customers, NEW d \in Digests, NEW role \in BOOLEAN,
             Create(r, p, c, d, role)
      PROVE  /\ Untouched(r) /\ SlotsFilled
             /\ req'[r] \in Shaped /\ req'[r].stage = "sent" /\ ~req'[r].clean
             /\ req'[r].op = "create" /\ req'[r].at = "add" /\ answer' = Nothing
  <2> DEFINE q == Arrived("create", c, d, role, p, "add")
  <2>1. q \in Request /\ q.op = "create" /\ q.arg = d /\ q.clean = FALSE
    BY TimeAssumption DEF Arrived, Request, Loads, Writes
  <2>2. Send(r, q, "add")
    BY <1>2 DEF Create
  <2> HIDE DEF q
  <2>3. Goes(r, q) /\ req'[r].at = "add" /\ Untouched(r) /\ SlotsFilled
    BY <1>0, <2>1, <2>2, SentFields DEF Writes
  <2> QED
    BY <2>1, <2>3 DEF Goes, Shaped, Shape, Loads
<1>3. ASSUME NEW p \in Procs, NEW c \in Customers, NEW d \in Digests \cup {None},
             NEW op \in {"update", "login", "del"}, op = "login" => d \in Digests,
             Handle(r, p, op, c, d)
      PROVE  /\ Untouched(r) /\ SlotsFilled
             /\ \/ /\ req'[r] \in Shaped /\ req'[r].stage = "sent" /\ ~req'[r].clean
                   /\ req'[r].op = op /\ (op = "del" => req'[r].at \in {"load", "delete"})
                   /\ answer' = Nothing
                \/ /\ req'[r] = Nothing
                   /\ answer' # Nothing =>
                         /\ answer' \in Answer /\ answer'.op = "login"
                         /\ cache[p][answer'.cust].digest = answer'.digest
                         /\ cache[p][answer'.cust].digest # None
  <2> DEFINE q == Arrived(op, c, d, FALSE, p, "load")
  <2>1. q \in Request /\ q.op = op /\ q.arg = d /\ q.clean = FALSE /\ q.cust = c /\ q.at = "load"
    BY TimeAssumption DEF Arrived, Request, Loads, Writes
  <2>2. LoadCustomer(r, q, cache[p])
    BY <1>3 DEF Handle
  <2> HIDE DEF q
  <2>3. CASE Send(r, q, q.at)
    <3>1. Goes(r, q) /\ req'[r].at = "load" /\ Untouched(r) /\ SlotsFilled
      BY <1>0, <2>1, <2>3, SentFields DEF Loads
    <3> QED
      BY <1>3, <2>1, <3>1 DEF Goes, Shaped, Shape, Loads
  <2>4. CASE cache[p][c].digest # None /\ Found(r, q, cache[p][c].digest)
    <3>1. cache[p][c].digest \in Digests
      BY <1>0, <2>4 DEF Records, Caches, Cached
    <3>2. FoundView(r, q, cache[p][c].digest) /\ Untouched(r) /\ SlotsFilled
      BY <1>0, <2>1, <2>4, <3>1, FoundGives
    <3>3. CASE req'[r] = Nothing
      BY <2>1, <2>4, <3>2, <3>3 DEF FoundView, Goes
    <3>4. CASE /\ Goes(r, q)
               /\ \/ req'[r].at = "modify" /\ op = "update"
                  \/ req'[r].at = "delete" /\ op = "del"
      BY <2>1, <3>2, <3>4 DEF Goes, Shaped, Shape, Loads
    <3> QED
      BY <2>1, <3>2, <3>3, <3>4 DEF FoundView
  <2> QED
    BY <2>1, <2>2, <2>3, <2>4 DEF LoadCustomer
<1>4. Nothing \notin Shaped
  BY NotNothing DEF Shaped
<1>5. \/ \E p \in Procs, c \in Customers, d \in Digests, role \in BOOLEAN : Create(r, p, c, d, role)
      \/ \E p \in Procs, c \in Customers, d \in Digests \cup {None}, op \in {"update", "login", "del"} :
            (op = "login" => d \in Digests) /\ Handle(r, p, op, c, d)
  BY DEF Begin
<1>6. CASE \E p \in Procs, c \in Customers, d \in Digests, role \in BOOLEAN : Create(r, p, c, d, role)
  BY <1>1, <1>2, <1>6
<1>7. CASE \E p \in Procs, c \in Customers, d \in Digests \cup {None}, op \in {"update", "login", "del"} :
            (op = "login" => d \in Digests) /\ Handle(r, p, op, c, d)
  <2>1. PICK p \in Procs, c \in Customers, d \in Digests \cup {None}, op \in {"update", "login", "del"} :
            (op = "login" => d \in Digests) /\ Handle(r, p, op, c, d)
    BY <1>7
  <2>2. Untouched(r) /\ SlotsFilled
    BY <1>3, <2>1
  <2>3. CASE req'[r] = Nothing
    <3>1. answer' # Nothing =>
             /\ answer' \in Answer /\ answer'.op = "login"
             /\ cache[p][answer'.cust].digest = answer'.digest
             /\ cache[p][answer'.cust].digest # None
      BY <1>3, <2>1, <2>3
    <3> QED
      BY <1>1, <2>2, <2>3, <3>1
  <2>4. CASE req'[r] # Nothing
    <3>1. /\ req'[r] \in Shaped /\ req'[r].stage = "sent" /\ ~req'[r].clean
          /\ req'[r].op = op /\ (op = "del" => req'[r].at \in {"load", "delete"})
          /\ answer' = Nothing
      BY <1>3, <2>1, <2>4
    <3> QED
      BY <1>1, <2>2, <3>1
  <2> QED
    BY <2>3, <2>4
<1> QED
  BY <1>5, <1>6, <1>7

(* What UFDS has answered and the request does then.                       *)
ContinueView(r) ==
    /\ req'[r] # Nothing =>
          /\ Goes(r, req[r]) /\ req'[r] \in Shaped /\ req[r].proc \in Procs
          /\ req[r].op = "create" =>
                \/ req[r].at = "add" /\ req[r].stage = "done" /\ req'[r].at = "code"
                \/ req[r].at = "code" /\ req[r].stage = "done" /\ req'[r].at = "group"
          /\ req[r].op = "update" => req'[r].at \in {"modify", "reload"}
          /\ req[r].op = "del" =>
                \/ req[r].at = "load" /\ req'[r].at = "delete"
                \/ req[r].at = "delete" /\ req[r].stage = "done" /\ req'[r].at = "group"
    /\ answer' # Nothing =>
          /\ req'[r] = Nothing
          /\ answer' \in Answer /\ answer'.op = req[r].op /\ answer'.cust = req[r].cust
          /\ answer'.arg = req[r].arg /\ answer'.clean = req[r].clean
          /\ answer'.op = "login" \/ (answer'.op = "update" /\ answer'.reloaded) =>
                req[r].at \in Loads /\ req[r].stage = "done" /\ answer'.digest = req[r].seen
          /\ answer'.op = "update" /\ answer'.reloaded => req[r].at = "reload"

CacheView(r) ==
    \A p \in Procs, c \in Customers :
        \/ cache'[p][c] = cache[p][c]
        \/ cache'[p][c] = NoCached
        \/ /\ req[r].at \in Loads /\ req[r].stage = "done" /\ c = req[r].cust
           /\ cache'[p][c] = [digest |-> req[r].seen, age |-> 0]

PromiseView(r) ==
    \/ promised' = promised
    \/ /\ promised' = promised \cup {req[r].cust} /\ req'[r] = Nothing
       /\ req[r].op = "create" /\ req[r].at = "group" /\ req[r].stage = "done"

StrandView(r) ==
    /\ stranded \subseteq stranded' /\ stranded' \subseteq stranded \cup {req[r].cust}
    /\ HalfDeleted(req[r]) => req'[r] # Nothing \/ req[r].cust \in stranded'

LEMMA EmptyCache == NoCached \in Cached /\ NewCache \in [Customers -> Cached]
BY TimeAssumption DEF NewCache, NoCached, Cached

LEMMA StrandedOf ==
    ASSUME NEW r \in Busy
    PROVE  Stranded({r}) = IF HalfDeleted(req[r]) THEN {req[r].cust} ELSE {}
BY DEF Stranded

LEMMA ContinueGives ==
    ASSUME TInv, NEW r \in Reqs, Continue(r)
    PROVE  /\ r \in Busy /\ Untouched(r) /\ SlotsFilled
           /\ UNCHANGED <<users, operators, used, since, deleted, overlapped>>
           /\ cache' \in Caches
           /\ ContinueView(r) /\ CacheView(r) /\ PromiseView(r) /\ StrandView(r)
<1>0. SlotsOK /\ Records
  BY DEF TInv
<1>1. r \in Busy /\ UNCHANGED <<users, operators, used, since, deleted, overlapped>>
  BY DEF Continue, LoadAnswered, Added, Coded, MadeOperator, Modified, Deleted, LeftGroup,
         Failed, Orphaned, Answered, ghosts
<1>2. /\ req[r] \in Request /\ Shape(req[r]) /\ req[r].cust \in Customers
      /\ req[r].arg \in Digests \cup {None} /\ req[r].proc \in Procs \cup {None}
  BY <1>1, BusyShape DEF Request
<1>3. ASSUME cache' = cache \/ (req[r].proc \in Procs /\ cache' = Cleared(r))
      PROVE  CacheView(r) /\ cache' \in Caches
  <2>1. CASE cache' = cache
    BY <1>0, <2>1 DEF CacheView, Records
  <2>2. CASE req[r].proc \in Procs /\ cache' = Cleared(r)
    <3>1. \A p \in Procs : cache'[p] = cache[p] \/ cache'[p] = NewCache
      BY <1>0, <2>2 DEF Cleared, Records, Caches
    <3>2. cache' \in Caches
      BY <1>0, <2>2, EmptyCache DEF Cleared, Records, Caches
    <3> QED
      BY <3>1, <3>2 DEF CacheView, NewCache
  <2> QED
    BY <1>3, <2>1, <2>2
<1>4. ASSUME stranded' = stranded, HalfDeleted(req[r]) => req'[r] # Nothing
      PROVE  StrandView(r)
  BY <1>4 DEF StrandView
<1>5. ASSUME Reply(r)
      PROVE  /\ Untouched(r) /\ SlotsFilled /\ req'[r] = Nothing /\ answer' = Nothing
             /\ ContinueView(r)
  <2>1. Untouched(r) /\ SlotsFilled /\ req'[r] = Nothing /\ answer' = Nothing
    BY <1>0, <1>5, ReplyFields DEF Reply
  <2> QED
    BY <2>1 DEF ContinueView
<1>6. CASE LoadAnswered(r)
  <2>1. /\ req[r].proc \in Procs /\ req[r].at \in Loads /\ req[r].stage = "done"
        /\ Found(r, req[r], req[r].seen) /\ req[r].seen \in Digests
        /\ UNCHANGED <<promised, stranded>>
    BY <1>2, <1>6 DEF LoadAnswered, Answered, Shape, ghosts
  <2>2. req[r].op # "create" /\ (req[r].at = "reload" => req[r].op = "update")
    BY <1>2, <2>1 DEF Shape, Loads, Request
  <2>3. FoundView(r, req[r], req[r].seen) /\ Untouched(r) /\ SlotsFilled
    BY <1>0, <1>2, <2>1, <2>2, FoundGives
  <2>4. Goes(r, req[r]) => req'[r] \in Shaped \/ ~(\/ req[r].op = "update" /\ req'[r].at = "modify"
                                                   \/ req[r].op = "del" /\ req'[r].at = "delete")
    BY DEF Goes, Shaped, Shape, Loads
  <2>5. req[r].op = "del" => req[r].at = "load"
    BY <1>2, <2>1 DEF Shape, Loads
  <2>6. ContinueView(r)
    <3>1. CASE req'[r] = Nothing
      <4>1. ASSUME answer' # Nothing
            PROVE  /\ answer' \in Answer
                   /\ answer'.op = req[r].op /\ answer'.cust = req[r].cust
                   /\ answer'.arg = req[r].arg /\ answer'.clean = req[r].clean
                   /\ answer'.digest = req[r].seen
                   /\ answer'.op = "update" => req[r].at = "reload"
        BY <2>2, <2>3, <3>1, <4>1 DEF FoundView, Goes
      <4> QED
        BY <2>1, <3>1, <4>1 DEF ContinueView
    <3>2. CASE req'[r] # Nothing
      <4>1. /\ Goes(r, req[r]) /\ req'[r] \in Shaped
            /\ \/ req[r].op = "update" /\ req'[r].at = "modify"
               \/ req[r].op = "del" /\ req'[r].at = "delete"
        BY <2>3, <2>4, <3>2 DEF FoundView
      <4>2. answer' = Nothing
        BY <4>1 DEF Goes
      <4> QED
        BY <2>1, <2>2, <2>5, <4>1, <4>2 DEF ContinueView
    <3> QED
      BY <3>1, <3>2
  <2>7. CacheView(r) /\ cache' \in Caches
    BY <1>0, <1>2, <1>6, <2>1, TimeAssumption DEF LoadAnswered, CacheView, Records, Caches, Cached
  <2>8. StrandView(r)
    BY <1>4, <2>1 DEF HalfDeleted, Loads
  <2> QED
    BY <1>1, <2>1, <2>3, <2>6, <2>7, <2>8 DEF PromiseView
<1>7. CASE Added(r)
  <2>1. /\ req[r].proc \in Procs /\ req[r].at = "add" /\ req[r].stage = "done"
        /\ req[r].op = "create" /\ Send(r, req[r], "code") /\ cache' = Cleared(r)
        /\ UNCHANGED <<promised, stranded>>
    BY <1>2, <1>7 DEF Added, Answered, Shape, Request, ghosts
  <2>2. Goes(r, req[r]) /\ req'[r].at = "code" /\ Untouched(r) /\ SlotsFilled
    BY <1>0, <1>2, <2>1, SentFields DEF Writes
  <2>3. req'[r] \in Shaped
    BY <1>2, <2>1, <2>2 DEF Goes, Shaped, Shape, Loads
  <2>4. ContinueView(r) /\ StrandView(r)
    BY <1>4, <2>1, <2>2, <2>3 DEF ContinueView, HalfDeleted, Goes
  <2> QED
    BY <1>1, <1>3, <2>1, <2>2, <2>4 DEF PromiseView
<1>8. CASE Coded(r)
  <2>1. /\ req[r].proc \in Procs /\ req[r].at = "code" /\ req[r].stage = "done"
        /\ req[r].op = "create" /\ req[r].arg \in Digests /\ cache' = Cleared(r)
        /\ UNCHANGED <<promised, stranded>>
        /\ Send(r, req[r], "group") \/ ReplyWith(r, req[r], req[r].arg)
    BY <1>2, <1>8 DEF Coded, Answered, Shape, Request, ghosts
  <2>2. CASE Send(r, req[r], "group")
    <3>1. Goes(r, req[r]) /\ req'[r].at = "group" /\ Untouched(r) /\ SlotsFilled
      BY <1>0, <1>2, <2>2, SentFields DEF Writes
    <3>2. req'[r] \in Shaped
      BY <1>2, <2>1, <3>1 DEF Goes, Shaped, Shape, Loads
    <3>3. ContinueView(r) /\ StrandView(r)
      BY <1>4, <2>1, <3>1, <3>2 DEF ContinueView, HalfDeleted, Goes
    <3> QED
      BY <1>1, <1>3, <2>1, <3>1, <3>3 DEF PromiseView
  <2>3. CASE ReplyWith(r, req[r], req[r].arg)
    <3>1. req'[r] = Nothing /\ Untouched(r) /\ SlotsFilled
      BY <1>0, <2>3, ReplyFields
    <3>2. ContinueView(r) /\ StrandView(r)
      BY <1>2, <1>4, <2>1, <2>3, <3>1, ReplyAnswer DEF ContinueView, HalfDeleted
    <3> QED
      BY <1>1, <1>3, <2>1, <3>1, <3>2 DEF PromiseView
  <2> QED
    BY <2>1, <2>2, <2>3
<1>9. CASE MadeOperator(r)
  <2>1. /\ req[r].proc \in Procs /\ req[r].at = "group" /\ req[r].stage = "done"
        /\ req[r].op = "create" /\ req[r].arg \in Digests /\ cache' = Cleared(r)
        /\ promised' = promised \cup {req[r].cust} /\ stranded' = stranded
        /\ ReplyWith(r, req[r], req[r].arg)
    BY <1>2, <1>9 DEF MadeOperator, Answered, Shape, Request
  <2>2. req'[r] = Nothing /\ Untouched(r) /\ SlotsFilled
    BY <1>0, <2>1, ReplyFields
  <2>3. ContinueView(r) /\ StrandView(r)
    BY <1>2, <1>4, <2>1, <2>2, ReplyAnswer DEF ContinueView, HalfDeleted
  <2> QED
    BY <1>1, <1>3, <2>1, <2>2, <2>3 DEF PromiseView
<1>10. CASE Modified(r)
  <2>1. /\ req[r].proc \in Procs /\ req[r].at = "modify" /\ req[r].stage = "done"
        /\ req[r].op = "update" /\ cache' = Cleared(r) /\ UNCHANGED <<promised, stranded>>
        /\ req[r].kept \in Digests \cup {None}
    BY <1>2, <1>10 DEF Modified, Answered, Shape, Request, ghosts
  <2>2. CASE LoadCustomer(r, [req[r] EXCEPT !.at = "reload"], cache'[req[r].proc])
    <3> DEFINE q == [req[r] EXCEPT !.at = "reload"]
    <3>1. /\ q \in Request /\ q.at = "reload" /\ q.op = req[r].op /\ q.cust = req[r].cust
          /\ q.arg = req[r].arg /\ q.proc = req[r].proc /\ q.clean = req[r].clean
      BY <1>2 DEF Request, Loads
    <3>2. LoadCustomer(r, q, cache'[req[r].proc])
      BY <2>2
    <3> HIDE DEF q
    <3>3. cache'[req[r].proc][q.cust].digest = None
      BY <1>0, <1>2, <2>1, <3>1 DEF Cleared, NewCache, NoCached, Records, Caches
    <3>4. Send(r, q, "reload")
      BY <3>1, <3>2, <3>3 DEF LoadCustomer
    <3>5. Goes(r, q) /\ req'[r].at = "reload" /\ Untouched(r) /\ SlotsFilled
      BY <1>0, <3>1, <3>4, SentFields DEF Loads
    <3>6. Goes(r, req[r]) /\ req'[r] \in Shaped
      BY <2>1, <3>1, <3>5 DEF Goes, Shaped, Shape, Loads
    <3>7. ContinueView(r) /\ StrandView(r)
      BY <1>4, <2>1, <3>5, <3>6 DEF ContinueView, HalfDeleted, Goes
    <3> QED
      BY <1>1, <1>3, <2>1, <3>5, <3>7 DEF PromiseView
  <2>3. CASE req[r].kept # None /\ ReplyWith(r, req[r], req[r].kept)
    <3>1. req'[r] = Nothing /\ Untouched(r) /\ SlotsFilled
      BY <1>0, <2>3, ReplyFields
    <3>2. /\ answer' \in Answer /\ answer'.op = req[r].op /\ answer'.cust = req[r].cust
          /\ answer'.arg = req[r].arg /\ answer'.clean = req[r].clean /\ ~answer'.reloaded
      BY <1>2, <2>1, <2>3, ReplyAnswer
    <3>3. ContinueView(r) /\ StrandView(r)
      BY <1>4, <2>1, <3>1, <3>2 DEF ContinueView, HalfDeleted
    <3> QED
      BY <1>1, <1>3, <2>1, <3>1, <3>3 DEF PromiseView
  <2> QED
    BY <1>10, <2>2, <2>3 DEF Modified
<1>11. CASE Deleted(r)
  <2>1. /\ req[r].proc \in Procs /\ req[r].at = "delete" /\ req[r].stage = "done"
        /\ req[r].op = "del" /\ Send(r, req[r], "group") /\ cache' = Cleared(r)
        /\ UNCHANGED <<promised, stranded>>
    BY <1>2, <1>11 DEF Deleted, Answered, Shape, Request, ghosts
  <2>2. Goes(r, req[r]) /\ req'[r].at = "group" /\ Untouched(r) /\ SlotsFilled
    BY <1>0, <1>2, <2>1, SentFields DEF Writes
  <2>3. req'[r] \in Shaped /\ req'[r] # Nothing
    BY <1>2, <2>1, <2>2, NotNothing DEF Goes, Shaped, Shape, Loads
  <2>4. ContinueView(r) /\ StrandView(r)
    BY <1>4, <2>1, <2>2, <2>3 DEF ContinueView, Goes
  <2> QED
    BY <1>1, <1>3, <2>1, <2>2, <2>4 DEF PromiseView
<1>12. CASE LeftGroup(r)
  <2>1. /\ req[r].proc \in Procs /\ req[r].at = "group" /\ req[r].stage \in {"done", "refused"}
        /\ Reply(r) /\ cache' = Cleared(r) /\ UNCHANGED <<promised, stranded>>
    BY <1>2, <1>12 DEF LeftGroup, Answered, ghosts
  <2>2. StrandView(r)
    BY <1>4, <2>1 DEF HalfDeleted
  <2> QED
    BY <1>1, <1>3, <1>5, <2>1, <2>2 DEF PromiseView
<1>13. CASE Failed(r)
  <2>1. /\ req[r].stage = "refused" /\ Reply(r) /\ cache' = cache /\ UNCHANGED <<promised, stranded>>
    BY <1>13 DEF Failed, Answered, ghosts
  <2>2. StrandView(r)
    BY <1>4, <2>1 DEF HalfDeleted
  <2> QED
    BY <1>1, <1>3, <1>5, <2>1, <2>2 DEF PromiseView
<1>14. CASE Orphaned(r)
  <2>1. /\ req'[r] = Nothing /\ Untouched(r) /\ SlotsFilled /\ answer' = Nothing
        /\ cache' = cache /\ promised' = promised /\ stranded' = stranded \cup Stranded({r})
    BY <1>0, <1>14 DEF Orphaned, SlotsOK, Untouched, SlotsFilled
  <2>2. StrandView(r)
    BY <1>1, <2>1, StrandedOf DEF StrandView
  <2> QED
    BY <1>1, <1>3, <2>1, <2>2 DEF PromiseView, ContinueView
<1> QED
  BY <1>6, <1>7, <1>8, <1>9, <1>10, <1>11, <1>12, <1>13, <1>14 DEF Continue

-----------------------------------------------------------------------------
(* A dying process, and time.                                              *)
LEMMA CrashGives ==
    ASSUME TInv, NEW p \in Procs, Crash(p)
    PROVE  /\ UNCHANGED <<users, operators, used, since, promised, deleted, overlapped>>
           /\ answer' = Nothing /\ SlotsFilled /\ cache' \in Caches
           /\ \A x \in Procs, c \in Customers : cache'[x][c] \in {cache[x][c], NoCached}
           /\ stranded \subseteq stranded' /\ stranded' \subseteq Customers
           /\ \A x \in Reqs :
                 \/ req'[x] = req[x]
                 \/ /\ x \in Busy /\ req'[x] = Nothing
                    /\ HalfDeleted(req[x]) => req[x].cust \in stranded'
                 \/ /\ x \in Busy /\ req[x].stage \in {"sent", "loaded"}
                    /\ req'[x] \in Request
                    /\ req'[x].op = req[x].op /\ req'[x].cust = req[x].cust
                    /\ req'[x].arg = req[x].arg /\ req'[x].at = req[x].at
                    /\ req'[x].stage = req[x].stage /\ req'[x].seen = req[x].seen
                    /\ req'[x].members = req[x].members /\ req'[x].clean = req[x].clean
<1>1. /\ UNCHANGED <<users, operators, used, since, promised, deleted, overlapped>>
      /\ answer' = Nothing /\ SlotsFilled
  BY DEF Crash, SlotsFilled
<1>2. cache' \in Caches /\ \A x \in Procs, c \in Customers : cache'[x][c] \in {cache[x][c], NoCached}
  <2>1. cache' = [cache EXCEPT ![p] = NewCache] /\ cache \in Caches
    BY DEF Crash, TInv, Records
  <2>2. cache' \in Caches /\ \A x \in Procs : cache'[x] = cache[x] \/ cache'[x] = NewCache
    BY <2>1, EmptyCache DEF Caches
  <2> QED
    BY <2>2 DEF NewCache
<1> DEFINE rs == {x \in Busy : req[x].proc = p /\ req[x].stage = "done"}
<1>3. stranded' = stranded \cup Stranded(rs)
  BY DEF Crash
<1>4. Stranded(rs) \subseteq Customers
  BY BusyShape DEF Stranded
<1>5. ASSUME NEW x \in rs, HalfDeleted(req[x])
      PROVE  req[x].cust \in stranded'
  BY <1>3, <1>5 DEF Stranded
<1>6. ASSUME NEW x \in Reqs, req'[x] # req[x]
      PROVE  \/ /\ x \in Busy /\ req'[x] = Nothing
                /\ HalfDeleted(req[x]) => req[x].cust \in stranded'
             \/ /\ x \in Busy /\ req[x].stage \in {"sent", "loaded"}
                /\ req'[x] \in Request
                /\ req'[x].op = req[x].op /\ req'[x].cust = req[x].cust
                /\ req'[x].arg = req[x].arg /\ req'[x].at = req[x].at
                /\ req'[x].stage = req[x].stage /\ req'[x].seen = req[x].seen
                /\ req'[x].members = req[x].members /\ req'[x].clean = req[x].clean
  <2>1. x \in Busy /\ req[x].proc = p /\ req[x] \in Request
    BY <1>6, BusyShape DEF Crash
  <2>2. CASE req[x].stage \in {"sent", "loaded"}
    <3>1. req'[x] = [req[x] EXCEPT !.proc = None]
      BY <2>1, <2>2 DEF Crash
    <3> QED
      BY <2>1, <2>2, <3>1 DEF Request
  <2>3. CASE req[x].stage \notin {"sent", "loaded"}
    <3>1. req'[x] = Nothing
      BY <2>1, <2>3 DEF Crash
    <3>2. HalfDeleted(req[x]) => x \in rs
      BY <2>1, <2>3 DEF HalfDeleted
    <3> QED
      BY <1>5, <2>1, <3>1, <3>2
  <2> QED
    BY <2>2, <2>3
<1> HIDE DEF rs
<1>7. stranded \subseteq stranded' /\ stranded' \subseteq Customers
  BY <1>3, <1>4 DEF TInv, Records
<1> QED
  BY <1>1, <1>2, <1>6, <1>7

LEMMA TickGives ==
    ASSUME TInv, Tick
    PROVE  /\ SlotsFilled
           /\ \A x \in Reqs :
                 \/ req'[x] = req[x] /\ ~Waiting(x)
                 \/ /\ Waiting(x) /\ req[x] # Nothing /\ req'[x] \in Request /\ Same(req[x], req'[x])
                    /\ req'[x].stage = req[x].stage /\ req'[x].seen = req[x].seen
                    /\ req'[x].members = req[x].members /\ req'[x].clean = req[x].clean
                    /\ req'[x].age = req[x].age + 1
<1>1. SlotsFilled
  BY DEF Tick, SlotsFilled
<1>2. ASSUME NEW x \in Reqs, Waiting(x)
      PROVE  /\ req[x] # Nothing /\ req'[x] \in Request /\ Same(req[x], req'[x])
             /\ req'[x].stage = req[x].stage /\ req'[x].seen = req[x].seen
             /\ req'[x].members = req[x].members /\ req'[x].clean = req[x].clean
             /\ req'[x].age = req[x].age + 1
  <2>1. req[x] # Nothing /\ req[x] \in Request /\ req[x].age < Timeout
    BY <1>2, BusyShape DEF Waiting, Tick
  <2>2. req'[x] = [req[x] EXCEPT !.age = @ + 1]
    BY <1>2 DEF Tick
  <2>3. req[x].age \in 0 .. Timeout
    BY <2>1 DEF Request
  <2>4. req[x].age + 1 \in 0 .. Timeout
    BY <2>1, <2>3, TimeAssumption
  <2> QED
    BY <2>1, <2>2, <2>4 DEF Request, Same
<1>3. ASSUME NEW x \in Reqs, ~Waiting(x)
      PROVE  req'[x] = req[x]
  BY <1>3 DEF Tick
<1> QED
  BY <1>1, <1>2, <1>3

-----------------------------------------------------------------------------
-----------------------------------------------------------------------------
(***************************************************************************)
(* The types.                                                              *)
(***************************************************************************)
LEMMA SlotsFrom ==
    ASSUME SlotsFilled, \A x \in Reqs : req'[x] \in Shaped \cup {Nothing}
    PROVE  SlotsOK'
BY DEF SlotsOK, SlotsFilled

LEMMA TypeInit == Init => TInv
BY TimeAssumption
   DEF Init, TInv, Records, SlotsOK, AnswerOK, NewCache, NoCached, Cap, Caches, Cached

LEMMA BeginTyped ==
    ASSUME TInv, NEW r \in Reqs, Begin(r)
    PROVE  TInv'
<1>1. Records'
  BY BeginView DEF TInv, Records
<1>2. SlotsOK'
  <2>1. \A x \in Reqs : req'[x] \in Shaped \cup {Nothing}
    BY BeginView DEF TInv, SlotsOK, Untouched
  <2> QED
    BY <2>1, BeginView, SlotsFrom
<1>3. AnswerOK'
  BY BeginView DEF AnswerOK
<1> QED
  BY <1>1, <1>2, <1>3 DEF TInv

LEMMA ContinueTyped ==
    ASSUME TInv, NEW r \in Reqs, Continue(r)
    PROVE  TInv'
<1>1. req[r].cust \in Customers
  BY ContinueGives, BusyShape
<1>2. Records'
  BY <1>1, ContinueGives DEF TInv, Records, PromiseView, StrandView
<1>3. SlotsOK'
  <2>1. \A x \in Reqs : req'[x] \in Shaped \cup {Nothing}
    BY ContinueGives DEF TInv, SlotsOK, Untouched, ContinueView
  <2> QED
    BY <2>1, ContinueGives, SlotsFrom
<1>4. AnswerOK'
  BY ContinueGives DEF AnswerOK, ContinueView
<1> QED
  BY <1>2, <1>3, <1>4 DEF TInv

LEMMA ServeTyped ==
    ASSUME TInv, NEW r \in Reqs, Serve(r)
    PROVE  TInv'
<1>1. /\ r \in Busy /\ answer' = Nothing /\ UNCHANGED <<cache, used, promised>>
      /\ req'[r] \in Request /\ Same(req[r], req'[r]) /\ SlotsFilled
      /\ \/ SearchView(r) \/ DeleteView(r) \/ LoadView(r) \/ SaveGroupView(r) \/ RefuseView(r)
         \/ \E d \in Digests : WriteView(r, d)
  BY ServeView
<1>2. /\ req[r] \in Request /\ Shape(req[r]) /\ req[r].cust \in Customers
      /\ req[r].members \subseteq Customers
  BY <1>1, BusyShape DEF Request
<1>3. Shape(req'[r])
  BY <1>1, <1>2 DEF Shape, Same, SearchView, DeleteView, LoadView, SaveGroupView, RefuseView,
                    WriteView, Loads
<1>4. ASSUME NEW x \in Reqs \ {r}
      PROVE  req'[x] \in Shaped \cup {Nothing}
  <2>1. req[x] \in Shaped \cup {Nothing}
    BY DEF TInv, SlotsOK
  <2>2. Untouched(r) \/ OthersMarked(r)
    BY <1>1 DEF SearchView, DeleteView, LoadView, SaveGroupView, RefuseView, WriteView
  <2> QED
    BY <2>1, <2>2 DEF Untouched, OthersMarked, Shaped, Shape, Held, Same
<1>5. SlotsOK'
  BY <1>1, <1>3, <1>4, SlotsFrom DEF Shaped
<1>6. Records'
  <2>1. CASE SearchView(r) \/ LoadView(r)
    BY <1>1, <2>1 DEF SearchView, LoadView, TInv, Records
  <2>2. CASE DeleteView(r)
    BY <1>1, <1>2, <2>2 DEF DeleteView, TInv, Records
  <2>3. CASE SaveGroupView(r)
    BY <1>1, <1>2, <2>3 DEF SaveGroupView, TInv, Records
  <2>4. CASE RefuseView(r)
    BY <1>1, <1>2, <2>4, StrandedOf DEF RefuseView, TInv, Records
  <2>5. ASSUME NEW d \in Digests, WriteView(r, d)
        PROVE  Records'
    BY <1>1, <1>2, <2>5, TimeAssumption DEF WriteView, TInv, Records, Cap
  <2> QED
    BY <1>1, <2>1, <2>2, <2>3, <2>4, <2>5
<1> QED
  BY <1>1, <1>5, <1>6 DEF TInv, AnswerOK

LEMMA CrashTyped ==
    ASSUME TInv, NEW p \in Procs, Crash(p)
    PROVE  TInv'
<1>1. Records'
  BY CrashGives DEF TInv, Records
<1>2. ASSUME NEW x \in Reqs
      PROVE  req'[x] \in Shaped \cup {Nothing}
  <2>1. req[x] \in Shaped \cup {Nothing}
    BY DEF TInv, SlotsOK
  <2>2. \/ req'[x] = req[x]
        \/ req'[x] = Nothing
        \/ /\ x \in Busy /\ req'[x] \in Request
           /\ req'[x].op = req[x].op /\ req'[x].arg = req[x].arg /\ req'[x].at = req[x].at
           /\ req'[x].stage = req[x].stage /\ req'[x].seen = req[x].seen
    BY CrashGives
  <2> QED
    BY <2>1, <2>2 DEF Busy, Shaped, Shape
<1>3. SlotsOK' /\ AnswerOK'
  BY <1>2, CrashGives, SlotsFrom DEF AnswerOK
<1> QED
  BY <1>1, <1>3 DEF TInv

LEMMA TickTyped ==
    ASSUME TInv, Tick
    PROVE  TInv'
<1>1. Records'
  <2>1. since' \in [Customers -> [Digests -> 0 .. Cap]]
    BY TimeAssumption DEF Tick, TInv, Records, Cap
  <2>2. ASSUME NEW e \in Cached
        PROVE  Older(e) \in Cached
    BY TimeAssumption DEF Older, NoCached, Cached
  <2>3. cache' \in Caches
    BY <2>2 DEF Tick, TInv, Records, Caches
  <2> QED
    BY <2>1, <2>3 DEF Tick, TInv, Records
<1>2. ASSUME NEW x \in Reqs
      PROVE  req'[x] \in Shaped \cup {Nothing}
  <2>1. req[x] \in Shaped \cup {Nothing}
    BY DEF TInv, SlotsOK
  <2>2. \/ req'[x] = req[x]
        \/ /\ req[x] # Nothing /\ req'[x] \in Request /\ Same(req[x], req'[x])
           /\ req'[x].stage = req[x].stage /\ req'[x].seen = req[x].seen
    BY TickGives
  <2> QED
    BY <2>1, <2>2 DEF Shaped, Shape, Same
<1>3. SlotsOK' /\ AnswerOK'
  BY <1>2, TickGives, SlotsFrom DEF AnswerOK, Tick
<1> QED
  BY <1>1, <1>3 DEF TInv

LEMMA TypeStep == TInv /\ [Next]_vars => TInv'
<1>1. ASSUME TInv, UNCHANGED vars
      PROVE  TInv'
  BY <1>1 DEF vars, ghosts, TInv, Records, SlotsOK, AnswerOK
<1> QED
  BY <1>1, BeginTyped, ServeTyped, ContinueTyped, CrashTyped, TickTyped DEF Next

(* Every variable keeps its type, and every request the shape of one.      *)
THEOREM TypesHold == Spec => []TypeOK
<1>1. Spec => []TInv
  BY TypeInit, TypeStep, PTL DEF Spec
<1> QED
  BY <1>1, TInvTypes, PTL

-----------------------------------------------------------------------------
(***************************************************************************)
(* LoginCurrent.  Whatever is known of a digest is bounded by its age: the *)
(* digest a customer has is current, one that a search has read was        *)
(* current when the search was served, and one in a cache was read by a    *)
(* search that was answered Timeout ticks later at most.                   *)
(***************************************************************************)
UsersFresh ==
    \A c \in Customers, d \in Digests : users[c] = d => since[c][d] = 0

SearchFresh ==
    \A r \in Reqs : Waiting(r) => since[req[r].cust][req[r].seen] <= req[r].age

CacheFresh ==
    \A p \in Procs, c \in Customers : cache[p][c].digest # None =>
        since[c][cache[p][c].digest] <= Timeout + cache[p][c].age

FInv == UsersFresh /\ SearchFresh /\ CacheFresh /\ LoginCurrent

LEMMA FreshInit == Init => FInv
<1> SUFFICES ASSUME Init
             PROVE  FInv
  OBVIOUS
<1>1. UsersFresh
  BY NoneAssumption DEF Init, UsersFresh
<1>2. SearchFresh
  BY DEF Init, SearchFresh, Waiting, Busy
<1>3. CacheFresh
  BY DEF Init, CacheFresh, NewCache, NoCached
<1>4. LoginCurrent
  BY DEF Init, LoginCurrent
<1> QED
  BY <1>1, <1>2, <1>3, <1>4 DEF FInv

(* A digest in a cache is recent.                                          *)
LEMMA CachedRecent ==
    ASSUME TInv, CacheFresh, NEW p \in Procs, NEW c \in Customers, cache[p][c].digest # None
    PROVE  /\ cache[p][c].digest \in Digests
           /\ since[c][cache[p][c].digest] < Expiry + Timeout
<1> DEFINE e == cache[p][c]
<1>1. e \in [digest : Digests \cup {None}, age : 0 .. Expiry - 1]
  BY DEF TInv, Records, Caches, Cached
<1>2. e.digest \in Digests /\ e.age \in 0 .. Expiry - 1
  BY <1>1
<1>3. since[c][e.digest] \in 0 .. Cap /\ since[c][e.digest] <= Timeout + e.age
  BY <1>2 DEF TInv, Records, CacheFresh
<1> HIDE DEF e
<1>4. since[c][e.digest] < Expiry + Timeout
  BY <1>2, <1>3, TimeAssumption DEF Cap
<1> QED
  BY <1>2, <1>4 DEF e

LEMMA BeginFresh ==
    ASSUME TInv, FInv, NEW r \in Reqs, Begin(r)
    PROVE  FInv'
<1>1. UNCHANGED <<users, cache, since>>
  BY BeginView
<1>2. UsersFresh' /\ CacheFresh'
  BY <1>1 DEF FInv, UsersFresh, CacheFresh
<1>3. SearchFresh'
  BY <1>1, BeginView DEF FInv, SearchFresh, Waiting, Busy, Untouched
<1>4. LoginCurrent'
  <2>1. CASE answer' # Nothing
    <3>1. PICK p \in Procs : /\ cache[p][answer'.cust].digest = answer'.digest
                             /\ cache[p][answer'.cust].digest # None
      BY <2>1, BeginView
    <3>2. answer'.cust \in Customers
      BY <2>1, BeginView DEF Answer
    <3>3. since[answer'.cust][answer'.digest] < Expiry + Timeout
      BY <3>1, <3>2, CachedRecent DEF FInv
    <3> QED
      BY <1>1, <3>3 DEF LoginCurrent
  <2> QED
    BY <2>1 DEF LoginCurrent
<1> QED
  BY <1>2, <1>3, <1>4 DEF FInv

LEMMA ServeFresh ==
    ASSUME TInv, FInv, NEW r \in Reqs, Serve(r)
    PROVE  FInv'
<1>1. /\ r \in Busy /\ answer' = Nothing /\ UNCHANGED cache
      /\ req'[r] \in Request /\ Same(req[r], req'[r])
      /\ \/ SearchView(r) \/ DeleteView(r) \/ LoadView(r) \/ SaveGroupView(r) \/ RefuseView(r)
         \/ \E d \in Digests : WriteView(r, d)
  BY ServeView
<1>2. req[r] \in Request /\ Shape(req[r]) /\ req[r].cust \in Customers
  BY <1>1, BusyShape
<1>3. LoginCurrent'
  BY <1>1 DEF LoginCurrent
(* The searches of others keep what they have read and when.               *)
<1>4. ASSUME NEW x \in Reqs \ {r}, Waiting(x)'
      PROVE  /\ Waiting(x) /\ req'[x].cust = req[x].cust /\ req'[x].seen = req[x].seen
             /\ req'[x].age = req[x].age /\ req[x].cust \in Customers /\ req[x].seen \in Digests
             /\ req[x].age \in Nat
  <2>1. Untouched(r) \/ OthersMarked(r)
    BY <1>1 DEF SearchView, DeleteView, LoadView, SaveGroupView, RefuseView, WriteView
  <2>2. /\ Waiting(x) /\ req'[x].cust = req[x].cust /\ req'[x].seen = req[x].seen
        /\ req'[x].age = req[x].age
    BY <1>4, <2>1 DEF Waiting, Busy, Untouched, OthersMarked, Held, Same
  <2>3. req[x] \in Request /\ Shape(req[x])
    BY <2>2, BusyShape DEF Waiting
  <2> QED
    BY <2>2, <2>3, TimeAssumption DEF Shape, Request, Waiting
<1>5. CASE SearchView(r)
  <2>1. UNCHANGED <<users, since>> /\ UsersFresh' /\ CacheFresh'
    BY <1>1, <1>5 DEF SearchView, FInv, UsersFresh, CacheFresh
  <2>2. since[req'[r].cust][req'[r].seen] <= req'[r].age
    BY <1>1, <1>2, <1>5, TimeAssumption DEF SearchView, FInv, UsersFresh, Same
  <2>3. SearchFresh'
    BY <1>4, <2>1, <2>2 DEF FInv, SearchFresh
  <2> QED
    BY <1>3, <2>1, <2>3 DEF FInv
<1>6. CASE DeleteView(r) \/ LoadView(r) \/ SaveGroupView(r) \/ RefuseView(r)
  <2>1. since' = since
    BY <1>6 DEF DeleteView, LoadView, SaveGroupView, RefuseView
  <2>2. CacheFresh'
    BY <1>1, <2>1 DEF FInv, CacheFresh
  <2>3. UsersFresh'
    <3>1. ASSUME NEW c \in Customers, NEW d \in Digests, users'[c] = d
          PROVE  users[c] = d
      BY <1>2, <1>6, <3>1, NoneAssumption
         DEF DeleteView, LoadView, SaveGroupView, RefuseView, TInv, Records
    <3> QED
      BY <2>1, <3>1 DEF FInv, UsersFresh
  <2>4. ~Waiting(r)'
    BY <1>1, <1>6 DEF DeleteView, LoadView, SaveGroupView, RefuseView, Waiting, Same, Loads
  <2>5. SearchFresh'
    BY <1>4, <2>1, <2>4 DEF FInv, SearchFresh
  <2> QED
    BY <1>3, <2>2, <2>3, <2>5 DEF FInv
<1>7. ASSUME NEW d \in Digests, WriteView(r, d)
      PROVE  FInv'
  <2>1. /\ users' = [users EXCEPT ![req[r].cust] = d]
        /\ since' = [since EXCEPT ![req[r].cust][d] = 0]
    BY <1>7 DEF WriteView
  <2>2. ASSUME NEW c \in Customers, NEW e \in Digests
        PROVE  since[c][e] \in Nat /\ since'[c][e] \in {0, since[c][e]}
    BY <1>2, <2>1, TimeAssumption DEF TInv, Records, Cap
  <2>3. UsersFresh'
    <3> SUFFICES ASSUME NEW c \in Customers, NEW e \in Digests, users'[c] = e
                 PROVE  since'[c][e] = 0
      BY DEF UsersFresh
    <3>1. CASE c = req[r].cust
      BY <2>1, <3>1 DEF TInv, Records
    <3>2. CASE c # req[r].cust
      BY <2>1, <3>2 DEF TInv, Records, FInv, UsersFresh
    <3> QED
      BY <3>1, <3>2
  <2>4. CacheFresh'
    <3> SUFFICES ASSUME NEW p \in Procs, NEW c \in Customers, cache[p][c].digest # None
                 PROVE  since'[c][cache[p][c].digest] <= Timeout + cache[p][c].age
      BY <1>1 DEF CacheFresh
    <3>1. cache[p][c].digest \in Digests /\ cache[p][c].age \in Nat
      BY TimeAssumption DEF TInv, Records, Caches, Cached
    <3>2. since[c][cache[p][c].digest] <= Timeout + cache[p][c].age
      BY DEF FInv, CacheFresh
    <3> QED
      BY <2>2, <3>1, <3>2, TimeAssumption
  <2>5. ~Waiting(r)'
    BY <1>1, <1>7 DEF WriteView, Waiting, Same, Loads
  <2>6. SearchFresh'
    BY <1>4, <2>2, <2>5 DEF FInv, SearchFresh
  <2> QED
    BY <1>3, <2>3, <2>4, <2>6 DEF FInv
<1> QED
  BY <1>1, <1>5, <1>6, <1>7

LEMMA ContinueFresh ==
    ASSUME TInv, FInv, NEW r \in Reqs, Continue(r)
    PROVE  FInv'
<1>1. /\ UNCHANGED <<users, since>> /\ r \in Busy /\ Untouched(r)
      /\ ContinueView(r) /\ CacheView(r)
  BY ContinueGives
<1>2. UsersFresh'
  BY <1>1 DEF FInv, UsersFresh
<1>3. SearchFresh'
  BY <1>1 DEF FInv, SearchFresh, Waiting, Busy, Untouched, ContinueView, Goes
(* What a search has read is recent when it is answered.                   *)
<1>4. ASSUME req[r].at \in Loads, req[r].stage = "done"
      PROVE  since[req[r].cust][req[r].seen] \in Nat /\ since[req[r].cust][req[r].seen] <= Timeout
  <2>1. req[r] \in Request /\ Shape(req[r]) /\ Waiting(r)
    BY <1>1, <1>4, BusyShape DEF Waiting
  <2>2. req[r].seen \in Digests /\ req[r].cust \in Customers /\ req[r].age \in 0 .. Timeout
    BY <1>4, <2>1 DEF Shape, Request
  <2> QED
    BY <2>1, <2>2, TimeAssumption DEF FInv, SearchFresh, TInv, Records
<1>5. CacheFresh'
  <2> SUFFICES ASSUME NEW p \in Procs, NEW c \in Customers, cache'[p][c].digest # None
               PROVE  since[c][cache'[p][c].digest] <= Timeout + cache'[p][c].age
    BY <1>1 DEF CacheFresh
  <2>1. CASE cache'[p][c] = cache[p][c]
    BY <2>1 DEF FInv, CacheFresh
  <2>2. CASE /\ req[r].at \in Loads /\ req[r].stage = "done" /\ c = req[r].cust
             /\ cache'[p][c] = [digest |-> req[r].seen, age |-> 0]
    BY <1>4, <2>2, TimeAssumption
  <2> QED
    BY <1>1, <2>1, <2>2 DEF CacheView, NoCached
<1>6. LoginCurrent'
  <2> SUFFICES ASSUME answer' # Nothing, answer'.op = "login"
               PROVE  since[answer'.cust][answer'.digest] < Expiry + Timeout
    BY <1>1 DEF LoginCurrent
  <2>1. /\ answer'.cust = req[r].cust /\ answer'.digest = req[r].seen
        /\ req[r].at \in Loads /\ req[r].stage = "done"
    BY <1>1 DEF ContinueView
  <2> QED
    BY <1>4, <2>1, TimeAssumption
<1> QED
  BY <1>2, <1>3, <1>5, <1>6 DEF FInv

LEMMA CrashFresh ==
    ASSUME TInv, FInv, NEW p \in Procs, Crash(p)
    PROVE  FInv'
<1>1. UsersFresh' /\ LoginCurrent'
  BY CrashGives DEF FInv, UsersFresh, LoginCurrent
<1>2. CacheFresh'
  BY CrashGives DEF FInv, CacheFresh, NoCached
<1>3. SearchFresh'
  <2> SUFFICES ASSUME NEW x \in Reqs, Waiting(x)'
               PROVE  req'[x] = req[x]
    BY CrashGives DEF FInv, SearchFresh, Waiting, Busy
  <2> QED
    BY CrashGives DEF Waiting, Busy
<1> QED
  BY <1>1, <1>2, <1>3 DEF FInv

LEMMA TickFresh ==
    ASSUME TInv, FInv, Tick
    PROVE  FInv'
<1>1. UsersFresh' /\ LoginCurrent'
  BY DEF Tick, UsersFresh, LoginCurrent
<1>2. ASSUME NEW c \in Customers, NEW d \in Digests
      PROVE  since[c][d] \in Nat /\ since'[c][d] <= since[c][d] + 1 /\ since'[c][d] \in Nat
  BY TimeAssumption DEF Tick, TInv, Records, Cap
<1>3. CacheFresh'
  <2> SUFFICES ASSUME NEW p \in Procs, NEW c \in Customers, cache'[p][c].digest # None
               PROVE  since'[c][cache'[p][c].digest] <= Timeout + cache'[p][c].age
    BY DEF CacheFresh
  <2> DEFINE e == cache[p][c]
  <2>1. e \in [digest : Digests \cup {None}, age : 0 .. Expiry - 1] /\ cache'[p][c] = Older(e)
    BY DEF Tick, TInv, Records, Caches, Cached
  <2>2. e.digest # None => since[c][e.digest] <= Timeout + e.age
    BY DEF FInv, CacheFresh
  <2> HIDE DEF e
  <2>3. e.digest \in Digests /\ e.age \in Nat /\ Older(e) = [e EXCEPT !.age = @ + 1]
    BY <2>1, TimeAssumption DEF Older, NoCached
  <2>4. Older(e).digest = e.digest /\ Older(e).age = e.age + 1
    BY <2>1, <2>3
  <2>5. e.digest # None
    BY <2>3, NoneAssumption
  <2> QED
    BY <1>2, <2>1, <2>2, <2>3, <2>4, <2>5, TimeAssumption
<1>4. SearchFresh'
  <2> SUFFICES ASSUME NEW r \in Reqs, Waiting(r)'
               PROVE  since'[req'[r].cust][req'[r].seen] <= req'[r].age
    BY DEF SearchFresh
  <2>1. Waiting(r)
    BY TickGives DEF Waiting, Busy
  <2>2. /\ req'[r].cust = req[r].cust /\ req'[r].seen = req[r].seen
        /\ req'[r].age = req[r].age + 1
    BY <2>1, TickGives DEF Same
  <2>3. req[r] \in Request /\ Shape(req[r])
    BY <2>1, BusyShape DEF Waiting
  <2>4. req[r].cust \in Customers /\ req[r].seen \in Digests /\ req[r].age \in Nat
    BY <2>1, <2>3, TimeAssumption DEF Request, Shape, Waiting
  <2>5. since[req[r].cust][req[r].seen] <= req[r].age
    BY <2>1 DEF FInv, SearchFresh
  <2> QED
    BY <1>2, <2>2, <2>4, <2>5
<1> QED
  BY <1>1, <1>3, <1>4 DEF FInv

LEMMA FreshStep == TInv /\ FInv /\ [Next]_vars => FInv'
<1>1. ASSUME FInv, UNCHANGED vars
      PROVE  FInv'
  BY <1>1 DEF vars, ghosts, FInv, UsersFresh, SearchFresh, CacheFresh, LoginCurrent, Waiting, Busy
<1> QED
  BY <1>1, BeginFresh, ServeFresh, ContinueFresh, CrashFresh, TickFresh DEF Next

(* No CAPI process accepts a login with a digest that was changed or whose *)
(* customer was deleted Expiry + Timeout or more ticks ago (loadCustomer's *)
(* cache, login).                                                          *)
THEOREM LoginCurrentHolds == Spec => []LoginCurrent
<1>1. Spec => []TInv
  BY TypeInit, TypeStep, PTL DEF Spec
<1>2. Spec => []FInv
  BY <1>1, FreshInit, FreshStep, PTL DEF Spec
<1> QED
  BY <1>2, PTL DEF FInv

-----------------------------------------------------------------------------
(***************************************************************************)
(* UpdateSeen.  As long as nobody has written after an update did, the     *)
(* customer has the digest that the update gave it, and a search that the  *)
(* update makes then reads it: the cache that could answer instead is      *)
(* empty.                                                                  *)
(***************************************************************************)
CleanOf(q) ==
    q.clean =>
        /\ q.op = "update" /\ q.arg # None /\ users[q.cust] = q.arg
        /\ q.at \in {"modify", "reload"}
        /\ q.at = "reload" /\ q.stage = "done" => q.seen = q.arg

CInv == UpdateSeen /\ \A r \in Reqs : req[r] # Nothing => CleanOf(req[r])

LEMMA CleanInit == Init => CInv
BY DEF Init, CInv, UpdateSeen

LEMMA BeginClean ==
    ASSUME TInv, CInv, NEW r \in Reqs, Begin(r)
    PROVE  CInv'
<1>1. UpdateSeen'
  BY BeginView DEF UpdateSeen
<1>2. ASSUME NEW x \in Reqs, req'[x] # Nothing
      PROVE  CleanOf(req[x])'
  BY <1>2, BeginView DEF Untouched, CInv, CleanOf
<1> QED
  BY <1>1, <1>2 DEF CInv

LEMMA ContinueClean ==
    ASSUME TInv, CInv, NEW r \in Reqs, Continue(r)
    PROVE  CInv'
<1>1. UNCHANGED users /\ r \in Busy /\ Untouched(r) /\ ContinueView(r)
  BY ContinueGives
<1>2. CleanOf(req[r]) /\ req[r].op \in {"create", "update", "del", "login"}
  BY <1>1, BusyShape DEF CInv, Busy, Request
<1>3. UpdateSeen'
  <2> SUFFICES ASSUME answer' # Nothing, answer'.op = "update", answer'.reloaded, answer'.clean
               PROVE  answer'.digest = answer'.arg
    BY DEF UpdateSeen
  <2> QED
    BY <1>1, <1>2 DEF ContinueView, CleanOf
<1>4. ASSUME req'[r] # Nothing
      PROVE  CleanOf(req[r])'
  BY <1>1, <1>2, <1>4 DEF ContinueView, Goes, CleanOf
<1> QED
  BY <1>1, <1>3, <1>4 DEF CInv, CleanOf, Untouched

LEMMA ServeClean ==
    ASSUME TInv, CInv, NEW r \in Reqs, Serve(r)
    PROVE  CInv'
<1>1. /\ r \in Busy /\ answer' = Nothing
      /\ req'[r] \in Request /\ Same(req[r], req'[r])
      /\ \/ SearchView(r) \/ DeleteView(r) \/ LoadView(r) \/ SaveGroupView(r) \/ RefuseView(r)
         \/ \E d \in Digests : WriteView(r, d)
  BY ServeView
<1>2. /\ req[r] \in Request /\ Shape(req[r]) /\ req[r].cust \in Customers /\ CleanOf(req[r])
      /\ req[r].op \in {"create", "update", "del", "login"}
  BY <1>1, BusyShape DEF CInv, Busy, Request
<1>3. UpdateSeen'
  BY <1>1 DEF UpdateSeen
(* Without a write nothing changes but the request itself.                 *)
<1>4. CASE SearchView(r) \/ LoadView(r) \/ SaveGroupView(r) \/ RefuseView(r)
  <2>1. users' = users /\ Untouched(r) /\ req'[r].clean = req[r].clean
    BY <1>4 DEF SearchView, LoadView, SaveGroupView, RefuseView
  <2>2. req'[r].stage = "done" /\ req[r].at \in Loads => req'[r].seen = users[req[r].cust]
    BY <1>4 DEF SearchView, LoadView, SaveGroupView, RefuseView, Loads
  <2>3. CleanOf(req[r])'
    BY <1>1, <1>2, <2>1, <2>2 DEF CleanOf, Same, Loads
  <2> QED
    BY <1>3, <2>1, <2>3 DEF CInv, CleanOf, Untouched
(* A write tells the other requests for the customer.                      *)
<1>5. ASSUME OthersMarked(r), CleanOf(req[r])',
             \A c \in Customers : c # req[r].cust => users'[c] = users[c]
      PROVE  CInv'
  <2> SUFFICES ASSUME NEW x \in Reqs \ {r}, req'[x] # Nothing
               PROVE  CleanOf(req[x])'
    BY <1>3, <1>5 DEF CInv
  <2>1. CASE req'[x] = req[x] /\ req[x] # Nothing /\ req[x].cust # req[r].cust
    <3>1. req[x].cust \in Customers /\ CleanOf(req[x])
      BY <2>1, BusyShape DEF CInv, Busy
    <3> QED
      BY <1>5, <2>1, <3>1 DEF CleanOf
  <2>2. CASE ~req'[x].clean
    BY <2>2 DEF CleanOf
  <2> QED
    BY <1>5, <2>1, <2>2 DEF OthersMarked
<1>6. CASE DeleteView(r)
  BY <1>1, <1>5, <1>6 DEF DeleteView, CleanOf, TInv, Records
<1>7. ASSUME NEW d \in Digests, WriteView(r, d)
      PROVE  CInv'
  <2>1. users'[req[r].cust] = d /\ \A c \in Customers : c # req[r].cust => users'[c] = users[c]
    BY <1>2, <1>7 DEF WriteView, TInv, Records
  <2>2. req'[r].clean => req[r].at = "modify" /\ d = req[r].arg /\ req[r].op = "update"
                         /\ req[r].arg # None
    BY <1>2, <1>7 DEF WriteView, Shape
  <2>3. CleanOf(req[r])'
    BY <1>1, <2>1, <2>2 DEF CleanOf, Same
  <2> QED
    BY <1>5, <1>7, <2>1, <2>3 DEF WriteView
<1> QED
  BY <1>1, <1>4, <1>6, <1>7

LEMMA CrashClean ==
    ASSUME TInv, CInv, NEW p \in Procs, Crash(p)
    PROVE  CInv'
<1>1. UpdateSeen' /\ users' = users
  BY CrashGives DEF UpdateSeen
<1>2. ASSUME NEW x \in Reqs, req'[x] # Nothing
      PROVE  CleanOf(req[x])'
  <2>1. /\ req[x] # Nothing
        /\ req'[x].op = req[x].op /\ req'[x].cust = req[x].cust /\ req'[x].arg = req[x].arg
        /\ req'[x].at = req[x].at /\ req'[x].stage = req[x].stage /\ req'[x].seen = req[x].seen
        /\ req'[x].clean = req[x].clean
    BY <1>2, CrashGives DEF Busy
  <2> QED
    BY <1>1, <2>1 DEF CInv, CleanOf
<1> QED
  BY <1>1, <1>2 DEF CInv

LEMMA TickClean ==
    ASSUME TInv, CInv, Tick
    PROVE  CInv'
<1>1. UpdateSeen' /\ users' = users
  BY DEF Tick, UpdateSeen
<1>2. ASSUME NEW x \in Reqs, req'[x] # Nothing
      PROVE  CleanOf(req[x])'
  <2>1. /\ req[x] # Nothing /\ Same(req[x], req'[x])
        /\ req'[x].stage = req[x].stage /\ req'[x].seen = req[x].seen
        /\ req'[x].clean = req[x].clean
    BY <1>2, TickGives DEF Same
  <2> QED
    BY <1>1, <2>1 DEF CInv, CleanOf, Same
<1> QED
  BY <1>1, <1>2 DEF CInv

LEMMA CleanStep == TInv /\ CInv /\ [Next]_vars => CInv'
<1>1. ASSUME CInv, UNCHANGED vars
      PROVE  CInv'
  BY <1>1 DEF vars, CInv, CleanOf, UpdateSeen
<1> QED
  BY <1>1, BeginClean, ServeClean, ContinueClean, CrashClean, TickClean DEF Next

(* The customer an update answers with, having loaded it again, is the one *)
(* it has written, unless somebody wrote after it (update, loadCustomer).  *)
THEOREM UpdateSeenHolds == Spec => []UpdateSeen
<1>1. Spec => []TInv
  BY TypeInit, TypeStep, PTL DEF Spec
<1>2. Spec => []CInv
  BY <1>1, CleanInit, CleanStep, PTL DEF Spec
<1> QED
  BY <1>2, PTL DEF CInv

-----------------------------------------------------------------------------
(***************************************************************************)
(* CreateTruthful and OperatorsExist.  What a modify of the group has      *)
(* loaded is what the group is, but for the customers whose own changes    *)
(* were saved meanwhile: so saving it undoes no other change.  A create    *)
(* comes to the group with the customer in UFDS, a deletion without it.    *)
(***************************************************************************)
Gone(q) == q.op = "del" /\ ((q.at = "delete" /\ q.stage = "done") \/ q.at = "group")

CreateOK(q) ==
    q.op = "create" =>
        /\ (q.at = "add" /\ q.stage = "done") \/ q.at \in {"code", "group"} =>
               users[q.cust] # None \/ q.cust \in stranded
        /\ q.at = "group" /\ q.stage = "done" =>
               q.cust \in operators \cup deleted \cup overlapped

DelOK(q) == Gone(q) => q.cust \in deleted

MembersOK(q) ==
    q.at = "group" /\ q.stage = "loaded" =>
        \A c \in Customers \ overlapped : c \in q.members <=> c \in operators

OK(q) == CreateOK(q) /\ DelOK(q) /\ MembersOK(q)

LInv ==
    /\ \A r \in Reqs : req[r] # Nothing => OK(req[r])
    /\ CreateTruthful
    /\ OperatorsExist

LEMMA LifeInit == Init => LInv
BY DEF Init, LInv, CreateTruthful, OperatorsExist

(* A member that exists, or whose deletion is half done.                   *)
Accounted(c) ==
    \/ users[c] # None
    \/ \E r \in Reqs : req[r] # Nothing /\ req[r].cust = c /\ HalfDeleted(req[r])

LEMMA ExistOf ==
    OperatorsExist <=> \A c \in operators \ (stranded \cup overlapped) : Accounted(c)
BY DEF OperatorsExist, Accounted, Busy

LEMMA BeginLife ==
    ASSUME TInv, LInv, NEW r \in Reqs, Begin(r)
    PROVE  LInv'
<1>1. /\ UNCHANGED <<users, operators, promised, deleted, overlapped, stranded>>
      /\ Untouched(r) /\ req[r] = Nothing
  BY BeginView
<1>2. ASSUME NEW x \in Reqs, req'[x] # Nothing
      PROVE  OK(req[x])'
  <2>1. CASE x = r
    BY <1>2, <2>1, BeginView
       DEF OK, CreateOK, DelOK, MembersOK, Gone
  <2>2. CASE x # r
    BY <1>1, <1>2, <2>2 DEF LInv, OK, CreateOK, DelOK, MembersOK, Untouched
  <2> QED
    BY <2>1, <2>2
<1>3. CreateTruthful'
  BY <1>1 DEF LInv, CreateTruthful
<1>4. OperatorsExist'
  BY <1>1 DEF LInv, OperatorsExist, Busy, HalfDeleted, Untouched
<1> QED
  BY <1>2, <1>3, <1>4 DEF LInv

LEMMA ContinueLife ==
    ASSUME TInv, LInv, NEW r \in Reqs, Continue(r)
    PROVE  LInv'
<1>1. /\ r \in Busy /\ Untouched(r)
      /\ UNCHANGED <<users, operators, deleted, overlapped>>
      /\ ContinueView(r) /\ PromiseView(r) /\ StrandView(r)
  BY ContinueGives
<1>2. /\ req[r] # Nothing /\ OK(req[r]) /\ Shape(req[r])
      /\ req[r].op \in {"create", "update", "del", "login"}
  BY <1>1, BusyShape DEF LInv, Busy, Request
<1>3. ASSUME NEW x \in Reqs, req'[x] # Nothing
      PROVE  OK(req[x])'
  <2>1. CASE x = r
    <3>1. /\ Goes(r, req[r])
          /\ req'[r].stage = "sent" /\ req'[r].op = req[r].op /\ req'[r].cust = req[r].cust
      BY <1>1, <1>3, <2>1 DEF ContinueView, Goes
    <3>2. CreateOK(req[r])'
      BY <1>1, <1>2, <1>3, <2>1, <3>1 DEF ContinueView, OK, CreateOK, StrandView
    <3>3. DelOK(req[r])'
      BY <1>1, <1>2, <1>3, <2>1, <3>1 DEF ContinueView, OK, DelOK, Gone
    <3>4. MembersOK(req[r])'
      BY <3>1 DEF MembersOK
    <3> QED
      BY <2>1, <3>2, <3>3, <3>4 DEF OK
  <2>2. CASE x # r
    BY <1>1, <1>3, <2>2 DEF LInv, OK, CreateOK, DelOK, MembersOK, Untouched, StrandView
  <2> QED
    BY <2>1, <2>2
<1>4. CreateTruthful'
  BY <1>1, <1>2 DEF LInv, CreateTruthful, PromiseView, OK, CreateOK
<1>5. OperatorsExist'
  <2> SUFFICES ASSUME NEW c \in operators \ (stranded' \cup overlapped)
               PROVE  Accounted(c)'
    BY <1>1, ExistOf DEF OperatorsExist, Accounted, Busy
  <2>1. Accounted(c)
    BY <1>1, ExistOf DEF LInv, StrandView
  <2>2. CASE users[c] # None
    BY <1>1, <2>2 DEF Accounted
  <2>3. ASSUME NEW x \in Reqs, req[x] # Nothing, req[x].cust = c, HalfDeleted(req[x])
        PROVE  Accounted(c)'
    <3>1. CASE x # r
      BY <1>1, <2>3, <3>1 DEF Accounted, Untouched, HalfDeleted
    <3>2. CASE x = r
      <4>1. req'[r] # Nothing
        BY <1>1, <2>3, <3>2 DEF StrandView
      <4>2. req'[r].op = "del" /\ req'[r].at = "group" /\ req'[r].stage = "sent" /\ req'[r].cust = c
        BY <1>1, <2>3, <3>2, <4>1 DEF ContinueView, Goes, HalfDeleted
      <4> QED
        BY <4>1, <4>2 DEF Accounted, HalfDeleted
    <3> QED
      BY <3>1, <3>2
  <2> QED
    BY <2>1, <2>2, <2>3 DEF Accounted
<1> QED
  BY <1>3, <1>4, <1>5 DEF LInv

(* Other requests, while UFDS serves this one.                             *)
LEMMA OthersKept ==
    ASSUME TInv, LInv, NEW r \in Busy, Untouched(r) \/ OthersMarked(r), NEW x \in Reqs \ {r}
    PROVE  /\ req'[x] = Nothing <=> req[x] = Nothing
           /\ req[x] # Nothing =>
                 /\ req[x].cust \in Customers
                 /\ req'[x].op = req[x].op /\ req'[x].cust = req[x].cust /\ req'[x].at = req[x].at
                 /\ req'[x].stage = req[x].stage /\ req'[x].members = req[x].members
                 /\ OK(req[x])
<1>1. req[x] # Nothing => OK(req[x]) /\ req[x].cust \in Customers
  BY BusyShape DEF LInv, Busy
<1>2. CASE req'[x] = req[x]
  BY <1>1, <1>2
<1>3. CASE req[x] # Nothing /\ req'[x] \in Request /\ Held(req[x], req'[x])
  BY <1>1, <1>3, NotNothing DEF Held, Same
<1> QED
  BY <1>2, <1>3 DEF Untouched, OthersMarked

LEMMA ServeLife ==
    ASSUME TInv, LInv, NEW r \in Reqs, Serve(r)
    PROVE  LInv'
<1>1. /\ r \in Busy /\ promised' = promised
      /\ req'[r] \in Request /\ Same(req[r], req'[r])
      /\ \/ SearchView(r) \/ DeleteView(r) \/ LoadView(r) \/ SaveGroupView(r) \/ RefuseView(r)
         \/ \E d \in Digests : WriteView(r, d)
  BY ServeView
<1>2. /\ req[r] # Nothing /\ OK(req[r]) /\ Shape(req[r]) /\ req[r].cust \in Customers
      /\ req[r].op \in {"create", "update", "del", "login"}
      /\ req[r].stage \in {"sent", "loaded", "done", "refused"}
  BY <1>1, BusyShape DEF LInv, Busy, Request
<1>3. req'[r] # Nothing /\ req'[r].op = req[r].op /\ req'[r].cust = req[r].cust
      /\ req'[r].at = req[r].at
  BY <1>1, NotNothing DEF Same
<1>4. Untouched(r) \/ OthersMarked(r)
  BY <1>1 DEF SearchView, DeleteView, LoadView, SaveGroupView, RefuseView, WriteView
<1>5. ASSUME NEW x \in Reqs \ {r}
      PROVE  /\ req'[x] = Nothing <=> req[x] = Nothing
             /\ req[x] # Nothing =>
                   /\ req[x].cust \in Customers
                   /\ req'[x].op = req[x].op /\ req'[x].cust = req[x].cust
                   /\ req'[x].at = req[x].at
                   /\ req'[x].stage = req[x].stage /\ req'[x].members = req[x].members
                   /\ OK(req[x])
  BY <1>1, <1>4, OthersKept
(* Half done deletions of others stay so.                                  *)
<1>6. ASSUME NEW c \in Customers, Accounted(c), users'[c] = None => users[c] = None,
             HalfDeleted(req[r]) /\ req[r].cust = c => HalfDeleted(req'[r])
      PROVE  Accounted(c)'
  <2>1. CASE users[c] # None
    BY <1>6, <2>1 DEF Accounted
  <2>2. ASSUME NEW x \in Reqs, req[x] # Nothing, req[x].cust = c, HalfDeleted(req[x])
        PROVE  Accounted(c)'
    <3>1. CASE x = r
      BY <1>3, <1>6, <2>2, <3>1 DEF Accounted, HalfDeleted
    <3>2. CASE x # r
      BY <1>5, <2>2, <3>2 DEF Accounted, HalfDeleted
    <3> QED
      BY <3>1, <3>2
  <2> QED
    BY <1>6, <2>1, <2>2 DEF Accounted
<1>7. ASSUME UNCHANGED <<operators, overlapped>>, deleted \subseteq deleted',
             stranded \subseteq stranded',
             \A c \in Customers : users'[c] = None => users[c] = None,
             OK(req[r])',
             HalfDeleted(req[r]) => HalfDeleted(req'[r]) \/ req[r].cust \in stranded'
      PROVE  LInv'
  <2>1. ASSUME NEW x \in Reqs \ {r}, req'[x] # Nothing
        PROVE  OK(req[x])'
    BY <1>5, <1>7, <2>1 DEF OK, CreateOK, DelOK, MembersOK, Gone
  <2>2. CreateTruthful'
    BY <1>1, <1>7 DEF LInv, CreateTruthful
  <2>3. ASSUME NEW c \in operators' \ (stranded' \cup overlapped')
        PROVE  Accounted(c)'
    <3>1. Accounted(c) /\ c \in Customers
      BY <1>7, <2>3, ExistOf DEF LInv, TInv, Records
    <3> QED
      BY <1>6, <1>7, <2>3, <3>1
  <2>4. OperatorsExist'
    BY <2>3 DEF OperatorsExist, Accounted, Busy
  <2> QED
    BY <1>7, <2>1, <2>2, <2>4 DEF LInv
<1>8. CASE SearchView(r) \/ LoadView(r)
  <2>1. /\ UNCHANGED <<users, operators, deleted, overlapped, stranded>>
        /\ req[r].stage = "sent"
        /\ \/ req[r].at \in Loads /\ req'[r].stage = "done"
           \/ /\ req[r].at \in {"modify", "code", "group"} /\ req'[r].stage = "loaded"
              /\ req[r].at = "group" => req'[r].members = operators
    BY <1>8 DEF SearchView, LoadView
  <2>2. OK(req[r])'
    BY <1>2, <1>3, <2>1 DEF OK, CreateOK, DelOK, MembersOK, Gone, Loads
  <2>3. HalfDeleted(req[r]) => HalfDeleted(req'[r])
    BY <1>3, <2>1 DEF HalfDeleted, Loads
  <2> QED
    BY <1>7, <2>1, <2>2, <2>3
<1>9. CASE RefuseView(r)
  <2>1. /\ UNCHANGED <<users, operators, deleted, overlapped>> /\ req'[r].stage = "refused"
        /\ stranded' = stranded \cup Stranded({r})
    BY <1>9 DEF RefuseView
  <2>2. OK(req[r])'
    BY <1>2, <1>3, <2>1 DEF OK, CreateOK, DelOK, MembersOK, Gone
  <2>3. HalfDeleted(req[r]) => req[r].cust \in stranded'
    BY <1>1, <2>1, StrandedOf
  <2> QED
    BY <1>7, <2>1, <2>2, <2>3
<1>10. ASSUME NEW d \in Digests, WriteView(r, d)
       PROVE  LInv'
  <2>1. /\ UNCHANGED <<operators, deleted, overlapped, stranded>> /\ req'[r].stage = "done"
        /\ req[r].at \in {"add", "modify", "code"}
        /\ users'[req[r].cust] # None
        /\ \A c \in Customers : users'[c] = None => users[c] = None
    BY <1>2, <1>10, NoneAssumption DEF WriteView, TInv, Records
  <2>2. OK(req[r])'
    BY <1>2, <1>3, <2>1 DEF OK, CreateOK, DelOK, MembersOK, Gone
  <2>3. ~HalfDeleted(req[r])
    BY <2>1 DEF HalfDeleted
  <2> QED
    BY <1>7, <2>1, <2>2, <2>3
<1>11. CASE DeleteView(r)
  <2>1. /\ UNCHANGED <<operators, overlapped>> /\ req'[r].stage = "done"
        /\ req[r].at = "delete" /\ req[r].op = "del"
        /\ deleted' = deleted \cup {req[r].cust} /\ stranded \subseteq stranded'
        /\ \A c \in Customers : c # req[r].cust => users'[c] = users[c]
    BY <1>2, <1>11 DEF DeleteView, TInv, Records
  <2>2. ASSUME NEW x \in Reqs, req[x] # Nothing, req[x].op = "create", req[x].cust = req[r].cust
        PROVE  req[r].cust \in stranded'
    BY <1>11, <2>2 DEF DeleteView, Busy
  <2>3. ASSUME NEW x \in Reqs \ {r}, req'[x] # Nothing
        PROVE  OK(req[x])'
    BY <1>5, <2>1, <2>2, <2>3 DEF OK, CreateOK, DelOK, MembersOK, Gone
  <2>4. OK(req[r])'
    BY <1>3, <2>1 DEF OK, CreateOK, DelOK, MembersOK, Gone
  <2>5. CreateTruthful'
    BY <1>1, <2>1 DEF LInv, CreateTruthful
  <2>6. ASSUME NEW c \in operators' \ (stranded' \cup overlapped')
        PROVE  Accounted(c)'
    <3>1. CASE c = req[r].cust
      BY <1>3, <2>1, <3>1 DEF Accounted, HalfDeleted
    <3>2. CASE c # req[r].cust
      <4>1. Accounted(c) /\ c \in Customers
        BY <2>1, <2>6, ExistOf DEF LInv, TInv, Records
      <4> QED
        BY <1>6, <2>1, <3>2, <4>1
    <3> QED
      BY <3>1, <3>2
  <2>7. OperatorsExist'
    BY <2>6 DEF OperatorsExist, Accounted, Busy
  <2> QED
    BY <2>3, <2>4, <2>5, <2>7 DEF LInv
<1>12. CASE SaveGroupView(r)
  <2>1. /\ UNCHANGED <<users, deleted, stranded>> /\ req'[r].stage = "done"
        /\ req[r].at = "group" /\ req[r].stage = "loaded" /\ req[r].op \in {"create", "del"}
        /\ operators' = IF req[r].op = "create" THEN req[r].members \cup {req[r].cust}
                                                ELSE req[r].members \ {req[r].cust}
        /\ overlapped \subseteq overlapped' /\ overlapped' \subseteq overlapped \cup {req[r].cust}
    BY <1>2, <1>12 DEF SaveGroupView, Shape
  <2>2. ASSUME NEW x \in Reqs \ {r}, req[x] # Nothing, req[x].at = "group", req[x].stage = "loaded"
        PROVE  req[r].cust \in overlapped'
    BY <1>12, <2>2 DEF SaveGroupView, Busy
  <2>3. ASSUME NEW c \in Customers \ overlapped, c # req[r].cust
        PROVE  c \in operators' <=> c \in operators
    BY <1>2, <2>1, <2>3 DEF OK, MembersOK
  <2>4. ASSUME NEW x \in Reqs \ {r}, req'[x] # Nothing
        PROVE  OK(req[x])'
    <3>1. /\ req[x] # Nothing /\ req[x].cust \in Customers /\ OK(req[x])
          /\ req'[x].op = req[x].op /\ req'[x].cust = req[x].cust /\ req'[x].at = req[x].at
          /\ req'[x].stage = req[x].stage /\ req'[x].members = req[x].members
      BY <1>5, <2>4
    <3>2. MembersOK(req[x])'
      BY <2>1, <2>2, <2>3, <3>1 DEF OK, MembersOK
    <3>3. DelOK(req[x])'
      BY <2>1, <3>1 DEF OK, DelOK, Gone
    <3>4. CreateOK(req[x])'
      <4>1. req[r].op = "del" => req[r].cust \in deleted
        BY <1>2, <2>1 DEF OK, DelOK, Gone
      <4>2. req[r].op = "create" => req[r].cust \in operators'
        BY <2>1
      <4> QED
        BY <2>1, <2>3, <3>1, <4>1, <4>2 DEF OK, CreateOK
    <3> QED
      BY <3>2, <3>3, <3>4 DEF OK
  <2>5. OK(req[r])'
    BY <1>2, <1>3, <2>1 DEF OK, CreateOK, DelOK, MembersOK, Gone
  <2>6. CreateTruthful'
    <3>1. req[r].op = "del" => req[r].cust \in deleted
      BY <1>2, <2>1 DEF OK, DelOK, Gone
    <3>2. ASSUME NEW c \in promised \ (deleted \cup overlapped')
          PROVE  c \in operators'
      <4>1. c \in operators /\ c \in Customers
        BY <2>1, <3>2 DEF LInv, CreateTruthful, TInv, Records
      <4> QED
        BY <2>1, <2>3, <3>1, <3>2, <4>1
    <3> QED
      BY <1>1, <2>1, <3>2 DEF CreateTruthful
  <2>7. ASSUME NEW c \in operators' \ (stranded' \cup overlapped')
        PROVE  Accounted(c)'
    <3>1. c \in Customers
      BY <1>1, <2>7, ServeTyped DEF TInv, Records
    <3>2. CASE c = req[r].cust
      <4>1. req[r].op = "create" /\ users[c] # None
        BY <1>2, <2>1, <2>7, <3>2 DEF OK, CreateOK
      <4> QED
        BY <2>1, <4>1 DEF Accounted
    <3>3. CASE c # req[r].cust
      <4>1. Accounted(c)
        BY <2>1, <2>3, <2>7, <3>1, <3>3, ExistOf DEF LInv
      <4> QED
        BY <1>6, <2>1, <3>1, <3>3, <4>1
    <3> QED
      BY <3>2, <3>3
  <2>8. OperatorsExist'
    BY <2>7 DEF OperatorsExist, Accounted, Busy
  <2> QED
    BY <2>4, <2>5, <2>6, <2>8 DEF LInv
<1> QED
  BY <1>1, <1>8, <1>9, <1>10, <1>11, <1>12

(* Steps that write nothing and leave every request as far as it is, or    *)
(* take it away.                                                           *)
LEMMA LifeKept ==
    ASSUME TInv, LInv, UNCHANGED <<users, operators, promised, deleted, overlapped>>,
           stranded \subseteq stranded',
           \A x \in Reqs : req'[x] # Nothing =>
               /\ req[x] # Nothing
               /\ req'[x].op = req[x].op /\ req'[x].cust = req[x].cust /\ req'[x].at = req[x].at
               /\ req'[x].stage = req[x].stage /\ req'[x].members = req[x].members,
           \A x \in Reqs : req[x] # Nothing /\ HalfDeleted(req[x]) =>
               req'[x] # Nothing \/ req[x].cust \in stranded'
    PROVE  LInv'
<1>1. ASSUME NEW x \in Reqs, req'[x] # Nothing
      PROVE  OK(req[x])'
  BY <1>1 DEF LInv, OK, CreateOK, DelOK, MembersOK, Gone
<1>2. CreateTruthful'
  BY DEF LInv, CreateTruthful
<1>3. ASSUME NEW c \in operators' \ (stranded' \cup overlapped')
      PROVE  Accounted(c)'
  <2>1. Accounted(c)
    BY <1>3, ExistOf DEF LInv
  <2> QED
    BY <1>3, <2>1 DEF Accounted, HalfDeleted
<1>4. OperatorsExist'
  BY <1>3 DEF OperatorsExist, Accounted, Busy
<1> QED
  BY <1>1, <1>2, <1>4 DEF LInv

LEMMA CrashLife ==
    ASSUME TInv, LInv, NEW p \in Procs, Crash(p)
    PROVE  LInv'
<1>1. ASSUME NEW x \in Reqs, req'[x] # Nothing
      PROVE  /\ req[x] # Nothing
             /\ req'[x].op = req[x].op /\ req'[x].cust = req[x].cust /\ req'[x].at = req[x].at
             /\ req'[x].stage = req[x].stage /\ req'[x].members = req[x].members
  BY <1>1, CrashGives DEF Busy
<1>2. ASSUME NEW x \in Reqs, req[x] # Nothing, HalfDeleted(req[x]), req'[x] = Nothing
      PROVE  req[x].cust \in stranded'
  <2>1. \/ req'[x] = req[x]
        \/ HalfDeleted(req[x]) => req[x].cust \in stranded'
        \/ req'[x] \in Request
    BY CrashGives
  <2> QED
    BY <1>2, <2>1, NotNothing
<1> QED
  BY <1>1, <1>2, CrashGives, LifeKept

LEMMA TickLife ==
    ASSUME TInv, LInv, Tick
    PROVE  LInv'
<1>1. UNCHANGED <<users, operators, promised, deleted, overlapped, stranded>>
  BY DEF Tick
<1>2. ASSUME NEW x \in Reqs, req'[x] # Nothing
      PROVE  /\ req[x] # Nothing
             /\ req'[x].op = req[x].op /\ req'[x].cust = req[x].cust /\ req'[x].at = req[x].at
             /\ req'[x].stage = req[x].stage /\ req'[x].members = req[x].members
  BY <1>2, TickGives DEF Same
<1>3. ASSUME NEW x \in Reqs, req[x] # Nothing
      PROVE  req'[x] # Nothing
  BY <1>3, TickGives, NotNothing
<1> QED
  BY <1>1, <1>2, <1>3, LifeKept

LEMMA LifeStep == TInv /\ LInv /\ [Next]_vars => LInv'
<1>1. ASSUME LInv, UNCHANGED vars
      PROVE  LInv'
  BY <1>1 DEF vars, ghosts, LInv, OK, CreateOK, DelOK, MembersOK, Gone, CreateTruthful,
              OperatorsExist, Busy
<1> QED
  BY <1>1, BeginLife, ServeLife, ContinueLife, CrashLife, TickLife DEF Next

(* Whoever create has said to be an operator is one until a delete of the  *)
(* customer is applied, unless its change of the group was saved while     *)
(* another change of it was between its load and its save (create, del;    *)
(* lib/db/mod.js).                                                         *)
THEOREM CreateTruthfulHolds == Spec => []CreateTruthful
<1>1. Spec => []TInv
  BY TypeInit, TypeStep, PTL DEF Spec
<1>2. Spec => []LInv
  BY <1>1, LifeInit, LifeStep, PTL DEF Spec
<1> QED
  BY <1>2, PTL DEF LInv

(* A member of the group that does not exist is being deleted, or its      *)
(* deletion stopped half way or met the creation, or its change of the     *)
(* group was saved while another one was between its load and its save     *)
(* (del; lib/db/mod.js).                                                   *)
THEOREM OperatorsExistHolds == Spec => []OperatorsExist
<1>1. Spec => []TInv
  BY TypeInit, TypeStep, PTL DEF Spec
<1>2. Spec => []LInv
  BY <1>1, LifeInit, LifeStep, PTL DEF Spec
<1> QED
  BY <1>2, PTL DEF LInv

=============================================================================
