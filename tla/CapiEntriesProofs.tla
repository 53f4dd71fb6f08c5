------------------------- MODULE CapiEntriesProofs -------------------------
(***************************************************************************)
(* Proofs about CapiEntries.                                               *)
(***************************************************************************)
EXTENDS CapiEntries, TLAPS

-----------------------------------------------------------------------------
(* The entries.  What a request may be doing, beside its type: the value   *)
(* it puts, and the value it deletes, are what they should be.             *)
Sound(q) ==
    /\ q.op = "put" => q.value # None /\ q.at \in {"load", "add", "replace"}
    /\ q.op = "del" => q.at \in {"load", "delete"}
    /\ q.at = "delete" => /\ q.seen.value # None
                          /\ q.value \in {q.seen.value, Parsed[q.seen.value]}
    /\ q.stage = "loaded" => q.at \in {"replace", "delete"}

Requests == {q \in Request : Sound(q)}

EntriesType ==
    /\ entries \in [Entries -> Contents \cup {Absent}]
    /\ req \in [Reqs -> Requests \cup {Nothing}]

LEMMA SlotSet ==
    ASSUME EntriesType, NEW r \in Reqs, NEW q \in Requests \cup {Nothing},
           req' = [req EXCEPT ![r] = q]
    PROVE  req' \in [Reqs -> Requests \cup {Nothing}]
BY DEF EntriesType

LEMMA BusyIs ==
    ASSUME EntriesType, NEW r \in Busy
    PROVE  r \in Reqs /\ req[r] \in Request /\ Sound(req[r])
BY DEF EntriesType, Busy, Requests

(* The operators that change a slot, as one record each.                   *)
LEMMA StageIs ==
    ASSUME NEW q \in Requests, NEW stage \in {"sent", "done", "refused"}
    PROVE  LET x == [q EXCEPT !.stage = stage]
           IN  /\ x \in Requests /\ x.stage = stage
               /\ x.op = q.op /\ x.entry = q.entry /\ x.field = q.field /\ x.value = q.value
               /\ x.at = q.at /\ x.seen = q.seen /\ x.alone = q.alone
<1>1. PICK x : x = [q EXCEPT !.stage = stage]
  OBVIOUS
<1>2. /\ x \in Request /\ x.stage = stage
      /\ x.op = q.op /\ x.entry = q.entry /\ x.field = q.field /\ x.value = q.value
      /\ x.at = q.at /\ x.seen = q.seen /\ x.alone = q.alone
  BY <1>1 DEF Requests, Request
<1>3. x \in Requests
  BY <1>2 DEF Requests, Sound
<1> QED
  BY <1>1, <1>2, <1>3

(* UFDS is done with a request.                                            *)
LEMMA EndIs ==
    ASSUME NEW q \in Requests, NEW stage \in {"done", "refused"}
    PROVE  LET x == [q EXCEPT !.stage = stage, !.copy = Empty, !.stale = {}]
           IN  /\ x \in Requests /\ x.stage = stage
               /\ x.op = q.op /\ x.entry = q.entry /\ x.field = q.field /\ x.value = q.value
               /\ x.at = q.at /\ x.seen = q.seen /\ x.alone = q.alone
<1>1. PICK y, z, x : /\ y = [q EXCEPT !.stage = stage] /\ z = [y EXCEPT !.copy = Empty]
                     /\ x = [z EXCEPT !.stale = {}]
  OBVIOUS
<1>2. /\ y \in Request /\ y.stage = stage
      /\ y.op = q.op /\ y.entry = q.entry /\ y.field = q.field /\ y.value = q.value
      /\ y.at = q.at /\ y.seen = q.seen /\ y.alone = q.alone
  BY <1>1 DEF Requests, Request
<1>3. Empty \in Contents
  BY DEF Empty, Contents
<1>4. /\ z \in Request /\ z.stage = stage
      /\ z.op = q.op /\ z.entry = q.entry /\ z.field = q.field /\ z.value = q.value
      /\ z.at = q.at /\ z.seen = q.seen /\ z.alone = q.alone
  BY <1>1, <1>2, <1>3 DEF Request
<1>5. /\ x \in Request /\ x.stage = stage
      /\ x.op = q.op /\ x.entry = q.entry /\ x.field = q.field /\ x.value = q.value
      /\ x.at = q.at /\ x.seen = q.seen /\ x.alone = q.alone
  BY <1>1, <1>4 DEF Request
<1>6. x \in Requests
  BY <1>5 DEF Requests, Sound
<1>7. x = [q EXCEPT !.stage = stage, !.copy = Empty, !.stale = {}]
  BY <1>1
<1> QED
  BY <1>5, <1>6, <1>7

(* Another request has written: q is not alone, and may be stale.          *)
LEMMA NotAlone ==
    ASSUME NEW q \in Requests, NEW w \in SUBSET Fields
    PROVE  LET x == [q EXCEPT !.alone = FALSE, !.stale = w]
           IN  /\ x \in Requests /\ x.alone = FALSE /\ x.stale = w
               /\ x.op = q.op /\ x.entry = q.entry /\ x.field = q.field /\ x.value = q.value
               /\ x.at = q.at /\ x.seen = q.seen /\ x.stage = q.stage /\ x.copy = q.copy
<1>1. PICK y, x : y = [q EXCEPT !.alone = FALSE] /\ x = [y EXCEPT !.stale = w]
  OBVIOUS
<1>2. /\ y \in Request /\ y.alone = FALSE
      /\ y.op = q.op /\ y.entry = q.entry /\ y.field = q.field /\ y.value = q.value
      /\ y.at = q.at /\ y.seen = q.seen /\ y.stage = q.stage /\ y.copy = q.copy
  BY <1>1 DEF Requests, Request
<1>3. /\ x \in Request /\ x.alone = FALSE /\ x.stale = w
      /\ x.op = q.op /\ x.entry = q.entry /\ x.field = q.field /\ x.value = q.value
      /\ x.at = q.at /\ x.seen = q.seen /\ x.stage = q.stage /\ x.copy = q.copy
  BY <1>1, <1>2 DEF Request
<1>4. x \in Requests
  BY <1>3 DEF Requests, Sound
<1> QED
  BY <1>1, <1>3, <1>4

(* put sends its write.                                                    *)
LEMMA SendIs ==
    ASSUME EntriesType, NEW r \in Busy, req[r].op = "put", NEW at \in {"add", "replace"},
           Send(r, at)
    PROVE  \E x \in Requests :
              /\ req' = [req EXCEPT ![r] = x]
              /\ x.at = at /\ x.stage = "sent" /\ x.op = "put" /\ x.entry = req[r].entry
              /\ x.alone = req[r].alone
<1>1. PICK q : q = req[r]
  OBVIOUS
<1>2. r \in Reqs /\ q \in Request /\ Sound(q) /\ q.op = "put"
  BY <1>1, BusyIs
<1>3. PICK y, z, x : /\ y = [q EXCEPT !.at = at] /\ z = [y EXCEPT !.stage = "sent"]
                     /\ x = [z EXCEPT !.seen = NotLoaded]
  OBVIOUS
<1>4. y \in Request /\ y.at = at /\ y.op = "put" /\ y.entry = q.entry /\ y.value = q.value
      /\ y.alone = q.alone
  BY <1>2, <1>3 DEF Request
<1>5. z \in Request /\ z.at = at /\ z.op = "put" /\ z.entry = q.entry /\ z.value = q.value
      /\ z.alone = q.alone /\ z.stage = "sent"
  BY <1>3, <1>4 DEF Request
<1>6. NotLoaded \in Loaded
  BY DEF NotLoaded, Loaded
<1>7. x \in Request /\ x.at = at /\ x.op = "put" /\ x.entry = q.entry /\ x.value = q.value
      /\ x.alone = q.alone /\ x.stage = "sent"
  BY <1>3, <1>5, <1>6 DEF Request
<1>8. x \in Requests
  BY <1>2, <1>7 DEF Requests, Sound
<1>9. req' = [req EXCEPT ![r] = x]
  BY <1>1, <1>2, <1>3 DEF Send, EntriesType
<1> QED
  BY <1>1, <1>7, <1>8, <1>9

(* del sends the value it has read.                                        *)
LEMMA SendDeleteIs ==
    ASSUME EntriesType, NEW r \in Busy, req[r].op = "del", req[r].seen.value # None,
           SendDelete(r)
    PROVE  \E x \in Requests :
              /\ req' = [req EXCEPT ![r] = x]
              /\ x.op = "del" /\ x.at = "delete" /\ x.stage = "sent"
<1>1. PICK q, v : q = req[r] /\ v = IF q.entry \in Limits THEN Parsed[q.seen.value]
                                                        ELSE q.seen.value
  OBVIOUS
<1>2. r \in Reqs /\ q \in Request /\ q.op = "del" /\ q.seen.value # None
  BY <1>1, BusyIs
<1>3. q.seen.value \in Values
  BY <1>2 DEF Request, Loaded
<1>4. v \in Values /\ v \in {q.seen.value, Parsed[q.seen.value]}
  BY <1>1, <1>3, EntriesAssumption
<1>5. PICK y, z, x : /\ y = [q EXCEPT !.at = "delete"] /\ z = [y EXCEPT !.stage = "sent"]
                     /\ x = [z EXCEPT !.value = v]
  OBVIOUS
<1>6. y \in Request /\ y.at = "delete" /\ y.op = "del" /\ y.seen = q.seen
  BY <1>2, <1>5 DEF Request
<1>7. z \in Request /\ z.at = "delete" /\ z.op = "del" /\ z.seen = q.seen /\ z.stage = "sent"
  BY <1>5, <1>6 DEF Request
<1>8. x \in Request /\ x.at = "delete" /\ x.op = "del" /\ x.seen = q.seen /\ x.stage = "sent"
      /\ x.value = v
  BY <1>4, <1>5, <1>7 DEF Request
<1>9. x \in Requests
  BY <1>2, <1>4, <1>8 DEF Requests, Sound
<1>10. req' = [req EXCEPT ![r] = x]
  BY <1>1, <1>2, <1>5 DEF SendDelete, EntriesType
<1> QED
  BY <1>8, <1>9, <1>10

-----------------------------------------------------------------------------
(* What put takes for an existing entry, and what it does not.             *)
Exists(e) == entries[e] # Absent /\ (e \in Limits => \E f \in Fields : entries[e][f] # None)

Missing(e) == entries[e] = Absent \/ (e \in Limits /\ entries[e] = Empty)

(* A put that is alone knows how things are.                               *)
PutInformed(q) ==
    q.op = "put" /\ q.alone =>
        /\ q.at = "load" /\ q.stage = "done" => (q.seen.exists <=> Exists(q.entry))
        /\ q.at = "add" /\ q.stage = "sent" => Missing(q.entry)
        /\ q.stage = "refused" =>
              q.at = "add" /\ q.entry \in Limits /\ entries[q.entry] = Empty

(* What UFDS has loaded is what it still has, but for what was written.     *)
Fresh(q) ==
    q.stage = "loaded" =>
        /\ entries[q.entry] # Absent
        /\ \A f \in Fields \ q.stale : q.copy[f] = entries[q.entry][f]

EntriesInv == EntriesType /\ \A r \in Busy : PutInformed(req[r]) /\ Fresh(req[r])

LEMMA NotExisting ==
    ASSUME EntriesType, NEW e \in Entries, ~Exists(e)
    PROVE  Missing(e)
<1>1. CASE entries[e] = Absent
  BY <1>1 DEF Missing
<1>2. CASE entries[e] # Absent
  <2>1. e \in Limits /\ \A f \in Fields : entries[e][f] = None
    BY <1>2 DEF Exists
  <2>2. entries[e] \in Contents
    BY <1>2 DEF EntriesType
  <2>3. entries[e] = [f \in Fields |-> entries[e][f]]
    BY <2>2 DEF Contents
  <2>4. entries[e] = Empty
    BY <2>1, <2>3 DEF Empty
  <2> QED
    BY <2>1, <2>4 DEF Missing
<1> QED
  BY <1>1, <1>2

LEMMA EntriesSlot ==
    ASSUME EntriesInv, NEW r \in Reqs, NEW x \in Requests \cup {Nothing},
           req' = [req EXCEPT ![r] = x], UNCHANGED entries,
           x # Nothing => PutInformed(x) /\ Fresh(x)
    PROVE  EntriesInv'
<1>1. \A t \in Reqs : req'[t] = IF t = r THEN x ELSE req[t]
  BY DEF EntriesInv, EntriesType
<1>2. EntriesType'
  BY SlotSet DEF EntriesInv, EntriesType
<1>3. ASSUME NEW q, PutInformed(q) /\ Fresh(q) PROVE (PutInformed(q) /\ Fresh(q))'
  BY <1>3 DEF PutInformed, Exists, Missing, Fresh
<1> QED
  BY <1>1, <1>2, <1>3 DEF EntriesInv, Busy

(* A write tells the other requests on the entry.                          *)
LEMMA WriteKeeps ==
    ASSUME EntriesInv, NEW r \in Busy, req[r].at # "load", req' = Written(r),
           NEW c \in Contents, entries' = [entries EXCEPT ![req[r].entry] = c],
           entries[req[r].entry] # Absent =>
               \A f \in Fields \ Missed(req[r]) : c[f] = entries[req[r].entry][f]
    PROVE  EntriesInv'
<1>1. PICK q : q = req[r] /\ q \in Requests /\ r \in Reqs /\ q.entry \in Entries
  BY BusyIs DEF EntriesInv, Requests, Request
<1>2. /\ entries' \in [Entries -> Contents \cup {Absent}]
      /\ \A e \in Entries : e # q.entry => entries'[e] = entries[e]
      /\ entries'[q.entry] = c /\ c # Absent
  BY <1>1, EntriesAssumption DEF EntriesInv, EntriesType, Contents, Absent
<1>3. ASSUME NEW t \in Reqs
      PROVE  \E x \in Requests \cup {Nothing} :
                req'[t] = x /\ (x # Nothing => (PutInformed(x) /\ Fresh(x))')
  <2>1. CASE t = r
    <3>1. PICK x : x = [q EXCEPT !.stage = "done", !.copy = Empty, !.stale = {}]
      OBVIOUS
    <3>4. q \in Requests /\ q.at # "load"
      BY <1>1
    <3>5. x \in Requests /\ x.stage = "done" /\ x.at = q.at
      BY ONLY <3>1, <3>4, EndIs
    <3>2. x \in Requests /\ x.stage = "done" /\ x.at # "load"
      BY <3>4, <3>5
    <3>3. PutInformed(x)' /\ Fresh(x)'
      BY <3>2 DEF PutInformed, Fresh
    <3> QED
      BY <1>1, <2>1, <3>1, <3>2, <3>3 DEF Written
  <2>2. CASE t # r /\ t \in Busy /\ req[t].entry = req[r].entry
    <3>1. PICK p, w, x : /\ p = req[t] /\ p \in Requests /\ Fresh(p)
                         /\ w = IF p.stage = "loaded" THEN p.stale \cup Missed(q) ELSE p.stale
                         /\ x = [p EXCEPT !.alone = FALSE, !.stale = w]
      BY <2>2 DEF Busy, EntriesInv, EntriesType
    <3>2. w \in SUBSET Fields
      BY <1>1, <3>1 DEF Missed, Requests, Request
    <3>3. /\ x \in Requests /\ x.alone = FALSE /\ x.stale = w /\ x.stage = p.stage
          /\ x.entry = p.entry /\ x.copy = p.copy
      <4>1. p \in Requests /\ x = [p EXCEPT !.alone = FALSE, !.stale = w]
        BY <3>1
      <4> QED
        BY ONLY <3>2, <4>1, NotAlone
    <3>4. PutInformed(x)'
      BY <3>3 DEF PutInformed
    <3>5. Fresh(x)'
      BY <1>1, <1>2, <2>2, <3>1, <3>3 DEF Fresh
    <3>6. req'[t] = x
      <4>1. x = [p EXCEPT !.alone = FALSE,
                          !.stale = IF p.stage = "loaded" THEN @ \cup Missed(q) ELSE @]
        BY <3>1
      <4> QED
        BY <1>1, <2>2, <3>1, <4>1 DEF Written
    <3> QED
      BY <3>3, <3>4, <3>5, <3>6
  <2>3. CASE t # r /\ t \in Busy /\ req[t].entry # req[r].entry
    <3>1. PICK p : p = req[t] /\ p \in Requests /\ PutInformed(p) /\ Fresh(p)
      BY <2>3 DEF Busy, EntriesInv, EntriesType
    <3>2. p.entry \in Entries /\ p.entry # q.entry
      BY <1>1, <2>3, <3>1 DEF Requests, Request
    <3>3. PutInformed(p)' /\ Fresh(p)'
      BY <1>2, <3>1, <3>2 DEF PutInformed, Exists, Missing, Fresh
    <3> QED
      BY <2>3, <3>1, <3>3 DEF Written
  <2>4. CASE t # r /\ t \notin Busy
    BY <2>4 DEF Written, Busy
  <2> QED
    BY <2>1, <2>2, <2>3, <2>4
<1>4. req' \in [Reqs -> Requests \cup {Nothing}]
  BY <1>3 DEF Written
<1> QED
  BY <1>2, <1>3, <1>4 DEF EntriesInv, EntriesType, Busy

LEMMA EntriesStep ==
    ASSUME EntriesInv, NEW r \in Reqs,
           \/ Begin(r) \/ PutLoaded(r) \/ DelLoaded(r) \/ LoadFailed(r) \/ WriteAnswered(r)
           \/ ServeLoad(r) \/ ServeAdd(r) \/ LoadEntry(r) \/ SaveEntry(r)
           \/ EntryExists(r) \/ Refuse(r)
    PROVE  EntriesInv'
<1>1. CASE Begin(r)
  <2>1. PICK op \in {"put", "del"}, e \in Entries, f \in Fields, v \in Values \cup {None} :
            /\ (op = "put") <=> (v # None)
            /\ req' = [req EXCEPT ![r] =
                   [op |-> op, entry |-> e, field |-> f, value |-> v, at |-> "load",
                    stage |-> "sent", seen |-> NotLoaded, copy |-> Empty, stale |-> {},
                    alone |-> TRUE]]
    BY <1>1 DEF Begin
  <2>2. PICK x : x = [op |-> op, entry |-> e, field |-> f, value |-> v, at |-> "load",
                      stage |-> "sent", seen |-> NotLoaded, copy |-> Empty, stale |-> {},
                      alone |-> TRUE]
    OBVIOUS
  <2>3. NotLoaded \in Loaded /\ Empty \in Contents
    BY DEF NotLoaded, Loaded, Empty, Contents
  <2>4. x \in Requests
    BY <2>1, <2>2, <2>3 DEF Requests, Request, Sound
  <2>5. PutInformed(x) /\ Fresh(x)
    BY <2>2 DEF PutInformed, Fresh
  <2> QED
    BY <1>1, <2>1, <2>2, <2>4, <2>5, EntriesSlot DEF Begin
<1>2. ASSUME r \in Busy
      PROVE  r \in Busy /\ req[r] \in Requests /\ req[r] \in Request /\ Sound(req[r])
             /\ PutInformed(req[r]) /\ Fresh(req[r]) /\ EntriesType /\ req[r].entry \in Entries
  BY <1>2, BusyIs DEF EntriesInv, Requests, Request
<1>3. ASSUME Done(r), UNCHANGED entries PROVE EntriesInv'
  BY <1>3, EntriesSlot DEF Done
<1>4. CASE PutLoaded(r)
  <2>1. /\ r \in Busy /\ req[r].op = "put" /\ req[r].at = "load" /\ req[r].stage = "done"
        /\ UNCHANGED entries
    BY <1>4 DEF PutLoaded, Answered
  <2>2. PICK at \in {"add", "replace"} :
            Send(r, at) /\ (at = "add" => ~req[r].seen.exists)
    BY <1>4 DEF PutLoaded
  <2>3. PICK x \in Requests :
            /\ req' = [req EXCEPT ![r] = x]
            /\ x.at = at /\ x.stage = "sent" /\ x.op = "put" /\ x.entry = req[r].entry
            /\ x.alone = req[r].alone
    BY <1>2, <2>1, <2>2, SendIs
  <2>4. PutInformed(x) /\ Fresh(x)
    BY <1>2, <2>1, <2>2, <2>3, NotExisting DEF PutInformed, Fresh
  <2> QED
    BY <2>1, <2>3, <2>4, EntriesSlot
<1>5. CASE DelLoaded(r)
  <2>1. r \in Busy /\ req[r].op = "del" /\ UNCHANGED entries
    BY <1>5 DEF DelLoaded, Answered
  <2>2. CASE req[r].seen.value # None /\ SendDelete(r)
    <3>1. PICK x \in Requests : req' = [req EXCEPT ![r] = x] /\ x.op = "del" /\ x.stage = "sent"
      BY <1>2, <2>1, <2>2, SendDeleteIs
    <3> QED
      BY <2>1, <3>1, EntriesSlot DEF PutInformed, Fresh
  <2> QED
    BY <1>3, <1>5, <2>1, <2>2 DEF DelLoaded
<1>6. CASE LoadFailed(r)
  <2>1. /\ r \in Busy /\ req[r].at = "load" /\ req[r].stage = "refused" /\ UNCHANGED entries
    BY <1>6 DEF LoadFailed, Answered
  <2>2. CASE req[r].op = "put" /\ Send(r, "add")
    <3>1. PICK x \in Requests :
              /\ req' = [req EXCEPT ![r] = x] /\ x.op = "put" /\ x.stage = "sent"
              /\ x.alone = req[r].alone
      BY <1>2, <2>1, <2>2, SendIs
    <3>2. ~x.alone
      BY <1>2, <2>1, <2>2, <3>1 DEF PutInformed
    <3> QED
      BY <2>1, <3>1, <3>2, EntriesSlot DEF PutInformed, Fresh
  <2> QED
    BY <1>3, <1>6, <2>1, <2>2 DEF LoadFailed
<1>7. CASE WriteAnswered(r)
  BY <1>3, <1>7 DEF WriteAnswered
<1>8. CASE ServeLoad(r)
  <2>1. PICK q, l : q = req[r] /\ l = Load(r)
    OBVIOUS
  <2>2. /\ r \in Busy /\ q.at = "load" /\ UNCHANGED entries
        /\ req' = [req EXCEPT ![r].stage = "done", ![r].seen = l]
    BY <1>8, <2>1 DEF ServeLoad, Answered
  <2>3. q \in Requests /\ q.entry \in Entries /\ q.field \in Fields
    BY <1>2, <2>1, <2>2 DEF Request
  <2>4. l \in Loaded /\ (q.op = "put" => (l.exists <=> Exists(q.entry)))
    <3>1. NotLoaded \in Loaded
      BY DEF NotLoaded, Loaded
    <3>2. CASE q.op = "put"
      <4>1. PICK b \in BOOLEAN : b = Exists(q.entry)
        BY DEF Exists
      <4>2. l = [NotLoaded EXCEPT !.exists = b]
        BY <2>1, <3>2, <4>1 DEF Load, Exists
      <4> QED
        BY <3>1, <4>1, <4>2 DEF Loaded
    <3>3. CASE q.op # "put"
      <4>1. PICK v : v = IF entries[q.entry] = Absent THEN None ELSE entries[q.entry][q.field]
        OBVIOUS
      <4>2. v \in Values \cup {None}
        BY <1>2, <2>2, <2>3, <4>1 DEF EntriesType, Contents
      <4>3. l = [NotLoaded EXCEPT !.value = v]
        BY <2>1, <3>3, <4>1 DEF Load
      <4> QED
        BY <3>1, <3>3, <4>2, <4>3 DEF Loaded
    <3> QED
      BY <3>2, <3>3
  <2>5. PICK y, x : y = [q EXCEPT !.stage = "done"] /\ x = [y EXCEPT !.seen = l]
    OBVIOUS
  <2>6. /\ y \in Requests /\ y.stage = "done" /\ y.op = q.op /\ y.entry = q.entry
        /\ y.value = q.value /\ y.at = q.at
    BY <2>3, <2>5, StageIs
  <2>7. /\ x \in Request /\ x.stage = "done" /\ x.op = y.op /\ x.entry = y.entry
        /\ x.value = y.value /\ x.at = y.at /\ x.seen = l
    BY <2>4, <2>5, <2>6 DEF Requests, Request
  <2>8. x \in Requests
    BY <2>2, <2>6, <2>7 DEF Requests, Sound
  <2>9. PutInformed(x) /\ Fresh(x)
    BY <2>2, <2>4, <2>6, <2>7 DEF PutInformed, Fresh
  <2>10. req' = [req EXCEPT ![r] = x]
    BY <1>2, <2>1, <2>2, <2>5 DEF EntriesType
  <2> QED
    BY <2>2, <2>8, <2>9, <2>10, EntriesSlot
<1>9. CASE ServeAdd(r)
  <2>1. /\ r \in Busy /\ req[r].at = "add" /\ req' = Written(r)
        /\ entries[req[r].entry] = Absent
        /\ entries' = [entries EXCEPT ![req[r].entry] =
                          [Empty EXCEPT ![req[r].field] = req[r].value]]
    BY <1>9 DEF ServeAdd, Answered
  <2>2. [Empty EXCEPT ![req[r].field] = req[r].value] \in Contents
    BY <1>2, <2>1 DEF Request, Empty, Contents
  <2> QED
    BY <2>1, <2>2, WriteKeeps
<1>13. CASE LoadEntry(r)
  <2>1. PICK q, y, x : /\ q = req[r] /\ y = [q EXCEPT !.stage = "loaded"]
                       /\ x = [y EXCEPT !.copy = entries[q.entry]]
    OBVIOUS
  <2>2. /\ r \in Busy /\ q.at \in {"replace", "delete"} /\ q.stage = "sent"
        /\ entries[q.entry] # Absent /\ UNCHANGED entries
    BY <1>13, <2>1 DEF LoadEntry, Answered
  <2>3. /\ q \in Request /\ Sound(q) /\ PutInformed(q) /\ entries[q.entry] \in Contents
        /\ req' = [req EXCEPT ![r] = x]
    BY <1>2, <1>13, <2>1, <2>2 DEF LoadEntry, EntriesType
  <2>4. /\ y \in Request /\ y.stage = "loaded" /\ y.op = q.op /\ y.entry = q.entry
        /\ y.value = q.value /\ y.at = q.at /\ y.seen = q.seen
    BY <2>1, <2>3 DEF Request
  <2>5. /\ x \in Request /\ x.stage = "loaded" /\ x.op = q.op /\ x.entry = q.entry
        /\ x.value = q.value /\ x.at = q.at /\ x.seen = q.seen /\ x.copy = entries[q.entry]
    BY <2>1, <2>3, <2>4 DEF Request
  <2>6. x \in Requests
    BY <2>2, <2>3, <2>5 DEF Requests, Sound
  <2>7. PutInformed(x) /\ Fresh(x)
    BY <2>2, <2>5 DEF PutInformed, Fresh
  <2> QED
    BY <2>2, <2>3, <2>6, <2>7, EntriesSlot
<1>10. CASE SaveEntry(r)
  <2>1. PICK q, v : /\ q = req[r]
                    /\ v = IF q.at = "replace" THEN q.value
                            ELSE IF q.copy[q.field] = q.value THEN None ELSE q.copy[q.field]
    OBVIOUS
  <2>2. /\ r \in Busy /\ q.at # "load" /\ q.stage = "loaded" /\ req' = Written(r)
        /\ entries' = [entries EXCEPT ![q.entry] = Modified(q)]
    BY <1>10, <2>1 DEF SaveEntry, Answered
  <2>3. q \in Request /\ Fresh(q) /\ q.copy \in Contents /\ q.field \in Fields
    BY <1>2, <2>1, <2>2 DEF Request
  <2>4. v \in Values \cup {None}
    BY <2>1, <2>3 DEF Request, Contents
  <2>5. PICK c : c = [q.copy EXCEPT ![q.field] = v]
    OBVIOUS
  <2>6. c = Modified(q)
    BY <2>1, <2>5 DEF Modified
  <2>7. c \in Contents
    BY <2>3, <2>4, <2>5 DEF Contents
  <2>8. \A f \in Fields \ Missed(q) : c[f] = entries[q.entry][f]
    BY <2>2, <2>3, <2>5 DEF Missed, Fresh, Contents
  <2> QED
    BY <2>1, <2>2, <2>6, <2>7, <2>8, WriteKeeps
<1>11. CASE EntryExists(r)
  <2>1. PICK q, x : q = req[r] /\ x = [q EXCEPT !.stage = "refused"]
    OBVIOUS
  <2>2. /\ r \in Busy /\ q.at = "add" /\ q.stage = "sent" /\ entries[q.entry] # Absent
        /\ UNCHANGED entries /\ req' = [req EXCEPT ![r] = x]
    BY <1>11, <2>1 DEF EntryExists, Answered
  <2>3. /\ x \in Requests /\ x.stage = "refused" /\ x.op = q.op /\ x.entry = q.entry
        /\ x.at = q.at /\ x.alone = q.alone
    <3>1. q \in Requests
      BY <1>2, <2>1, <2>2
    <3>2. x = [q EXCEPT !.stage = "refused"]
      BY <2>1
    <3> QED
      BY ONLY <3>1, <3>2, StageIs
  <2>4. PutInformed(x) /\ Fresh(x)
    BY <1>2, <2>1, <2>2, <2>3 DEF PutInformed, Missing, Fresh
  <2> QED
    BY <2>2, <2>3, <2>4, EntriesSlot
<1>12. CASE Refuse(r)
  <2>1. PICK q, y, x : /\ q = req[r]
                       /\ y = [q EXCEPT !.stage = "refused", !.copy = Empty, !.stale = {}]
                       /\ x = [y EXCEPT !.alone = FALSE]
    OBVIOUS
  <2>2. r \in Busy /\ UNCHANGED entries /\ req' = [req EXCEPT ![r] = x]
    BY <1>2, <1>12, <2>1 DEF Refuse, EntriesType
  <2>3. q \in Requests
    BY <1>2, <2>1, <2>2
  <2>4. y \in Requests /\ y.stage = "refused"
    BY ONLY <2>1, <2>3, EndIs
  <2>5. x \in Request /\ x.alone = FALSE /\ x.stage = "refused" /\ x.op = y.op /\ x.at = y.at
        /\ x.value = y.value /\ x.seen = y.seen
    BY <2>1, <2>4 DEF Requests, Request
  <2>6. x \in Requests
    BY <2>4, <2>5 DEF Requests, Sound
  <2> QED
    BY <2>2, <2>5, <2>6, EntriesSlot DEF PutInformed, Fresh
<1> QED
  BY <1>1, <1>4, <1>5, <1>6, <1>7, <1>8, <1>9, <1>10, <1>11, <1>12, <1>13

LEMMA EntriesInitially == Init => EntriesInv
BY DEF Init, EntriesInv, EntriesType, Busy, Absent

LEMMA EntriesNextStep ==
    ASSUME EntriesInv, [Next]_vars
    PROVE  EntriesInv'
<1>1. CASE EntriesNext
  BY <1>1, EntriesStep DEF EntriesNext
<1>2. CASE UNCHANGED entryVars
  <2>1. \A q : /\ PutInformed(q)' <=> PutInformed(q)
              /\ Fresh(q)' <=> Fresh(q)
    BY <1>2 DEF PutInformed, Exists, Missing, Fresh, entryVars
  <2> QED
    BY <1>2, <2>1 DEF EntriesInv, EntriesType, Busy, entryVars
<1> QED
  BY <1>1, <1>2 DEF Next, KeysNext, vars

LEMMA EntriesAlways == Spec => []EntriesInv
BY EntriesInitially, EntriesNextStep, PTL DEF Spec

(* A put that nobody disturbs and nothing fails under is refused only for   *)
(* the limit entry whose last dataset was deleted: put of                  *)
(* src/capi/limits.js and src/capi/metadata.js.                            *)
THEOREM PutAloneHolds == Spec => []PutAloneSucceeds
<1>1. EntriesInv => PutAloneSucceeds
  BY DEF EntriesInv, PutInformed, PutAloneSucceeds
<1> QED
  BY <1>1, EntriesAlways, PTL

-----------------------------------------------------------------------------
(* No value goes but by the delete of what was read.                       *)
LEMMA GoneByDelete ==
    ASSUME EntriesInv, [Next]_vars,
           NEW e \in Entries, NEW f \in Fields,
           entries[e] # Absent, entries[e][f] # None, entries'[e][f] = None
    PROVE  \E r \in Busy :
              /\ req[r].entry = e
              /\ \/ req[r].stage = "loaded" /\ f \in req[r].stale
                 \/ /\ req[r].op = "del" /\ req[r].field = f
                    /\ req[r].seen.value # None
                    /\ entries[e][f] \in {req[r].seen.value, Parsed[req[r].seen.value]}
<1>1. PICK r \in Busy : ServeAdd(r) \/ SaveEntry(r)
  <2>1. CASE entries' = entries
    BY <2>1
  <2>2. CASE entries' # entries
    BY <2>2 DEF Next, EntriesNext, KeysNext, entryVars, vars, Begin, PutLoaded, DelLoaded,
       LoadFailed, WriteAnswered, ServeLoad, LoadEntry, EntryExists, Refuse, ServeAdd,
       SaveEntry, Answered
  <2> QED
    BY <2>1, <2>2
<1>2. PICK q : q = req[r]
  OBVIOUS
<1>3. /\ q \in Request /\ Sound(q) /\ q.entry \in Entries /\ q.field \in Fields /\ Fresh(q)
      /\ entries \in [Entries -> Contents \cup {Absent}]
  BY <1>2, BusyIs DEF EntriesInv, EntriesType, Request
<1>4. entries[e] \in Contents
  BY <1>3
<1>5. CASE ServeAdd(r)
  <2>1. entries[q.entry] = Absent /\ \A d \in Entries : d # q.entry => entries'[d] = entries[d]
    BY <1>2, <1>3, <1>5 DEF ServeAdd
  <2> QED
    BY <2>1
<1>6. CASE SaveEntry(r)
  <2>1. q.stage = "loaded" /\ q.at \in {"replace", "delete"} /\ q.copy \in Contents
    BY <1>2, <1>3, <1>6 DEF SaveEntry, Answered, Request
  <2>2. \A d \in Entries : entries'[d] = IF d = q.entry THEN Modified(q) ELSE entries[d]
    BY <1>2, <1>3, <1>6 DEF SaveEntry
  <2>3. e = q.entry /\ Modified(q)[f] = None
    BY <2>2
  <2>4. CASE f \in q.stale
    BY <1>2, <2>1, <2>3, <2>4
  <2>5. CASE f \notin q.stale
    <3>1. q.copy[f] = entries[e][f] /\ q.copy[f] # None
      BY <1>3, <2>1, <2>3, <2>5 DEF Fresh
    <3>2. f = q.field /\ (q.at = "replace" => q.value = None) /\ (q.at = "delete" => q.copy[f] = q.value)
      BY <1>3, <2>1, <2>3, <3>1 DEF Modified, Contents
    <3>3. q.op = "del" /\ q.at = "delete"
      BY <1>3, <2>1, <3>2 DEF Sound, Request
    <3> QED
      BY <1>2, <1>3, <2>3, <3>1, <3>2, <3>3 DEF Sound
  <2> QED
    BY <2>4, <2>5
<1> QED
  BY <1>1, <1>5, <1>6

(* A value disappears only when it is overwritten, by a del that has itself *)
(* loaded it, or by a modify that UFDS had loaded the entry for before it   *)
(* was written: the change of del names the value to delete (del of         *)
(* src/capi/limits.js and src/capi/metadata.js), and UFDS saves all of what *)
(* it has loaded (load, change and save of src/lib/db/mod.js).      *)
THEOREM DeletesWhatItSawHolds == Spec => DeletesWhatItSaw
<1>1. EntriesInv /\ [Next]_vars =>
        [\A e \in Entries, f \in Fields :
            (entries[e] # Absent /\ entries[e][f] # None /\ entries'[e][f] = None) =>
                \E r \in Busy :
                    /\ req[r].entry = e
                    /\ \/ req[r].stage = "loaded" /\ f \in req[r].stale
                       \/ /\ req[r].op = "del" /\ req[r].field = f
                          /\ req[r].seen.value # None
                          /\ entries[e][f] \in {req[r].seen.value, Parsed[req[r].seen.value]}]_vars
  BY GoneByDelete
<1> QED
  BY <1>1, EntriesAlways, PTL DEF Spec, DeletesWhatItSaw

-----------------------------------------------------------------------------
(* The cache.  What it holds, and what is on its way to it, was to be found *)
(* not long ago, and is still what there is unless something has changed   *)
(* since.                                                                  *)
KeysType ==
    /\ keys \in [Owners -> SUBSET Keys]
    /\ existing \subseteq Members
    /\ \A u \in Users : keys[u] # {} => Parent[u] \in existing
    /\ admins \subseteq Members

FoundType ==
    /\ cache \in [Asked -> Answer \cup {None}]
    /\ searches \in [Searches -> Answer \cup {None}]
    /\ since \in [Asked -> [Members \cup Keys -> 0 .. Cap]]
    /\ calm \in 0 .. Cap

Known(x, result, n) ==
    /\ result \subseteq Findable(x)
    /\ \A e \in result : since[x][e] <= n
    /\ result # Present(x) \/ (x \in Members /\ x \notin existing) => calm <= n

CacheRight(x) ==
    cache[x] # None =>
        /\ cache[x].of = x /\ cache[x].age < Expiry
        /\ Known(x, cache[x].result, Timeout + cache[x].age)

SearchRight(s) ==
    searches[s] # None =>
        /\ searches[s].age <= Timeout
        /\ Known(searches[s].of, searches[s].result, searches[s].age)

SinceRight == \A x \in Asked : \A e \in Present(x) : since[x][e] = 0

FoundInv ==
    /\ KeysType /\ FoundType /\ SinceRight
    /\ \A x \in Asked : CacheRight(x)
    /\ \A s \in Searches : SearchRight(s)

LEMMA CapIs == Cap \in Nat /\ Timeout \in Nat /\ Expiry \in Nat /\ Expiry > 0 /\ Cap = Expiry + Timeout
BY TimeAssumption DEF Cap

LEMMA PresentIs ==
    ASSUME KeysType, NEW x \in Asked
    PROVE  /\ Present(x) \subseteq Findable(x) /\ Findable(x) \subseteq Members \cup Keys
           /\ x # Role => x \in {Account} \cup Members /\ x \in Owners /\ Present(x) = keys[x]
           /\ x = Role => Present(x) = admins
BY DEF KeysType, Asked, Present, Findable, Owners

LEMMA KnownLonger ==
    ASSUME FoundType, NEW x \in Asked, NEW result, NEW m \in Nat, NEW n \in Nat, m <= n,
           Known(x, result, m)
    PROVE  Known(x, result, n)
<1>1. Findable(x) \subseteq Members \cup Keys
  BY DEF Findable
<1>2. \A e \in result : since[x][e] \in Nat /\ since[x][e] <= m
  BY <1>1, CapIs DEF Known, FoundType
<1>3. calm \in Nat
  BY CapIs DEF FoundType
<1> QED
  BY <1>2, <1>3 DEF Known

(* A change is one that everything known has lived through.                *)
LEMMA ChangeKnown ==
    ASSUME FoundType, Change, NEW x \in Asked, NEW result, NEW n \in Nat, Known(x, result, n)
    PROVE  Known(x, result, n)'
<1>1. Findable(x) \subseteq Members \cup Keys
  BY DEF Findable
<1>2. \A e \in Members \cup Keys :
        since'[x][e] = IF e \in Present(x)' THEN 0 ELSE since[x][e]
  BY DEF Change
<1>3. \A e \in result : since'[x][e] <= n
  BY <1>1, <1>2 DEF Known
<1>4. calm' = 0
  BY DEF Change
<1> QED
  BY <1>3, <1>4 DEF Known, Findable

LEMMA TickKnown ==
    ASSUME FoundType, Tick, UNCHANGED keyVars, NEW x \in Asked, NEW result, NEW n \in Nat,
           Known(x, result, n)
    PROVE  Known(x, result, n + 1)'
<1>1. Findable(x) \subseteq Members \cup Keys
  BY DEF Findable
<1>2. \A e \in Members \cup Keys :
        /\ since[x][e] \in 0 .. Cap
        /\ since'[x][e] = IF e \in Present(x) THEN 0
                          ELSE IF since[x][e] < Cap THEN since[x][e] + 1 ELSE Cap
  BY DEF Tick, FoundType
<1>3. \A e \in result : since'[x][e] <= n + 1
  <2>1. SUFFICES ASSUME NEW e \in result PROVE since'[x][e] <= n + 1
    OBVIOUS
  <2>2. e \in Members \cup Keys /\ since[x][e] <= n
    BY <1>1 DEF Known
  <2> QED
    BY <1>2, <2>2, CapIs
<1>4. calm \in 0 .. Cap /\ calm' = IF calm < Cap THEN calm + 1 ELSE Cap
  BY DEF Tick, FoundType
<1>5. Present(x)' = Present(x) /\ existing' = existing
  BY DEF Present, keyVars
<1>6. calm <= n => calm' <= n + 1
  BY <1>4, CapIs
<1> QED
  BY <1>3, <1>5, <1>6 DEF Known, Findable

LEMMA ChangeType ==
    ASSUME FoundInv, Change, UNCHANGED foundVars, KeysType'
    PROVE  FoundInv'
<1>1. FoundType'
  <2>1. cache' = cache /\ searches' = searches /\ calm' = 0
    BY DEF Change, foundVars
  <2>2. since' \in [Asked -> [Members \cup Keys -> 0 .. Cap]]
    <3>1. ASSUME NEW x \in Asked, NEW e \in Members \cup Keys
          PROVE  (IF e \in Present(x)' THEN 0 ELSE since[x][e]) \in 0 .. Cap
      BY CapIs DEF FoundInv, FoundType
    <3> QED
      BY <3>1 DEF Change
  <2>3. calm' \in 0 .. Cap
    BY <2>1, CapIs
  <2> QED
    BY <2>1, <2>2, <2>3 DEF FoundInv, FoundType
<1>2. SinceRight'
  <2>1. SUFFICES ASSUME NEW x \in Asked, NEW e \in Present(x)' PROVE since'[x][e] = 0
    BY DEF SinceRight
  <2>2. e \in Members \cup Keys
    BY DEF KeysType, Asked, Present, Owners
  <2> QED
    BY <2>1, <2>2 DEF Change
<1>3. ASSUME NEW x \in Asked PROVE CacheRight(x)'
  <2>1. CASE cache[x] # None
    <3>1. PICK result, n : result = cache[x].result /\ n = Timeout + cache[x].age
      OBVIOUS
    <3>2. n \in Nat /\ Known(x, result, n)
      BY <2>1, <3>1, CapIs DEF FoundInv, FoundType, Answer, CacheRight
    <3>3. Known(x, result, n)'
      BY <3>2, ChangeKnown DEF FoundInv
    <3> QED
      BY <2>1, <3>1, <3>3 DEF CacheRight, Known, foundVars, FoundInv
  <2> QED
    BY <2>1 DEF CacheRight, foundVars
<1>4. ASSUME NEW s \in Searches PROVE SearchRight(s)'
  <2>1. CASE searches[s] # None
    <3>1. PICK x, result, n : /\ x = searches[s].of /\ result = searches[s].result
                              /\ n = searches[s].age
      OBVIOUS
    <3>2. x \in Asked /\ n \in Nat /\ Known(x, result, n)
      BY <2>1, <3>1, CapIs DEF FoundInv, FoundType, Answer, SearchRight
    <3>3. Known(x, result, n)'
      BY <3>2, ChangeKnown DEF FoundInv
    <3> QED
      BY <2>1, <3>1, <3>3 DEF SearchRight, Known, foundVars, FoundInv
  <2> QED
    BY <2>1 DEF SearchRight, foundVars
<1> QED
  BY <1>1, <1>2, <1>3, <1>4 DEF FoundInv

(* A change of the keys, the members or the list is seen by the bookkeeping. *)
LEMMA KeysChange ==
    ASSUME FoundInv, UNCHANGED foundVars,
           \/ \E o \in Owners, k \in Keys : PostKey(o, k) \/ DelKey(o, k)
           \/ \E m \in Members : SetAdmin(m) \/ DelMember(m)
    PROVE  FoundInv'
<1>1. Change
  BY DEF PostKey, DelKey, SetAdmin, DelMember
<1>2. CASE \E o \in Owners, k \in Keys : PostKey(o, k)
  <2>1. PICK o \in Owners, k \in Keys : PostKey(o, k)
    BY <1>2
  <2>2. /\ keys' = [keys EXCEPT ![o] = @ \cup {k}] /\ existing' = existing /\ admins' = admins
        /\ o \in Users => Parent[o] \in existing
    BY <2>1 DEF PostKey
  <2>3. \A u \in Users : u \in Owners /\ (u # o => keys'[u] = keys[u])
    BY <2>2 DEF FoundInv, KeysType, Owners
  <2>4. KeysType'
    BY <2>2, <2>3 DEF FoundInv, KeysType
  <2> QED
    BY <1>1, <2>4, ChangeType
<1>3. CASE \E o \in Owners, k \in Keys : DelKey(o, k)
  <2>1. PICK o \in Owners, k \in Keys : DelKey(o, k)
    BY <1>3
  <2>2. keys' = [keys EXCEPT ![o] = @ \ {k}] /\ existing' = existing /\ admins' = admins
    BY <2>1 DEF DelKey
  <2>3. \A u \in Users : keys'[u] \subseteq keys[u]
    BY <2>2 DEF FoundInv, KeysType, Owners
  <2>4. KeysType'
    BY <2>2, <2>3 DEF FoundInv, KeysType
  <2> QED
    BY <1>1, <2>4, ChangeType
<1>4. CASE \E m \in Members : SetAdmin(m)
  <2>1. KeysType'
    BY <1>4 DEF SetAdmin, FoundInv, KeysType
  <2> QED
    BY <1>1, <2>1, ChangeType
<1>5. CASE \E m \in Members : DelMember(m)
  <2>1. KeysType'
    BY <1>5 DEF DelMember, FoundInv, KeysType
  <2> QED
    BY <1>1, <2>1, ChangeType
<1> QED
  BY <1>2, <1>3, <1>4, <1>5

(* A step of the searches: what they find is so when UFDS evaluates it.    *)
LEMMA SearchesStep ==
    ASSUME FoundInv, UNCHANGED <<keyVars, timeVars>>,
           \/ \E s \in Searches : (\E x \in Asked : Search(s, x)) \/ Found(s) \/ SearchFailed(s)
           \/ \E x \in Asked : Forget(x)
    PROVE  FoundInv'
<1>1. /\ UNCHANGED keys /\ UNCHANGED existing /\ UNCHANGED admins
      /\ UNCHANGED since /\ UNCHANGED calm
  BY DEF keyVars, timeVars
<1>2. KeysType' /\ SinceRight'
  BY <1>1 DEF FoundInv, KeysType, SinceRight, Present
<1>3. \A x, result, n : Known(x, result, n) <=> Known(x, result, n)'
  BY <1>1 DEF Known, Findable, Present
<1>4. ASSUME UNCHANGED cache PROVE \A x \in Asked : CacheRight(x)'
  BY <1>1, <1>4 DEF FoundInv, CacheRight, Known, Findable, Present
<1>5. ASSUME NEW s \in Searches, searches'[s] = None \/ searches'[s] = searches[s]
      PROVE  SearchRight(s)'
  BY <1>1, <1>5 DEF FoundInv, SearchRight, Known, Findable, Present
<1>6. ASSUME NEW s \in Searches, NEW x \in Asked, Search(s, x) PROVE FoundInv'
  <2>1. PICK result, a : /\ result = Present(x)
                         /\ a = [of |-> x, result |-> result, age |-> 0]
    OBVIOUS
  <2>2. /\ UNCHANGED cache /\ (x \in Members => x \in existing)
        /\ searches' = [searches EXCEPT ![s] = a]
    BY <1>6, <2>1 DEF Search, Present, KeysOf
  <2>3. result \subseteq Findable(x) /\ result \subseteq Members \cup Keys
    BY <2>1, PresentIs DEF FoundInv
  <2>4. a \in Answer
    BY <2>1, <2>3, CapIs DEF Answer
  <2>5. \A t \in Searches : searches'[t] = IF t = s THEN a ELSE searches[t]
    BY <2>2 DEF FoundInv, FoundType
  <2>6. FoundType'
    BY <1>1, <2>2, <2>4 DEF FoundInv, FoundType
  <2>7. Known(x, result, 0)
    BY <2>1, <2>2, <2>3 DEF Known, FoundInv, SinceRight
  <2>8. SearchRight(s)'
    BY <1>1, <2>1, <2>5, <2>7, CapIs DEF SearchRight, Known, Findable, Present
  <2> QED
    BY <1>2, <1>4, <1>5, <2>2, <2>5, <2>6, <2>8 DEF FoundInv
<1>7. ASSUME NEW s \in Searches, Found(s) PROVE FoundInv'
  <2>1. PICK a, b : a = searches[s] /\ b = [a EXCEPT !.age = 0]
    OBVIOUS
  <2>2. /\ a # None /\ cache' = [cache EXCEPT ![a.of] = b]
        /\ searches' = [searches EXCEPT ![s] = None]
    BY <1>7, <2>1 DEF Found
  <2>3. /\ a \in Answer /\ a.of \in Asked /\ a.age \in Nat /\ a.age <= Timeout
        /\ Known(a.of, a.result, a.age)
    BY <2>1, <2>2, CapIs DEF FoundInv, FoundType, SearchRight, Answer
  <2>4. b \in Answer /\ b.of = a.of /\ b.result = a.result /\ b.age = 0
    BY <2>1, <2>3, CapIs DEF Answer
  <2>5. \A x \in Asked : cache'[x] = IF x = a.of THEN b ELSE cache[x]
    BY <2>2 DEF FoundInv, FoundType
  <2>6. FoundType'
    BY <1>1, <2>2, <2>4 DEF FoundInv, FoundType
  <2>7. \A t \in Searches : SearchRight(t)'
    <3>1. \A t \in Searches : searches'[t] = None \/ searches'[t] = searches[t]
      BY <2>2 DEF FoundInv, FoundType
    <3> QED
      BY <1>5, <3>1
  <2>8. ASSUME NEW x \in Asked PROVE CacheRight(x)'
    <3>1. CASE x = a.of
      <4>1. PICK result, n : result = a.result /\ n = a.age
        OBVIOUS
      <4>2. Known(x, result, Timeout)
        BY <2>3, <3>1, <4>1, CapIs, KnownLonger DEF FoundInv
      <4>3. Timeout + 0 = Timeout /\ 0 < Expiry
        BY CapIs
      <4> QED
        BY <1>1, <2>4, <2>5, <3>1, <4>1, <4>2, <4>3 DEF CacheRight, Known, Findable, Present
    <3>2. CASE x # a.of
      BY <1>1, <2>5, <3>2 DEF FoundInv, CacheRight, Known, Findable, Present
    <3> QED
      BY <3>1, <3>2
  <2> QED
    BY <1>2, <2>6, <2>7, <2>8 DEF FoundInv
<1>8. ASSUME NEW s \in Searches, SearchFailed(s) PROVE FoundInv'
  <2>1. UNCHANGED cache /\ searches' = [searches EXCEPT ![s] = None]
    BY <1>8 DEF SearchFailed
  <2>2. \A t \in Searches : searches'[t] = None \/ searches'[t] = searches[t]
    BY <2>1 DEF FoundInv, FoundType
  <2>3. FoundType'
    BY <1>1, <2>1 DEF FoundInv, FoundType
  <2> QED
    BY <1>2, <1>4, <1>5, <2>1, <2>2, <2>3 DEF FoundInv
<1>9. ASSUME NEW x \in Asked, Forget(x) PROVE FoundInv'
  <2>1. UNCHANGED searches /\ cache' = [cache EXCEPT ![x] = None]
    BY <1>9 DEF Forget
  <2>2. \A y \in Asked : cache'[y] = None \/ cache'[y] = cache[y]
    BY <2>1 DEF FoundInv, FoundType
  <2>3. FoundType'
    BY <1>1, <2>1 DEF FoundInv, FoundType
  <2>4. \A y \in Asked : CacheRight(y)'
    BY <1>1, <2>2 DEF FoundInv, CacheRight, Known, Findable, Present
  <2> QED
    BY <1>2, <1>5, <2>1, <2>3, <2>4 DEF FoundInv
<1> QED
  BY <1>6, <1>7, <1>8, <1>9

(* Time passes: what is known is one tick older.                           *)
LEMMA TickFound ==
    ASSUME FoundInv, Tick, UNCHANGED keyVars
    PROVE  FoundInv'
<1>1. UNCHANGED keys /\ UNCHANGED existing /\ UNCHANGED admins
  BY DEF keyVars
<1>2. \A x \in Asked : cache'[x] = Older(cache[x])
  BY DEF Tick
<1>3. \A s \in Searches :
        /\ searches'[s] = IF searches[s] = None THEN None
                          ELSE [searches[s] EXCEPT !.age = @ + 1]
        /\ searches[s] # None => searches[s].age < Timeout
  BY DEF Tick
<1>4. ASSUME NEW x \in Asked
      PROVE  cache'[x] \in Answer \cup {None} /\ CacheRight(x)'
  <2>1. CASE cache[x] # None /\ cache[x].age + 1 # Expiry
    <3>1. PICK a, n, b : a = cache[x] /\ n = Timeout + a.age /\ b = [a EXCEPT !.age = @ + 1]
      OBVIOUS
    <3>2. /\ a \in Answer /\ a.of = x /\ a.age \in Nat /\ a.age < Expiry /\ n \in Nat
          /\ Known(x, a.result, n)
      BY <2>1, <3>1, CapIs DEF FoundInv, FoundType, CacheRight, Answer
    <3>3. /\ b \in Answer /\ b.of = x /\ b.age = a.age + 1 /\ b.age < Expiry
          /\ b.result = a.result /\ Timeout + b.age = n + 1
      BY <2>1, <3>1, <3>2, CapIs DEF Answer
    <3>4. cache'[x] = b
      BY <1>2, <2>1, <3>1 DEF Older
    <3>5. PICK result : result = a.result
      OBVIOUS
    <3>6. Known(x, result, n + 1)'
      BY <3>2, <3>5, TickKnown DEF FoundInv
    <3> QED
      BY <3>3, <3>4, <3>5, <3>6 DEF CacheRight, Known
  <2>2. CASE cache[x] = None \/ cache[x].age + 1 = Expiry
    BY <1>2, <2>2 DEF Older, CacheRight
  <2> QED
    BY <2>1, <2>2
<1>5. ASSUME NEW s \in Searches
      PROVE  searches'[s] \in Answer \cup {None} /\ SearchRight(s)'
  <2>1. CASE searches[s] # None
    <3>1. PICK a, n, b : a = searches[s] /\ n = a.age /\ b = [a EXCEPT !.age = @ + 1]
      OBVIOUS
    <3>2. /\ a \in Answer /\ a.of \in Asked /\ a.age \in Nat /\ a.age < Timeout /\ n \in Nat
          /\ Known(a.of, a.result, n)
      BY <1>3, <2>1, <3>1, CapIs DEF FoundInv, FoundType, SearchRight, Answer
    <3>3. b \in Answer /\ b.of = a.of /\ b.age = n + 1 /\ b.age <= Timeout /\ b.result = a.result
      BY <3>1, <3>2, CapIs DEF Answer
    <3>4. searches'[s] = b
      BY <1>3, <2>1, <3>1
    <3>5. PICK x, result : x = a.of /\ result = a.result
      OBVIOUS
    <3>6. Known(x, result, n + 1)'
      BY <3>2, <3>5, TickKnown DEF FoundInv
    <3> QED
      BY <3>3, <3>4, <3>5, <3>6 DEF SearchRight, Known
  <2>2. CASE searches[s] = None
    BY <1>3, <2>2 DEF SearchRight
  <2> QED
    BY <2>1, <2>2
<1>6. KeysType'
  BY <1>1 DEF FoundInv, KeysType
<1>7. FoundType'
  <2>1. cache' \in [Asked -> Answer \cup {None}]
    BY <1>4 DEF Tick
  <2>2. searches' \in [Searches -> Answer \cup {None}]
    BY <1>5 DEF Tick
  <2>3. since' \in [Asked -> [Members \cup Keys -> 0 .. Cap]]
    <3>1. ASSUME NEW x \in Asked, NEW e \in Members \cup Keys
          PROVE  (IF e \in Present(x) THEN 0
                  ELSE IF since[x][e] < Cap THEN since[x][e] + 1 ELSE Cap) \in 0 .. Cap
      <4>1. since[x][e] \in 0 .. Cap
        BY DEF FoundInv, FoundType
      <4> QED
        BY <4>1, CapIs
    <3> QED
      BY <3>1 DEF Tick
  <2>4. calm' \in 0 .. Cap
    BY CapIs DEF Tick, FoundInv, FoundType
  <2> QED
    BY <2>1, <2>2, <2>3, <2>4 DEF FoundType
<1>8. SinceRight'
  <2>1. SUFFICES ASSUME NEW x \in Asked, NEW e \in Present(x) PROVE since'[x][e] = 0
    BY <1>1 DEF SinceRight, Present
  <2>2. e \in Members \cup Keys
    BY PresentIs DEF FoundInv
  <2> QED
    BY <2>2 DEF Tick
<1> QED
  BY <1>4, <1>5, <1>6, <1>7, <1>8 DEF FoundInv

LEMMA FoundStep ==
    ASSUME FoundInv, [Next]_vars
    PROVE  FoundInv'
<1>1. CASE UNCHANGED <<keyVars, foundVars, timeVars>>
  <2>1. /\ UNCHANGED keys /\ UNCHANGED existing /\ UNCHANGED admins /\ UNCHANGED cache
        /\ UNCHANGED searches /\ UNCHANGED since /\ UNCHANGED calm
    BY <1>1 DEF keyVars, foundVars, timeVars
  <2> QED
    BY <2>1 DEF FoundInv, KeysType, FoundType, SinceRight, CacheRight, SearchRight, Known,
                Present, Findable
<1>2. CASE /\ UNCHANGED foundVars
           /\ \/ \E o \in Owners, k \in Keys : PostKey(o, k) \/ DelKey(o, k)
              \/ \E m \in Members : SetAdmin(m) \/ DelMember(m)
  BY <1>2, KeysChange
<1>3. CASE /\ UNCHANGED <<keyVars, timeVars>>
           /\ \/ \E s \in Searches : (\E x \in Asked : Search(s, x)) \/ Found(s) \/ SearchFailed(s)
              \/ \E x \in Asked : Forget(x)
  BY <1>3, SearchesStep
<1>4. CASE Tick /\ UNCHANGED keyVars
  BY <1>4, TickFound
<1> QED
  BY <1>1, <1>2, <1>3, <1>4 DEF Next, EntriesNext, KeysNext, vars

LEMMA FoundInitially == Init => FoundInv
<1>1. Init => KeysType /\ FoundType
  BY CapIs DEF Init, KeysType, FoundType, Owners
<1>2. Init => SinceRight
  BY DEF Init, SinceRight, Present, Owners, Asked
<1> QED
  BY <1>1, <1>2 DEF Init, FoundInv, CacheRight, SearchRight

(* The smartlogin in progress: what it has found comes from those who have  *)
(* had the key, and while nothing changes it is what there is to find.     *)
Exact(l) ==
    /\ calm = Cap
    /\ l.at = "roles" => (l.found <=> l.key \in keys[Account])
    /\ l.at = "members" =>
          /\ l.pending \subseteq admins
          /\ l.failed <=> \E m \in admins \ l.pending : m \notin existing
          /\ l.found <=> \/ l.key \in keys[Account]
                        \/ \E m \in admins \ l.pending : m \in existing /\ l.key \in keys[m]

Justified(l) ==
    /\ l \in Smartlogin
    /\ \A o \in {Account} \cup Members : since[o][l.key] < Cap => o \in held
    /\ \A m \in Members : since[Role][m] < Cap => m \in listed
    /\ l.pending \subseteq listed
    /\ l.found => Account \in held \/ held \cap listed # {}
    /\ l.at # "members" => ~l.failed
    /\ l.at = "keys" => ~l.found
    /\ l.alone => Exact(l)

LoginInv ==
    /\ login # Nothing => Justified(login)
    /\ accepted # Nothing => login = Nothing
    /\ SmartloginRight

(* What is read from the cache was to be found less than Cap ticks ago, and *)
(* is what there is if nothing has changed for so long.                    *)
LEMMA CachedIs ==
    ASSUME FoundInv, NEW x \in Asked, cache[x] # None
    PROVE  /\ cache[x].result \subseteq Findable(x)
           /\ \A e \in cache[x].result : since[x][e] < Cap
           /\ calm = Cap => /\ cache[x].result = Present(x)
                            /\ x \in Members => x \in existing
<1>1. PICK result, n : result = cache[x].result /\ n = Timeout + cache[x].age
  OBVIOUS
<1>2. n \in Nat /\ n < Cap /\ Known(x, result, n)
  BY <1>1, CapIs DEF FoundInv, FoundType, CacheRight, Answer
<1>3. \A e \in result : since[x][e] < Cap
  <2>1. SUFFICES ASSUME NEW e \in result PROVE since[x][e] < Cap
    OBVIOUS
  <2>2. e \in Members \cup Keys /\ since[x][e] <= n
    BY <1>2 DEF Known, Findable
  <2>3. since[x][e] \in 0 .. Cap
    BY <2>2 DEF FoundInv, FoundType
  <2> QED
    BY <1>2, <2>2, <2>3, CapIs
<1>4. calm = Cap => ~(calm <= n)
  BY <1>2, CapIs
<1> QED
  BY <1>1, <1>2, <1>3, <1>4 DEF Known

(* Whatever changes, it is seen by the bookkeeping.                        *)
LEMMA ChangeKeeps ==
    ASSUME LoginInv, FoundInv, Change, KeysType'
    PROVE  LoginInv'
<1>1. accepted' = Nothing
  BY DEF Change
<1>2. CASE login = Nothing
  BY <1>1, <1>2 DEF Change, LoginInv, SmartloginRight
<1>3. CASE login # Nothing
  <2>1. PICK l, x : l = login /\ x = [l EXCEPT !.alone = FALSE]
    OBVIOUS
  <2>2. Justified(l) /\ l \in Smartlogin /\ l.key \in Keys
    BY <1>3, <2>1 DEF LoginInv, Justified, Smartlogin
  <2>3. /\ x \in Smartlogin /\ ~x.alone /\ x.key = l.key /\ x.at = l.at /\ x.found = l.found
        /\ x.pending = l.pending /\ x.failed = l.failed
    BY <2>1, <2>2 DEF Smartlogin
  <2>4. /\ login' = x
        /\ held' = held \cup {o \in {Account} \cup Members : l.key \in keys'[o]}
        /\ listed' = listed \cup admins'
        /\ \A y \in Asked, e \in Members \cup Keys :
              since'[y][e] = IF e \in Present(y)' THEN 0 ELSE since[y][e]
    BY <1>3, <2>1 DEF Change
  <2>5. \A o \in {Account} \cup Members : since'[o][l.key] < Cap => o \in held'
    <3>1. SUFFICES ASSUME NEW o \in {Account} \cup Members, since'[o][l.key] < Cap
                   PROVE  o \in held'
      OBVIOUS
    <3>2. o \in Asked /\ o # Role /\ Present(o)' = keys'[o]
      BY OwnersAssumption DEF Asked, Present
    <3> QED
      BY <2>2, <2>4, <3>1, <3>2 DEF Justified
  <2>6. \A m \in Members : since'[Role][m] < Cap => m \in listed'
    <3>1. Role \in Asked /\ Present(Role)' = admins'
      BY DEF Asked, Present
    <3> QED
      BY <2>2, <2>4, <3>1 DEF Justified
  <2>7. Justified(x)'
    BY <2>2, <2>3, <2>4, <2>5, <2>6 DEF Justified
  <2> QED
    BY <1>1, <2>4, <2>7 DEF LoginInv, SmartloginRight
<1> QED
  BY <1>2, <1>3

(* Time makes nothing younger.                                             *)
LEMMA TickKeeps ==
    ASSUME LoginInv, FoundInv, Tick, UNCHANGED keyVars
    PROVE  LoginInv'
<1>1. /\ UNCHANGED keys /\ UNCHANGED existing /\ UNCHANGED admins
      /\ login' = login /\ held' = held /\ listed' = listed /\ accepted' = Nothing
  BY DEF keyVars, Tick
<1>2. ASSUME NEW x \in Asked, NEW e \in Members \cup Keys, since'[x][e] < Cap
      PROVE  since[x][e] < Cap
  <2>1. since[x][e] \in 0 .. Cap
    BY DEF FoundInv, FoundType
  <2>2. since'[x][e] = IF e \in Present(x) THEN 0
                       ELSE IF since[x][e] < Cap THEN since[x][e] + 1 ELSE Cap
    BY DEF Tick
  <2>3. e \in Present(x) => since[x][e] = 0
    BY DEF FoundInv, SinceRight
  <2> QED
    BY <1>2, <2>1, <2>2, <2>3, CapIs
<1>3. calm = Cap => calm' = Cap
  BY CapIs DEF Tick
<1>4. ASSUME login # Nothing PROVE Justified(login)'
  <2>1. Justified(login) /\ login.key \in Keys
    BY <1>4 DEF LoginInv, Justified, Smartlogin
  <2>2. \A o \in {Account} \cup Members : since'[o][login.key] < Cap => o \in held
    BY <1>2, <2>1 DEF Justified, Asked
  <2>3. \A m \in Members : since'[Role][m] < Cap => m \in listed
    BY <1>2, <2>1 DEF Justified, Asked
  <2>4. login.alone => Exact(login)'
    BY <1>1, <1>3, <2>1 DEF Justified, Exact
  <2> QED
    BY <1>1, <2>1, <2>2, <2>3, <2>4 DEF Justified
<1> QED
  BY <1>1, <1>4 DEF LoginInv, SmartloginRight

(* A step of the smartlogin that leaves the keys and the bookkeeping alone. *)
LEMMA LoginGoesOn ==
    ASSUME LoginInv, login # Nothing, UNCHANGED <<keyVars, timeVars>>,
           UNCHANGED <<accepted, held, listed>>, NEW x, login' = x, Justified(x)
    PROVE  LoginInv'
<1>1. accepted' = Nothing
  BY DEF LoginInv
<1>2. Justified(x)'
  BY DEF Justified, Exact, keyVars, timeVars
<1> QED
  BY <1>1, <1>2 DEF LoginInv, SmartloginRight, keyVars

LEMMA AnswerRight ==
    ASSUME LoginInv, login # Nothing, UNCHANGED keyVars, NEW ok \in BOOLEAN, NEW alone \in BOOLEAN,
           LoginAnswer(ok, alone),
           ok => Account \in held \/ held \cap listed # {},
           alone => (ok <=> /\ \/ login.key \in keys[Account]
                               \/ \E m \in admins : login.key \in keys[m]
                            /\ admins \subseteq existing)
    PROVE  LoginInv'
<1>1. /\ accepted' = [key |-> login.key, ok |-> ok, alone |-> alone]
      /\ login' = Nothing /\ UNCHANGED <<held, listed>>
  BY DEF LoginAnswer
<1>2. accepted'.key = login.key /\ accepted'.ok = ok /\ accepted'.alone = alone
  BY <1>1
<1>3. SmartloginRight'
  BY <1>1, <1>2 DEF SmartloginRight, keyVars
<1> QED
  BY <1>1, <1>3 DEF LoginInv, keyVars

LEMMA LoginStep ==
    ASSUME LoginInv, FoundInv, FoundInv', [Next]_vars
    PROVE  LoginInv'
<1>1. CASE UNCHANGED <<keyVars, timeVars, loginVars>>
  <2>1. /\ UNCHANGED keys /\ UNCHANGED existing /\ UNCHANGED admins /\ UNCHANGED login
        /\ UNCHANGED accepted /\ UNCHANGED held /\ UNCHANGED listed
        /\ UNCHANGED since /\ UNCHANGED calm
    BY <1>1 DEF keyVars, timeVars, loginVars
  <2> QED
    BY <2>1 DEF LoginInv, Justified, Exact, SmartloginRight
<1>2. CASE \/ \E o \in Owners, k \in Keys : PostKey(o, k) \/ DelKey(o, k)
           \/ \E m \in Members : SetAdmin(m) \/ DelMember(m)
  <2>1. Change
    BY <1>2 DEF PostKey, DelKey, SetAdmin, DelMember
  <2> QED
    BY <2>1, ChangeKeeps DEF FoundInv
<1>3. CASE Tick /\ UNCHANGED keyVars
  BY <1>3, TickKeeps
<1>4. ASSUME NEW k \in Keys, BeginLogin(k), UNCHANGED <<keyVars, timeVars>> PROVE LoginInv'
  <2>1. PICK b \in BOOLEAN : b <=> calm = Cap
    OBVIOUS
  <2>2. PICK x : x = [key |-> k, at |-> "keys", found |-> FALSE, pending |-> {},
                      failed |-> FALSE, alone |-> b]
    OBVIOUS
  <2>3. /\ login' = x /\ accepted' = Nothing
        /\ held' = {o \in {Account} \cup Members : since[o][k] < Cap}
        /\ listed' = {m \in Members : since[Role][m] < Cap}
    BY <1>4, <2>1, <2>2 DEF BeginLogin
  <2>4. x \in Smartlogin
    BY <2>1, <2>2 DEF Smartlogin
  <2>5. Justified(x)'
    BY <1>4, <2>1, <2>2, <2>3, <2>4 DEF Justified, Exact, keyVars, timeVars
  <2> QED
    BY <1>4, <2>3, <2>5 DEF LoginInv, SmartloginRight, keyVars
<1>5. ASSUME login # Nothing PROVE Justified(login) /\ login \in Smartlogin
  BY <1>5 DEF LoginInv, Justified
<1>6. CASE ListKeys /\ UNCHANGED <<keyVars, timeVars>>
  <2>1. PICK q, y, x, b : /\ q = login /\ b = (q.key \in cache[Account].result)
                          /\ y = [q EXCEPT !.at = "roles"] /\ x = [y EXCEPT !.found = b]
    OBVIOUS
  <2>2. /\ login # Nothing /\ q.at = "keys" /\ login' = x /\ cache[Account] # None
        /\ UNCHANGED <<accepted, held, listed>>
    BY <1>6, <2>1 DEF ListKeys
  <2>3. q \in Smartlogin /\ Justified(q) /\ b \in BOOLEAN
    BY <1>5, <2>1, <2>2
  <2>4. /\ y \in Smartlogin /\ y.at = "roles" /\ y.key = q.key /\ y.pending = q.pending
        /\ y.failed = q.failed /\ y.alone = q.alone
    BY <2>1, <2>3 DEF Smartlogin
  <2>5. /\ x \in Smartlogin /\ x.at = "roles" /\ x.key = q.key /\ x.pending = q.pending
        /\ x.failed = q.failed /\ x.alone = q.alone /\ x.found = b
    BY <2>1, <2>3, <2>4 DEF Smartlogin
  <2>6. Account \in Asked /\ Account # Role /\ Present(Account) = keys[Account]
    BY OwnersAssumption DEF Asked, Present
  <2>7. b => Account \in held
    BY <2>1, <2>2, <2>3, <2>6, CachedIs DEF Justified
  <2>8. q.alone => (b <=> q.key \in keys[Account]) /\ calm = Cap
    BY <2>1, <2>2, <2>3, <2>6, CachedIs DEF Justified, Exact
  <2>9. Justified(x)
    BY <2>2, <2>3, <2>5, <2>7, <2>8 DEF Justified, Exact
  <2> QED
    BY <1>6, <2>2, <2>9, LoginGoesOn
<1>7. CASE ListRoles /\ UNCHANGED <<keyVars, timeVars>>
  <2>1. PICK q, c, y, x : /\ q = login /\ c = cache[Role].result /\ y = [q EXCEPT !.at = "members"]
                          /\ x = [y EXCEPT !.pending = c]
    OBVIOUS
  <2>2. /\ login # Nothing /\ q.at = "roles" /\ q \in Smartlogin /\ Justified(q)
        /\ cache[Role] # None
    BY <1>5, <1>7, <2>1 DEF ListRoles
  <2>3. Role \in Asked /\ Present(Role) = admins /\ Findable(Role) = Members
    BY DEF Asked, Present, Findable
  <2>4. /\ c \subseteq Members /\ \A m \in c : since[Role][m] < Cap
        /\ calm = Cap => c = admins
    BY <2>1, <2>2, <2>3, CachedIs
  <2>5. c \subseteq listed /\ (q.alone => c = admins)
    BY <2>2, <2>4 DEF Justified, Exact
  <2>6. CASE c = {} /\ LoginAnswer(q.found, q.alone)
    <3>1. q.found \in BOOLEAN /\ q.alone \in BOOLEAN
      BY <2>2 DEF Smartlogin
    <3>2. q.found => Account \in held \/ held \cap listed # {}
      BY <2>2 DEF Justified
    <3>3. q.alone => (q.found <=> q.key \in keys[Account])
      BY <2>2 DEF Justified, Exact
    <3> QED
      BY <1>7, <2>1, <2>2, <2>5, <2>6, <3>1, <3>2, <3>3, AnswerRight
  <2>7. CASE login' = x /\ UNCHANGED <<accepted, held, listed>>
    <3>1. /\ y \in Smartlogin /\ y.at = "members" /\ y.key = q.key /\ y.found = q.found
          /\ y.failed = q.failed /\ y.alone = q.alone
      BY <2>1, <2>2 DEF Smartlogin
    <3>2. /\ x \in Smartlogin /\ x.at = "members" /\ x.key = q.key /\ x.found = q.found
          /\ x.failed = q.failed /\ x.alone = q.alone /\ x.pending = c
      BY <2>1, <2>4, <3>1 DEF Smartlogin
    <3>3. Justified(x)
      BY <2>2, <2>5, <3>2 DEF Justified, Exact
    <3> QED
      BY <1>7, <2>2, <2>7, <3>3, LoginGoesOn
  <2> QED
    BY <1>7, <2>1, <2>6, <2>7 DEF ListRoles
<1>8. ASSUME NEW m \in Members, AddUserKeys(m), UNCHANGED <<keyVars, timeVars>> PROVE LoginInv'
  <2>1. PICK q : q = login
    OBVIOUS
  <2>2. /\ login # Nothing /\ q.at = "members" /\ q \in Smartlogin /\ Justified(q)
        /\ m \in q.pending /\ UNCHANGED <<accepted, held, listed>>
    BY <1>5, <1>8, <2>1 DEF AddUserKeys
  <2>3. PICK w : w = [q EXCEPT !.pending = q.pending \ {m}]
    OBVIOUS
  <2>4. /\ w \in Smartlogin /\ w.at = "members" /\ w.key = q.key /\ w.alone = q.alone
        /\ w.pending = q.pending \ {m} /\ w.found = q.found /\ w.failed = q.failed
    BY <2>2, <2>3 DEF Smartlogin
  <2>5. q.alone => /\ calm = Cap /\ q.pending \subseteq admins
                   /\ admins \ w.pending = (admins \ q.pending) \cup {m}
    BY <2>2, <2>4 DEF Justified, Exact
  <2>6. CASE cache[m] # None /\ login' = [w EXCEPT !.found = q.found \/ q.key \in cache[m].result]
    <3>1. PICK c, x : c = (q.found \/ q.key \in cache[m].result) /\ x = [w EXCEPT !.found = c]
      OBVIOUS
    <3>2. c \in BOOLEAN
      BY <2>2, <3>1 DEF Smartlogin
    <3>3. /\ x \in Smartlogin /\ x.at = "members" /\ x.key = q.key /\ x.alone = q.alone
          /\ x.pending = w.pending /\ x.failed = q.failed /\ x.found = c
      BY <2>4, <3>1, <3>2 DEF Smartlogin
    <3>4. m \in Asked /\ m # Role /\ Present(m) = keys[m]
      BY OwnersAssumption DEF Asked, Present
    <3>5. q.key \in cache[m].result => m \in held
      BY <2>2, <2>6, <3>4, CachedIs DEF Justified
    <3>6. q.alone => (q.key \in cache[m].result <=> q.key \in keys[m]) /\ m \in existing
      BY <2>5, <2>6, <3>4, CachedIs
    <3>7. c => Account \in held \/ held \cap listed # {}
      BY <2>2, <3>1, <3>5 DEF Justified
    <3>8. q.alone => Exact(x)
      <4>1. SUFFICES ASSUME q.alone PROVE Exact(x)
        OBVIOUS
      <4>2. Exact(q)
        BY <2>2, <4>1 DEF Justified
      <4>3. q.failed <=> \E n \in admins \ w.pending : n \notin existing
        BY <2>2, <2>5, <3>6, <4>1, <4>2 DEF Exact
      <4>4. c <=> \/ q.key \in keys[Account]
                  \/ \E n \in admins \ w.pending : n \in existing /\ q.key \in keys[n]
        BY <2>2, <2>5, <3>1, <3>6, <4>1, <4>2 DEF Exact
      <4> QED
        BY <2>4, <2>5, <3>3, <4>1, <4>3, <4>4 DEF Exact
    <3>9. Justified(x)
      BY <2>2, <2>4, <3>3, <3>7, <3>8 DEF Justified
    <3>10. login' = x
      BY <2>6, <3>1
    <3> QED
      BY <1>8, <2>2, <3>9, <3>10, LoginGoesOn
  <2>7. CASE m \notin existing /\ login' = [w EXCEPT !.failed = TRUE]
    <3>1. PICK x : x = [w EXCEPT !.failed = TRUE]
      OBVIOUS
    <3>2. /\ x \in Smartlogin /\ x.at = "members" /\ x.key = q.key /\ x.alone = q.alone
          /\ x.pending = w.pending /\ x.failed = TRUE /\ x.found = q.found
      BY <2>4, <3>1 DEF Smartlogin
    <3>3. q.alone => Exact(x)
      BY <2>2, <2>4, <2>5, <2>7, <3>2 DEF Justified, Exact
    <3>4. Justified(x)
      BY <2>2, <2>4, <3>2, <3>3 DEF Justified
    <3>5. login' = x
      BY <2>7, <3>1
    <3> QED
      BY <1>8, <2>2, <3>4, <3>5, LoginGoesOn
  <2>8. \/ cache[m] # None /\ login' = [w EXCEPT !.found = q.found \/ q.key \in cache[m].result]
        \/ m \notin existing /\ login' = [w EXCEPT !.failed = TRUE]
    BY <1>8, <2>1, <2>2, <2>3 DEF AddUserKeys, Smartlogin
  <2> QED
    BY <2>6, <2>7, <2>8
<1>9. CASE MembersDone /\ UNCHANGED <<keyVars, timeVars>>
  <2>1. PICK q, b : q = login /\ b = (q.found /\ ~q.failed)
    OBVIOUS
  <2>2. /\ login # Nothing /\ q.at = "members" /\ q.pending = {} /\ q \in Smartlogin
        /\ Justified(q) /\ LoginAnswer(b, q.alone)
    BY <1>5, <1>9, <2>1 DEF MembersDone
  <2>3. b \in BOOLEAN /\ q.alone \in BOOLEAN
    BY <2>1, <2>2 DEF Smartlogin
  <2>4. b => Account \in held \/ held \cap listed # {}
    BY <2>1, <2>2 DEF Justified
  <2>5. q.alone => (b <=> /\ \/ q.key \in keys[Account]
                             \/ \E m \in admins : q.key \in keys[m]
                          /\ admins \subseteq existing)
    <3>1. SUFFICES ASSUME q.alone
                   PROVE  b <=> /\ \/ q.key \in keys[Account]
                                   \/ \E m \in admins : q.key \in keys[m]
                                /\ admins \subseteq existing
      OBVIOUS
    <3>2. /\ q.failed <=> \E m \in admins : m \notin existing
          /\ q.found <=> \/ q.key \in keys[Account]
                        \/ \E m \in admins : m \in existing /\ q.key \in keys[m]
      BY <2>2, <3>1 DEF Justified, Exact
    <3> QED
      BY <2>1, <3>2
  <2> QED
    BY <1>9, <2>1, <2>2, <2>3, <2>4, <2>5, AnswerRight
<1>10. CASE LoginRefused /\ UNCHANGED <<keyVars, timeVars>>
  BY <1>10, AnswerRight DEF LoginRefused
<1> QED
  BY <1>1, <1>2, <1>3, <1>4, <1>6, <1>7, <1>8, <1>9, <1>10
     DEF Next, EntriesNext, KeysNext, vars, keyVars, timeVars, loginVars

LEMMA LoginAlways == Spec => [](FoundInv /\ LoginInv)
<1>1. Init => FoundInv /\ LoginInv
  BY FoundInitially DEF Init, LoginInv, SmartloginRight
<1>2. FoundInv /\ LoginInv /\ [Next]_vars => (FoundInv /\ LoginInv)'
  BY FoundStep, LoginStep
<1> QED
  BY <1>1, <1>2, PTL DEF Spec

(* A smartlogin is accepted only with a key the customer, or somebody on    *)
(* the list of its administrator role, had while it was in progress or     *)
(* less than Cap ticks before, and is exact when nothing has changed for    *)
(* that long: smartlogin and loadKeys of src/capi/keys.js, over the cache   *)
(* of the UFDS client of src/capi/server.js.                               *)
THEOREM SmartloginRightHolds == Spec => []SmartloginRight
<1>1. LoginInv => SmartloginRight
  BY DEF LoginInv
<1> QED
  BY <1>1, LoginAlways, PTL

-----------------------------------------------------------------------------
(* Type correctness: what the invariants do not say already.               *)
AcceptedType ==
    /\ accepted \in [key : Keys, ok : BOOLEAN, alone : BOOLEAN] \cup {Nothing}
    /\ held \subseteq {Account} \cup Members
    /\ listed \subseteq Members

LEMMA AcceptedStep ==
    ASSUME AcceptedType, FoundInv, FoundInv', LoginInv, [Next]_vars
    PROVE  AcceptedType'
<1>1. CASE UNCHANGED loginVars
  BY <1>1 DEF AcceptedType, loginVars
<1>2. CASE Change
  BY <1>2 DEF Change, AcceptedType, FoundInv, KeysType
<1>3. CASE Tick
  BY <1>3 DEF Tick, AcceptedType
<1>4. CASE \E k \in Keys : BeginLogin(k)
  BY <1>4 DEF BeginLogin, AcceptedType
<1>5. ASSUME NEW ok \in BOOLEAN, NEW alone \in BOOLEAN, login # Nothing, LoginAnswer(ok, alone)
      PROVE  AcceptedType'
  <2>1. login.key \in Keys
    BY <1>5 DEF LoginInv, Justified, Smartlogin
  <2> QED
    BY <1>5, <2>1 DEF LoginAnswer, AcceptedType
<1>6. CASE UNCHANGED <<accepted, held, listed>>
  BY <1>6 DEF AcceptedType
<1>7. login # Nothing => login.found \in BOOLEAN /\ login.alone \in BOOLEAN /\ login.failed \in BOOLEAN
  BY DEF LoginInv, Justified, Smartlogin
<1>8. CASE ListKeys
  BY <1>6, <1>8 DEF ListKeys
<1>9. CASE ListRoles
  BY <1>5, <1>6, <1>7, <1>9 DEF ListRoles
<1>10. CASE \E m \in Members : AddUserKeys(m)
  BY <1>6, <1>10 DEF AddUserKeys
<1>11. CASE MembersDone
  BY <1>5, <1>7, <1>11 DEF MembersDone
<1>12. CASE LoginRefused
  BY <1>5, <1>12 DEF LoginRefused
<1> QED
  BY <1>1, <1>2, <1>3, <1>4, <1>8, <1>9, <1>10, <1>11, <1>12
     DEF Next, EntriesNext, KeysNext, vars, PostKey, DelKey, SetAdmin, DelMember

(* Type correctness of the entries, the requests, the cache and the         *)
(* smartlogins.                                                            *)
THEOREM TypesHold == Spec => []TypeOK
<1>1. Init => AcceptedType
  BY DEF Init, AcceptedType
<1>2. AcceptedType /\ FoundInv /\ FoundInv' /\ LoginInv /\ [Next]_vars => AcceptedType'
  BY AcceptedStep
<1>3. EntriesInv /\ FoundInv /\ LoginInv /\ AcceptedType => TypeOK
  BY DEF EntriesInv, EntriesType, Requests, FoundInv, KeysType, FoundType, CacheRight,
         SearchRight, Known, LoginInv, Justified, AcceptedType, TypeOK
<1> QED
  BY <1>1, <1>2, <1>3, EntriesAlways, LoginAlways, PTL DEF Spec

=============================================================================
