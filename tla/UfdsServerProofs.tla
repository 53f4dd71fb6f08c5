-------------------------- MODULE UfdsServerProofs --------------------------
(***************************************************************************)
(* Proofs about UfdsServer.                                                *)
(***************************************************************************)
EXTENDS UfdsServer, SequenceTheorems, FiniteSetTheorems, TLAPS

-----------------------------------------------------------------------------
(* The buckets.                                                            *)
AtLeast(b) == buckets[b] \in Nat /\ buckets[b] >= Version

BucketsInv ==
    /\ buckets \in [Buckets -> Nat]
    /\ server \in {"main", "check", "listening"} => AtLeast("clog")
    /\ server \in {"check", "listening"} => AtLeast("main")

LEMMA BucketPut ==
    ASSUME BucketsInv, NEW b \in Buckets, PutBucket(b)
    PROVE  /\ buckets' \in [Buckets -> Nat]
           /\ AtLeast(b)'
           /\ \A c \in Buckets : AtLeast(c) => AtLeast(c)'
BY ServerAssumption DEF BucketsInv, PutBucket, AtLeast

(* What a request or a restart does to the process.                        *)
LEMMA OtherSteps ==
    ASSUME [Next]_vars
    PROVE  \/ SetupNext
           \/ UNCHANGED <<server, buckets>>
           \/ server' = "connecting" /\ UNCHANGED buckets
<1>1. CASE UNCHANGED vars \/ Tick
  BY <1>1 DEF vars, Tick
<1>2. ASSUME NEW r \in Reqs, NEW q, Work(r, q)
      PROVE  UNCHANGED <<server, buckets>>
  BY <1>2 DEF Work, Add, Modify, ModifyGroup, Delete, SearchBase, Sent, Wait, Done
<1>3. ASSUME NEW r \in Reqs,
             \/ \E q \in Request : Arrive(r, q)
             \/ Authorized(r) \/ InsufficientAccess(r) \/ AuthorizeThrows(r)
             \/ \E limit \in {None, 1} : SearchChildren(r, limit)
             \/ Fails(r)
      PROVE  \/ UNCHANGED <<server, buckets>>
             \/ server' = "connecting" /\ UNCHANGED buckets
  BY <1>2, <1>3 DEF Arrive, Wait, Authorized, InsufficientAccess, AuthorizeThrows, Restarted,
                    SearchChildren, Sent, Fails, Refused
<1> QED
  BY <1>1, <1>3 DEF Next

LEMMA BucketsStep == BucketsInv /\ [Next]_vars => BucketsInv'
<1> SUFFICES ASSUME BucketsInv, [Next]_vars PROVE BucketsInv'
  OBVIOUS
<1>1. CASE UNCHANGED <<server, buckets>>
  BY <1>1 DEF BucketsInv, AtLeast
<1>2. CASE server' = "connecting" /\ UNCHANGED buckets
  BY <1>2 DEF BucketsInv
<1>3. CASE UpdateBucketClog
  BY <1>3, BucketPut DEF UpdateBucketClog, Setup, BucketsInv, Buckets
<1>4. CASE UpdateBucketMain
  BY <1>4, BucketPut DEF UpdateBucketMain, Setup, BucketsInv, Buckets
<1>5. CASE Connected \/ CheckReindexNeeded \/ Retry
            \/ \E at \in {"clog", "main", "check"} : SetupFails(at)
  BY <1>5 DEF Connected, CheckReindexNeeded, Retry, SetupFails, Setup, BucketsInv, AtLeast
<1>6. CASE Restarted
  BY <1>6 DEF Restarted, BucketsInv
<1> QED
  BY <1>1, <1>2, <1>3, <1>4, <1>5, <1>6, OtherSteps DEF SetupNext

(* A server that listens has set its buckets up, whatever has failed or    *)
(* was restarted before (lib/ufds.js).                                     *)
THEOREM ServesConfiguredHolds == Spec => []ServesConfigured
<1>1. Init => BucketsInv
  BY ServerAssumption DEF Init, BucketsInv
<1>2. BucketsInv => ServesConfigured
  BY DEF BucketsInv, ServesConfigured, AtLeast, Buckets
<1> QED
  BY <1>1, <1>2, BucketsStep, PTL DEF Spec

-----------------------------------------------------------------------------
(* Authorization.                                                          *)
InProgress == [q : Request, at : {"group", "find"}]

Entitled(x) ==
    /\ x.at = "group" /\ x.q.by \in group => x.q.could
    /\ x.at = "find" => x.q.could /\ x.q.op = "search" /\ x.q.scope # "base"

AccessInv ==
    /\ req \in [Reqs -> InProgress \cup {None}]
    /\ \A r \in Reqs : req[r] # None => Entitled(req[r])
    /\ OnlyAuthorized

LEMMA AccessSlot ==
    ASSUME AccessInv, NEW r \in Reqs, NEW x \in InProgress \cup {None},
           req' = [req EXCEPT ![r] = x], UNCHANGED group,
           x = None \/ Entitled(x), OnlyAuthorized'
    PROVE  AccessInv'
<1>1. \A t \in Reqs : req'[t] = IF t = r THEN x ELSE req[t]
  BY DEF AccessInv
<1> QED
  BY <1>1 DEF AccessInv, Entitled

LEMMA AccessWait ==
    ASSUME AccessInv, NEW r \in Reqs, NEW q \in Request, NEW at \in {"group", "find"},
           Wait(r, q, at), at = "group" => (q.by \in group => q.could),
           at = "find" => q.could /\ q.op = "search" /\ q.scope # "base"
    PROVE  AccessInv'
<1> DEFINE x == [q |-> q, at |-> at]
<1>1. x \in InProgress /\ x.q = q /\ x.at = at
  BY DEF InProgress
<1>2. req' = [req EXCEPT ![r] = x] /\ UNCHANGED group /\ OnlyAuthorized'
  BY DEF Wait, OnlyAuthorized
<1> HIDE DEF x
<1>3. Entitled(x)
  BY <1>1 DEF Entitled
<1> QED
  BY <1>1, <1>2, <1>3, AccessSlot

LEMMA AccessWork ==
    ASSUME AccessInv, NEW r \in Reqs, NEW q \in Request, q.could, Work(r, q)
    PROVE  AccessInv'
<1>1. ASSUME Done(r, q), UNCHANGED group PROVE AccessInv'
  <2>1. OnlyAuthorized'
    BY <1>1 DEF Done, OnlyAuthorized
  <2> QED
    BY <1>1, <2>1, AccessSlot DEF Done
<1>2. ASSUME SearchBase(r, q) PROVE AccessInv'
  <2>1. CASE Wait(r, q, "find") /\ q.op = "search" /\ q.scope # "base"
    BY <2>1, AccessWait
  <2>2. CASE Sent(r, q, {q.dn}, None)
    <3>1. OnlyAuthorized'
      BY <2>2 DEF Sent, OnlyAuthorized
    <3> QED
      BY <2>2, <3>1, AccessSlot DEF Sent
  <2> QED
    BY <1>2, <2>1, <2>2 DEF SearchBase
<1>3. ASSUME NEW members \in SUBSET (Binders \cap Dns), ModifyGroup(r, q, members)
      PROVE  AccessInv'
  <2>1. OnlyAuthorized'
    BY <1>3 DEF ModifyGroup, OnlyAuthorized
  <2>2. ASSUME NEW t \in Reqs
        PROVE  req'[t] \in InProgress \cup {None} /\ (req[t] # None => Entitled(req[t]))'
    <3>1. CASE t = r \/ req[t] = None
      BY <1>3, <3>1 DEF ModifyGroup
    <3>2. CASE t # r /\ req[t] # None
      <4>1. PICK x \in InProgress : x = req[t] /\ Entitled(x)
        BY <3>2 DEF AccessInv
      <4>2. PICK p : p = [x.q EXCEPT !.could = x.q.could \/ x.q.by \in members]
        OBVIOUS
      <4>3. x.q \in Request /\ x.at \in {"group", "find"}
        BY DEF InProgress
      <4>4. p \in Request /\ p.by = x.q.by /\ p.op = x.q.op /\ p.scope = x.q.scope
        BY <4>2, <4>3 DEF Request
      <4>5. p.could = (x.q.could \/ x.q.by \in members)
        BY <4>2, <4>3 DEF Request
      <4>6. PICK y : y = [x EXCEPT !.q = p]
        OBVIOUS
      <4>7. y \in InProgress /\ y.q = p /\ y.at = x.at
        BY <4>4, <4>6 DEF InProgress
      <4>8. req'[t] = y
        BY <1>3, <3>2, <4>1, <4>2, <4>6 DEF ModifyGroup, InProgress
      <4>9. Entitled(y)'
        <5>1. group' = members
          BY <1>3 DEF ModifyGroup
        <5>2. x.at = "group" /\ x.q.by \in members => p.could
          BY <4>5
        <5>3. x.at = "find" => p.could /\ p.op = "search" /\ p.scope # "base"
          BY <4>1, <4>4, <4>5 DEF Entitled
        <5> QED
          BY <4>4, <4>7, <5>1, <5>2, <5>3 DEF Entitled
      <4> QED
        BY <4>7, <4>8, <4>9
    <3> QED
      BY <3>1, <3>2
  <2>3. req' \in [Reqs -> InProgress \cup {None}]
    BY <1>3, <2>2 DEF ModifyGroup
  <2> QED
    BY <2>1, <2>2, <2>3 DEF AccessInv
<1> QED
  BY <1>1, <1>2, <1>3 DEF Work, Add, Modify, Delete

LEMMA AccessStep == AccessInv /\ [Next]_vars => AccessInv'
<1> SUFFICES ASSUME AccessInv, [Next]_vars PROVE AccessInv'
  OBVIOUS
<1>1. CASE UNCHANGED <<req, group>> /\ (last' = None \/ last' = last)
  BY <1>1 DEF AccessInv, Entitled, OnlyAuthorized
<1>2. CASE Restarted
  BY <1>2 DEF Restarted, AccessInv, Entitled, OnlyAuthorized
<1>3. ASSUME NEW r \in Reqs, Refused(r) PROVE AccessInv'
  <2>1. OnlyAuthorized'
    BY <1>3 DEF Refused, OnlyAuthorized
  <2> QED
    BY <1>3, <2>1, AccessSlot DEF Refused
<1>4. ASSUME NEW r \in Reqs, NEW q \in Request, Arrive(r, q) PROVE AccessInv'
  <2>1. CASE Owns(q.by, q.dn)
    <3>1. q.could /\ Work(r, q)
      BY <1>4, <2>1 DEF Arrive, Owns
    <3> QED
      BY <3>1, AccessWork
  <2>2. CASE ~Owns(q.by, q.dn)
    <3>1. q.by \in group => q.could
      BY <1>4 DEF Arrive
    <3> QED
      BY <1>4, <2>2, <3>1, AccessWait DEF Arrive
  <2> QED
    BY <2>1, <2>2
<1>5. ASSUME NEW r \in Reqs, Authorized(r) PROVE AccessInv'
  <2>1. req[r] \in InProgress /\ Entitled(req[r])
    BY <1>5 DEF Authorized, AccessInv
  <2>2. req[r].q \in Request /\ req[r].q.could
    BY <1>5, <2>1 DEF Authorized, Entitled, InProgress
  <2> QED
    BY <1>5, <2>2, AccessWork DEF Authorized
<1>6. ASSUME NEW r \in Reqs, NEW limit, SearchChildren(r, limit) PROVE AccessInv'
  <2>1. req[r].q.could
    BY <1>6 DEF SearchChildren, AccessInv, Entitled
  <2>2. PICK sent : Sent(r, req[r].q, sent, limit)
    BY <1>6 DEF SearchChildren
  <2>3. OnlyAuthorized'
    BY <2>1, <2>2 DEF Sent, OnlyAuthorized
  <2> QED
    BY <2>2, <2>3, AccessSlot DEF Sent
<1>7. CASE SetupNext
  BY <1>1, <1>2, <1>7 DEF SetupNext, Connected, UpdateBucketClog, UpdateBucketMain,
                          CheckReindexNeeded, Retry, SetupFails, Setup
<1>8. CASE Tick \/ UNCHANGED vars
  BY <1>1, <1>8 DEF Tick, vars
<1> QED
  BY <1>2, <1>3, <1>4, <1>5, <1>6, <1>7, <1>8
  DEF Next, InsufficientAccess, AuthorizeThrows, Fails

(* Nothing is done for a request whose binder was never entitled to it,    *)
(* for any number of requests, any group and any changes to it between the *)
(* question about the group and moray's answer (lib/db/authorize.js).      *)
THEOREM OnlyAuthorizedHolds == Spec => []OnlyAuthorized
<1>1. Init => AccessInv
  BY DEF Init, AccessInv, OnlyAuthorized
<1>2. AccessInv => OnlyAuthorized
  BY DEF AccessInv
<1> QED
  BY <1>1, <1>2, AccessStep, PTL DEF Spec

-----------------------------------------------------------------------------
(* What is stored can be deleted.  A validation that has succeeded once,   *)
(* for whatever operation, succeeds for a delete at any time.              *)
LEMMA ValidForDelete ==
    ASSUME NEW e, NEW dn, NEW changed, NEW op, NEW t, NEW u,
           RunValidations(e, dn, changed, op, t)
    PROVE  RunValidations(e, dn, {}, "del", u)
<1>1. ASSUME NEW oc, Validate(e, dn, oc, changed, op, t)
      PROVE  Validate(e, dn, oc, {}, "del", u)
  BY <1>1 DEF Validate, PersonValid, RoleValid, PolicyValid, LinkedValid, KeyValid
<1> QED
  BY <1>1 DEF RunValidations

(* All that the reverse index leaves alone.                                *)
SameButLinks(e, f) ==
    /\ f.objectclass = e.objectclass /\ f.id = e.id /\ f.account = e.account
    /\ f.uniquemember = e.uniquemember /\ f.uniquememberdefault = e.uniquememberdefault
    /\ f.temporary = e.temporary /\ f.expiration = e.expiration /\ f.imported = e.imported

(* A list of links is validated with roles and policies, and for the names *)
(* that are on it twice only.                                              *)
LEMMA ValidButLinks ==
    ASSUME NEW e, NEW f \in Entry(Dns, Nat), NEW dn, NEW t, SameButLinks(e, f),
           Linked(f) => NamesOnce(f), RunValidations(e, dn, {}, "del", t)
    PROVE  RunValidations(f, dn, {}, "del", t)
<1>1. ASSUME NEW i \in 1 .. Len(f.objectclass)
      PROVE  f.objectclass[i] \in Known /\ Validate(f, dn, f.objectclass[i], {}, "del", t)
  <2>1. PICK oc : oc = f.objectclass[i]
    OBVIOUS
  <2>2. oc \in Known /\ Validate(e, dn, oc, {}, "del", t)
    BY <2>1 DEF RunValidations, SameButLinks
  <2>3. oc \in {"sdcaccountrole", "sdcaccountpolicy"} => NamesOnce(f)
    <3>1. i \in DOMAIN f.objectclass
      BY DEF Entry
    <3>2. Is(f, oc)
      BY <2>1, <3>1 DEF Is
    <3> QED
      BY <3>2 DEF Linked, Kind
  <2>4. Required(f, oc)
    BY <2>2 DEF Validate, Required, SameButLinks
  <2>5. oc = "sdcperson" => PersonValid(f, dn, {})
    BY <2>2 DEF Validate, PersonValid, SameButLinks
  <2>6. oc = "sdcaccountuser" => UserValid(f, dn)
    BY <2>2 DEF Validate, UserValid, SameButLinks
  <2>7. oc = "sdcaccountrole" => RoleValid(f, dn, {})
    BY <2>2, <2>3 DEF Validate, RoleValid, LinkedValid, SameButLinks
  <2>8. oc = "sdcaccountpolicy" => PolicyValid(f, dn, {})
    BY <2>2, <2>3 DEF Validate, PolicyValid, LinkedValid, SameButLinks
  <2>9. oc = "accesskey" => KeyValid(f, {}, "del", t)
    BY <2>2 DEF Validate, KeyValid, SameButLinks
  <2> QED
    BY <2>1, <2>2, <2>4, <2>5, <2>6, <2>7, <2>8, <2>9 DEF Validate
<1> QED
  BY <1>1 DEF RunValidations, SameButLinks

LEMMA ValidLinks ==
    ASSUME NEW e \in Entry(Dns, Nat), Linked(e), NEW dn, NEW changed, NEW op, NEW t,
           RunValidations(e, dn, changed, op, t)
    PROVE  NamesOnce(e)
<1>1. PICK oc \in {"sdcaccountrole", "sdcaccountpolicy"} : Is(e, oc)
  BY DEF Linked, Kind
<1>2. PICK i \in 1 .. Len(e.objectclass) : e.objectclass[i] = oc
  <2>1. e.objectclass \in Seq(Classes)
    BY DEF Entry
  <2> QED
    BY <1>1, <2>1 DEF Is
<1>3. Validate(e, dn, oc, changed, op, t)
  BY <1>2 DEF RunValidations
<1> QED
  BY <1>3 DEF Validate, RoleValid, PolicyValid, LinkedValid

OtherAccount(e, dn) == Is(e, "sdcaccountuser") /\ e.account # <<dn[2].value>>

Shape(dn, x) ==
    /\ x = [entry |-> x.entry, owner |-> x.owner, parent |-> x.parent,
            invalid |-> x.invalid, doubled |-> x.doubled]
    /\ x.entry \in Entry(Dns, Nat)
    /\ x.owner = ParseOwner(dn, "add")
    /\ x.parent = Tail(dn)
    /\ x.invalid \in BOOLEAN /\ x.doubled \in BOOLEAN

(* But for its list the entry would pass, and its list does unless the     *)
(* reverse index has doubled a name.                                       *)
Deletable(dn, x) ==
    \/ x.invalid
    \/ OtherAccount(x.entry, dn)
    \/ /\ \E e : SameButLinks(e, x.entry) /\ RunValidations(e, dn, {}, "del", 0)
       /\ Linked(x.entry) => NamesOnce(x.entry) \/ x.doubled

DeletableInv ==
    /\ store = [dn \in Dns |-> store[dn]]
    /\ \A dn \in Stored : Shape(dn, store[dn]) /\ Deletable(dn, store[dn])

LEMMA DeletableInit == Init => DeletableInv
<1> SUFFICES ASSUME Init PROVE DeletableInv
  OBVIOUS
<1>1. store = [dn \in Dns |-> store[dn]]
  BY InheritedAssumption DEF Init
<1>2. ASSUME NEW dn \in Stored PROVE Shape(dn, store[dn]) /\ Deletable(dn, store[dn])
  <2>1. PICK x : x = store[dn]
    OBVIOUS
  <2>2. /\ x \in Object(dn) /\ ~x.doubled
        /\ x.invalid \/ RunValidations(x.entry, dn, {}, "del", 0)
    BY <1>2, <2>1, InheritedAssumption DEF Init, Stored
  <2>3. Shape(dn, x)
    BY <2>2 DEF Object, Shape
  <2>4. Deletable(dn, x)
    <3>1. x.entry \in Entry(Dns, Nat)
      BY <2>3 DEF Shape
    <3>2. ASSUME RunValidations(x.entry, dn, {}, "del", 0) PROVE Linked(x.entry) => NamesOnce(x.entry)
      BY <3>1, <3>2, ValidLinks
    <3> QED
      BY <2>2, <3>2 DEF Deletable, SameButLinks
  <2> QED
    BY <2>1, <2>3, <2>4
<1> QED
  BY <1>1, <1>2 DEF DeletableInv

(* The entry that preloadAccount makes of one that was valid.              *)
LEMMA AddedDeletable ==
    ASSUME DeletableInv, NEW dn \in Dns, NEW e \in Entry(Dns, Nat)
    PROVE  /\ WithAccount(dn, e) \in Entry(Dns, Nat)
           /\ RunValidations(e, dn, {}, "add", now) =>
                 \/ OtherAccount(WithAccount(dn, e), dn)
                 \/ RunValidations(WithAccount(dn, e), dn, {}, "del", 0)
<1>1. CASE WithAccount(dn, e) = e
  BY <1>1, ValidForDelete
<1>2. CASE WithAccount(dn, e) # e
  <2>1. PICK acc, ocs, f, g :
            /\ acc = IF e.account = <<>> THEN store[Tail(dn)].entry.id ELSE e.account
            /\ ocs = IF Is(e, "sdcaccountuser") THEN e.objectclass
                                               ELSE Append(e.objectclass, "sdcaccountuser")
            /\ f = [e EXCEPT !.account = acc]
            /\ g = [f EXCEPT !.objectclass = ocs]
    OBVIOUS
  <2>2. Tail(dn) \in Stored /\ WithAccount(dn, e) = g
    BY <1>2, <2>1 DEF WithAccount, Entry
  <2>3. acc \in Seq(Uuids)
    BY <2>1, <2>2 DEF DeletableInv, Shape, Entry
  <2>4. "sdcaccountuser" \in Classes /\ e.objectclass \in Seq(Classes)
    BY ClassesAssumption DEF Known, Entry
  <2>5. /\ ocs \in Seq(Classes)
        /\ \A i \in 1 .. Len(ocs) :
              \/ i \in 1 .. Len(e.objectclass) /\ ocs[i] = e.objectclass[i]
              \/ ocs[i] = "sdcaccountuser"
        /\ \E i \in 1 .. Len(ocs) : ocs[i] = "sdcaccountuser"
    <3>1. CASE Is(e, "sdcaccountuser")
      BY <2>1, <2>4, <3>1 DEF Is
    <3>2. CASE ~Is(e, "sdcaccountuser")
      BY <2>1, <2>4, <3>2, AppendProperties
    <3> QED
      BY <3>1, <3>2
  <2>6. f \in Entry(Dns, Nat) /\ f.account = acc /\ f.id = e.id /\ f.imported = e.imported
        /\ f.links = e.links /\ f.uniquemember = e.uniquemember /\ f.uniquememberdefault = e.uniquememberdefault
        /\ f.temporary = e.temporary /\ f.expiration = e.expiration
    BY <2>1, <2>3 DEF Entry
  <2>7. g \in Entry(Dns, Nat) /\ g.objectclass = ocs /\ g.account = acc /\ g.id = e.id
        /\ g.imported = e.imported
        /\ g.links = e.links /\ g.uniquemember = e.uniquemember /\ g.uniquememberdefault = e.uniquememberdefault
        /\ g.temporary = e.temporary /\ g.expiration = e.expiration
    BY <2>1, <2>5, <2>6 DEF Entry
  <2>8. Is(g, "sdcaccountuser")
    BY <2>5, <2>7 DEF Is
  <2>9. ASSUME RunValidations(e, dn, {}, "add", now), g.account = <<dn[2].value>>
        PROVE  RunValidations(g, dn, {}, "del", 0)
    <3>1. Len(g.account) = 1 /\ g.account[1] = dn[2].value
      BY <2>9
    <3>2. ASSUME NEW i \in 1 .. Len(ocs), i \in 1 .. Len(e.objectclass),
                 ocs[i] = e.objectclass[i]
          PROVE  ocs[i] \in Known /\ Validate(g, dn, ocs[i], {}, "del", 0)
      <4>1. ocs[i] \in Known /\ Validate(e, dn, ocs[i], {}, "add", now)
        BY <2>9, <3>2 DEF RunValidations
      <4>2. Required(g, ocs[i])
        BY <2>7, <3>1, <4>1 DEF Required, Validate
      <4>3. ocs[i] = "sdcperson" => PersonValid(g, dn, {})
        BY <2>7, <4>1 DEF Validate, PersonValid
      <4>4. ocs[i] = "sdcaccountuser" => UserValid(g, dn)
        BY <3>1 DEF UserValid
      <4>5. ocs[i] = "sdcaccountrole" => RoleValid(g, dn, {})
        BY <2>7, <3>1, <4>1 DEF Validate, RoleValid, LinkedValid, NamesOnce
      <4>7. ocs[i] = "sdcaccountpolicy" => PolicyValid(g, dn, {})
        BY <2>7, <3>1, <4>1 DEF Validate, PolicyValid, LinkedValid, NamesOnce
      <4>6. ocs[i] = "accesskey" => KeyValid(g, {}, "del", 0)
        BY <2>7, <4>1 DEF Validate, KeyValid
      <4> QED
        BY <4>1, <4>2, <4>3, <4>4, <4>5, <4>6, <4>7 DEF Validate
    <3>3. Validate(g, dn, "sdcaccountuser", {}, "del", 0)
      BY <3>1 DEF Validate, Required, UserValid
    <3>4. ocs # <<>>
      BY <2>5
    <3> QED
      BY <2>5, <2>7, <3>2, <3>3, <3>4 DEF RunValidations, Known
  <2> QED
    BY <2>2, <2>7, <2>8, <2>9 DEF OtherAccount
<1> QED
  BY <1>1, <1>2

(* A write of the reverse index leaves an entry deletable, or doubles a    *)
(* name.                                                                   *)
LEMMA RelinkedDeletable ==
    ASSUME NEW k \in Dns, NEW y, Shape(k, y), Deletable(k, y), NEW dn \in Dns, NEW put \in BOOLEAN
    PROVE  Shape(k, Relinked(y, dn, put)) /\ Deletable(k, Relinked(y, dn, put))
<1>1. PICK n, m, links, e, d, x :
          /\ n = y.entry.links[dn]
          /\ m = IF put THEN n + 1 ELSE 0
          /\ links = [y.entry.links EXCEPT ![dn] = m]
          /\ e = [y.entry EXCEPT !.links = links]
          /\ d = ((y.doubled \/ (put /\ n > 0)) /\ ~NamesOnce(e))
          /\ x = [entry |-> e, owner |-> y.owner, parent |-> y.parent,
                  invalid |-> y.invalid, doubled |-> d]
  OBVIOUS
<1>2. y.entry \in Entry(Dns, Nat) /\ y.entry.links \in [Dns -> Nat] /\ n \in Nat
  BY <1>1 DEF Shape, Entry
<1>3. links \in [Dns -> Nat] /\ links[dn] = m /\ \A j \in Dns \ {dn} : links[j] = y.entry.links[j]
  BY <1>1, <1>2
<1>4. e \in Entry(Dns, Nat) /\ e.links = links /\ SameButLinks(y.entry, e)
  BY <1>1, <1>2, <1>3 DEF Entry, SameButLinks
<1>5. Relinked(y, dn, put) = x
  <2>1. e = [y.entry EXCEPT !.links[dn] = IF put THEN n + 1 ELSE 0]
    BY <1>1
  <2>2. Relinked(y, dn, put) = [y EXCEPT !.entry = e, !.doubled = d]
    BY <1>1, <2>1 DEF Relinked
  <2> QED
    BY <1>1, <2>2 DEF Shape
<1>6. Shape(k, x)
  BY <1>1, <1>4 DEF Shape
<1>7. Deletable(k, x)
  <2>1. CASE y.invalid
    BY <1>1, <2>1 DEF Deletable
  <2>2. CASE OtherAccount(y.entry, k)
    BY <1>1, <1>4, <2>2 DEF Deletable, OtherAccount, Is, SameButLinks
  <2>3. ASSUME NEW f, SameButLinks(f, y.entry), RunValidations(f, k, {}, "del", 0),
               Linked(y.entry) => NamesOnce(y.entry) \/ y.doubled
        PROVE  Deletable(k, x)
    <3>1. SameButLinks(f, e)
      BY <1>4, <2>3 DEF SameButLinks
    <3>2. Linked(e) => Linked(y.entry)
      BY <1>4 DEF Linked, Kind, Is, SameButLinks
    <3>3. NamesOnce(y.entry) => NamesOnce(e) \/ (put /\ n > 0)
      <4>1. NamesOnce(y.entry) => \A j \in Dns : y.entry.links[j] <= 1
        BY <1>2 DEF NamesOnce
      <4>2. (\A j \in Dns : links[j] <= 1) => NamesOnce(e)
        BY <1>3, <1>4 DEF NamesOnce
      <4> QED
        BY <1>1, <1>2, <1>3, <4>1, <4>2
    <3>4. Linked(e) => NamesOnce(e) \/ d
      BY <1>1, <2>3, <3>2, <3>3
    <3> QED
      BY <1>1, <2>3, <3>1, <3>4 DEF Deletable
  <2> QED
    BY <2>1, <2>2, <2>3 DEF Deletable
<1> QED
  BY <1>5, <1>6, <1>7

(* A batch writes what is deletable at its own DN.                         *)
LEMMA StoreBatch ==
    ASSUME DeletableInv, NEW dn \in Dns, NEW e, NEW x, NEW put, NEW drop,
           Batch(dn, e, x, put, drop), x # None => Shape(dn, x) /\ Deletable(dn, x)
    PROVE  DeletableInv'
<1>1. ASSUME NEW k \in Dns, store'[k] # None
      PROVE  Shape(k, store'[k]) /\ Deletable(k, store'[k])
  <2>1. CASE k = dn
    BY <1>1, <2>1 DEF Batch
  <2>2. CASE k # dn /\ store'[k] = store[k]
    BY <1>1, <2>2 DEF DeletableInv, Stored
  <2>3. CASE k # dn /\ store'[k] # store[k]
    <3>1. k \in Stored /\ store'[k] = Relinked(store[k], dn, k \in put)
      BY <1>1, <2>3 DEF Batch, Others
    <3>2. PICK b \in BOOLEAN : store'[k] = Relinked(store[k], dn, b)
      <4>1. CASE k \in put
        <5>1. Relinked(store[k], dn, k \in put) = Relinked(store[k], dn, TRUE)
          BY <4>1 DEF Relinked
        <5> QED
          BY <3>1, <5>1
      <4>2. CASE k \notin put
        <5>1. Relinked(store[k], dn, k \in put) = Relinked(store[k], dn, FALSE)
          BY <4>2 DEF Relinked
        <5> QED
          BY <3>1, <5>1
      <4> QED
        BY <4>1, <4>2
    <3>3. PICK y : y = store[k] /\ Shape(k, y) /\ Deletable(k, y)
      BY <3>1 DEF DeletableInv
    <3> QED
      BY <3>2, <3>3, RelinkedDeletable
  <2> QED
    BY <2>1, <2>2, <2>3
<1>2. store' = [k \in Dns |-> store'[k]]
  BY DEF Batch
<1> QED
  BY <1>1, <1>2 DEF DeletableInv, Stored

LEMMA DeletableWork ==
    ASSUME DeletableInv, NEW r \in Reqs, NEW q \in Request, Work(r, q)
    PROVE  DeletableInv'
<1>1. ASSUME NEW e \in Inputs(q.dn), NEW forced \in BOOLEAN, Add(r, q, e, forced)
      PROVE  DeletableInv'
  <2>1. q.dn \in Dns
    BY <1>1 DEF Add, Request
  <2>2. e \in Entry(Dns, Nat)
    BY <2>1, InputsAssumption
  <2>3. PICK valid \in BOOLEAN : valid = RunValidations(e, q.dn, {}, "add", now)
    BY DEF RunValidations
  <2>4. PICK f, x : /\ f = WithAccount(q.dn, e)
                    /\ x = [entry |-> f, owner |-> ParseOwner(q.dn, "add"),
                            parent |-> Tail(q.dn), invalid |-> ~valid, doubled |-> FALSE]
    OBVIOUS
  <2>5. Batch(q.dn, e, x, Names(e), {})
    BY <1>1, <2>3, <2>4 DEF Add
  <2>6. x.entry = f /\ x.invalid = ~valid /\ Shape(q.dn, x)
    BY <2>1, <2>2, <2>4, AddedDeletable DEF Shape
  <2>7. Deletable(q.dn, x)
    <3>1. CASE ~valid
      BY <2>6, <3>1 DEF Deletable
    <3>2. CASE valid
      <4>1. OtherAccount(f, q.dn) \/ RunValidations(f, q.dn, {}, "del", 0)
        BY <2>1, <2>2, <2>3, <2>4, <3>2, AddedDeletable
      <4> QED
        BY <2>6, <4>1, ValidLinks DEF Deletable, SameButLinks, Shape
    <3> QED
      BY <3>1, <3>2
  <2> QED
    BY <2>1, <2>5, <2>6, <2>7, StoreBatch
<1>2. ASSUME NEW e \in Inputs(q.dn), NEW forced \in BOOLEAN, Modify(r, q, e, forced)
      PROVE  DeletableInv'
  <2>1. q.dn \in Stored
    BY <1>2 DEF Modify, Request, Stored
  <2>2. q.dn \in Dns /\ e \in Entry(Dns, Nat)
    BY <2>1, InputsAssumption DEF Stored
  <2>3. PICK y : y = store[q.dn] /\ Shape(q.dn, y)
    BY <2>1 DEF DeletableInv
  <2>4. PICK valid \in BOOLEAN :
            valid = RunValidations(e, q.dn, Changed(y.entry, e), "modify", now)
    BY DEF RunValidations
  <2>5. PICK d, bad \in BOOLEAN : d = (y.doubled /\ ~NamesOnce(e)) /\ bad = ~valid
    OBVIOUS
  <2>6. PICK x : x = [entry |-> e, owner |-> y.owner, parent |-> y.parent,
                      invalid |-> bad, doubled |-> d]
    OBVIOUS
  <2>7. x = [y EXCEPT !.entry = e, !.invalid = ~valid, !.doubled = d]
    <3>1. PICK z, w : z = [y EXCEPT !.entry = e] /\ w = [z EXCEPT !.invalid = bad]
      OBVIOUS
    <3>2. z = [entry |-> e, owner |-> y.owner, parent |-> y.parent,
               invalid |-> y.invalid, doubled |-> y.doubled]
      BY <2>3, <3>1 DEF Shape
    <3>3. w = [entry |-> e, owner |-> y.owner, parent |-> y.parent,
               invalid |-> bad, doubled |-> y.doubled]
      BY <3>1, <3>2
    <3>4. x = [w EXCEPT !.doubled = d]
      BY <2>6, <3>3
    <3>5. [y EXCEPT !.entry = e, !.invalid = ~valid, !.doubled = d]
            = [w EXCEPT !.doubled = d]
      BY <2>5, <3>1
    <3> QED
      BY <3>4, <3>5
  <2>8. \E put, drop : Batch(q.dn, y.entry, x, put, drop)
    BY <1>2, <2>3, <2>4, <2>5, <2>7 DEF Modify
  <2>9. x.entry = e /\ x.invalid = bad /\ x.doubled = d /\ Shape(q.dn, x)
    BY <2>2, <2>3, <2>6 DEF Shape
  <2>10. Deletable(q.dn, x)
    <3>1. CASE ~valid
      BY <2>5, <2>9, <3>1 DEF Deletable
    <3>2. CASE valid
      <4>1. RunValidations(e, q.dn, {}, "del", 0)
        BY <2>4, <3>2, ValidForDelete
      <4> QED
        BY <2>2, <2>9, <4>1, ValidLinks DEF Deletable, SameButLinks
    <3> QED
      BY <3>1, <3>2
  <2> QED
    BY <2>2, <2>8, <2>9, <2>10, StoreBatch
<1>3. ASSUME NEW forced \in BOOLEAN, Delete(r, q, forced) PROVE DeletableInv'
  <2>1. PICK e : q.dn \in Dns /\ Batch(q.dn, e, None, {}, Names(e))
    BY <1>3 DEF Delete, Request
  <2> QED
    BY <2>1, StoreBatch
<1>4. ASSUME UNCHANGED store PROVE DeletableInv'
  BY <1>4 DEF DeletableInv, Stored
<1> QED
  BY <1>1, <1>2, <1>3, <1>4 DEF Work, ModifyGroup, SearchBase, Sent, Wait

LEMMA DeletableStep == AccessInv /\ DeletableInv /\ [Next]_vars => DeletableInv'
<1> SUFFICES ASSUME AccessInv, DeletableInv, [Next]_vars PROVE DeletableInv'
  OBVIOUS
<1>1. CASE UNCHANGED store
  BY <1>1 DEF DeletableInv, Stored
<1>2. ASSUME NEW r \in Reqs, NEW q \in Request, Arrive(r, q) PROVE DeletableInv'
  BY <1>1, <1>2, DeletableWork DEF Arrive, Wait
<1>3. ASSUME NEW r \in Reqs, Authorized(r) PROVE DeletableInv'
  <2>1. req[r].q \in Request
    BY <1>3 DEF Authorized, AccessInv, InProgress
  <2> QED
    BY <1>3, <2>1, DeletableWork DEF Authorized
<1>4. CASE SetupNext
  BY <1>1, <1>4 DEF SetupNext, Connected, UpdateBucketClog, UpdateBucketMain,
                    CheckReindexNeeded, Retry, SetupFails, Setup, Restarted
<1>5. CASE Tick \/ UNCHANGED vars
  BY <1>1, <1>5 DEF Tick, vars
<1>6. ASSUME NEW r \in Reqs,
             \/ InsufficientAccess(r) \/ AuthorizeThrows(r) \/ Fails(r)
             \/ \E limit \in {None, 1} : SearchChildren(r, limit)
      PROVE  DeletableInv'
  BY <1>1, <1>6 DEF InsufficientAccess, AuthorizeThrows, Fails, Refused, Restarted,
                    SearchChildren, Sent
<1> QED
  BY <1>2, <1>3, <1>4, <1>5, <1>6 DEF Next

(* Whatever entries are sent and in whatever order, and whatever earlier   *)
(* versions have left, what the validators let in passes the validation of *)
(* a delete at any later time, but for the user of another account and a   *)
(* list on which the reverse index has doubled a name (lib/schema,         *)
(* roleGroupReverseIndex).                                                 *)
THEOREM StoredDeletableHolds == Spec => []StoredDeletable
<1>1. Init => AccessInv /\ DeletableInv
  BY DeletableInit DEF Init, AccessInv, OnlyAuthorized
<1>2. AccessInv /\ DeletableInv /\ [Next]_vars => (AccessInv /\ DeletableInv)'
  BY AccessStep, DeletableStep
<1>3. DeletableInv => StoredDeletable
  <2> SUFFICES ASSUME DeletableInv, NEW dn \in Stored,
                      ~store[dn].invalid, ~store[dn].doubled,
                      ~OtherAccount(store[dn].entry, dn)
               PROVE  RunValidations(store[dn].entry, dn, {}, "del", now)
    BY DEF OtherAccount, StoredDeletable
  <2>1. PICK f : f = store[dn].entry /\ f \in Entry(Dns, Nat)
    BY DEF DeletableInv, Shape
  <2>2. PICK e : SameButLinks(e, f) /\ RunValidations(e, dn, {}, "del", 0)
    BY <2>1 DEF DeletableInv, Deletable
  <2>3. Linked(f) => NamesOnce(f)
    BY <2>1 DEF DeletableInv, Deletable
  <2>4. RunValidations(f, dn, {}, "del", 0)
    BY <2>1, <2>2, <2>3, ValidButLinks
  <2> QED
    BY <2>1, <2>4, ValidForDelete
<1> QED
  BY <1>1, <1>2, <1>3, PTL DEF Spec

-----------------------------------------------------------------------------
(* Searches.                                                               *)
LEMMA UsersIs == IsDn(Users) /\ Len(Users) = 2 /\ Tail(Users) = Suffix
<1>1. ASSUME NEW x, NEW y
      PROVE  IsDn(<<x, y>>) /\ Len(<<x, y>>) = 2 /\ Tail(<<x, y>>) = <<y>>
  <2>1. <<x, y>> \in Seq({x, y}) /\ {<<x, y>>[i] : i \in DOMAIN <<x, y>>} = {x, y}
    OBVIOUS
  <2> QED
    BY <2>1 DEF IsDn
<1> QED
  BY <1>1 DEF Users, Suffix

LEMMA DnIs ==
    ASSUME NEW x, IsDn(x)
    PROVE  Len(x) \in Nat /\ DOMAIN x = 1 .. Len(x) /\ x = [i \in 1 .. Len(x) |-> x[i]]
BY DEF IsDn

LEMMA TailIs ==
    ASSUME NEW k, IsDn(k), Len(k) > 0
    PROVE  /\ Tail(k) = SubSeq(k, 2, Len(k))
           /\ Len(Tail(k)) = Len(k) - 1
           /\ \A i \in 1 .. (Len(k) - 1) : Tail(k)[i] = k[i + 1]
<1>1. PICK S : k \in Seq(S)
  BY DEF IsDn
<1>2. k # <<>>
  BY <1>1
<1> QED
  BY <1>1, <1>2, HeadTailProperties, TailIsSubSeq

(* One level below a DN is what it is the tail of.                         *)
LEMMA OneLevel ==
    ASSUME NEW base, IsDn(base), NEW k, IsDn(k), Len(k) > 0
    PROVE  (ParentOf(base, k) /\ Len(k) = Len(base) + 1) <=> Tail(k) = base
<1>1. Len(k) \in Nat /\ Len(base) \in Nat
  BY DnIs
<1>2. Len(Tail(k)) = Len(k) - 1
  BY <1>1, TailIs
<1>4. SubSeq(k, 2, Len(k)) = Tail(k)
  BY TailIs
<1>5. ASSUME Len(k) = Len(base) + 1
      PROVE  ParentOf(base, k) <=> Tail(k) = base
  <2>1. Len(k) - Len(base) + 1 = 2 /\ Len(base) < Len(k)
    BY <1>1, <1>5
  <2>2. SubSeq(k, Len(k) - Len(base) + 1, Len(k)) = Tail(k)
    BY <1>4, <2>1
  <2> QED
    BY <2>1, <2>2 DEF ParentOf
<1>6. Tail(k) = base => Len(k) = Len(base) + 1
  BY <1>1, <1>2
<1> QED
  BY <1>5, <1>6

(* lib/owner.js reads the same owner off the DN that is added and off the  *)
(* base of the search that should find it, at any depth.                   *)
THEOREM OwnersAgree ==
    ASSUME NEW k, IsDn(k), ParentOf(Users, k)
    PROVE  \/ ParseOwner(Tail(k), "search") = None
           \/ ParseOwner(Tail(k), "search") = ParseOwner(k, "add")
<1>1. Len(k) \in Nat /\ Len(Users) = 2 /\ Len(k) > 2
  BY DnIs, UsersIs DEF ParentOf
<1>2. PICK t, n : t = Tail(k) /\ n = Len(k)
  OBVIOUS
<1>3. Len(t) = n - 1 /\ \A i \in 1 .. (n - 1) : t[i] = k[i + 1]
  BY <1>1, <1>2, TailIs
<1>4. CASE n = 3
  <2>1. ~ParentOf(Users, t)
    BY <1>1, <1>3, <1>4 DEF ParentOf
  <2> QED
    BY <1>2, <2>1 DEF ParseOwner
<1>5. CASE n > 3
  <2>1. n \in Nat
    BY <1>1, <1>2
  <2>2. /\ Len(t) - 2 = n - 3 /\ t[n - 3] = k[n - 2]
        /\ Len(t) - 3 = n - 4 /\ (n > 4 => t[n - 4] = k[n - 3])
    BY <1>3, <1>5, <2>1
  <2>3. CASE ParentOf(Users, t)
    <3>1. ParseOwner(t, "search") =
            IF n > 4 /\ k[n - 3].type = "uuid" THEN k[n - 3].value
            ELSE IF k[n - 2].type = "uuid" THEN k[n - 2].value ELSE None
      BY <1>3, <1>5, <2>1, <2>2, <2>3 DEF ParseOwner
    <3>2. ParseOwner(k, "add") =
            IF n > 4 /\ k[n - 3].type = "uuid" THEN k[n - 3].value
            ELSE IF k[n - 2].type = "uuid" THEN k[n - 2].value ELSE None
      BY <1>2, <1>5, <2>1 DEF ParseOwner
    <3> QED
      BY <1>2, <3>1, <3>2
  <2>4. CASE ~ParentOf(Users, t)
    BY <1>2, <2>4 DEF ParseOwner
  <2> QED
    BY <2>3, <2>4
<1> QED
  BY <1>1, <1>2, <1>4, <1>5

LEMMA FoundByText ==
    ASSUME NEW base, IsDn(base), Len(base) > 0, NEW k, IsDn(k), ParentOf(base, k) \/ base = k
    PROVE  EndsWith(k, base)
<1>1. Len(k) \in Nat /\ Len(base) \in Nat /\ Len(k) >= Len(base)
  BY DnIs DEF ParentOf
<1>2. SubSeq(k, Len(k) - Len(base) + 1, Len(k)) = base
  <2>1. CASE ParentOf(base, k)
    BY <2>1 DEF ParentOf
  <2>2. CASE base = k
    <3>1. SubSeq(k, 1, Len(k)) = [i \in 1 .. Len(k) |-> k[i]]
      BY <1>1
    <3> QED
      BY <1>1, <2>2, <3>1, DnIs
  <2> QED
    BY <2>1, <2>2
<1> QED
  BY <1>1, <1>2 DEF EndsWith

LEMMA BaseIs ==
    ASSUME NEW base \in Bases
    PROVE  IsDn(base) /\ Len(base) \in Nat /\ Len(base) > 1
<1>1. CASE base = Users
  BY <1>1, UsersIs
<1>2. CASE base \in Dns
  <2>1. IsDn(base) /\ ParentOf(Users, base)
    BY <1>2, ServerAssumption
  <2> QED
    BY <2>1, DnIs, UsersIs DEF ParentOf
<1> QED
  BY <1>1, <1>2 DEF Bases

(* What moray finds covers what the scope asks for, and validateDepth      *)
(* leaves nothing else.                                                    *)
LEMMA FoundIsScope ==
    ASSUME DeletableInv, NEW base \in Bases, NEW scope \in {"one", "sub"}
    PROVE  {k \in Matches(base, scope) : ValidateDepth(base, scope, k)} = InScope(base, scope)
<1>1. IsDn(base) /\ Len(base) \in Nat /\ Len(base) > 1
  BY BaseIs
<1>2. ASSUME NEW k \in Stored
      PROVE  k \in Matches(base, scope) /\ ValidateDepth(base, scope, k)
                <=> k \in InScope(base, scope)
  <2>1. IsDn(k) /\ Len(k) \in Nat /\ Len(k) > 1 /\ ParentOf(Users, k)
    BY <1>2, BaseIs, ServerAssumption DEF Stored, Bases
  <2>2. store[k].parent = Tail(k) /\ store[k].owner = ParseOwner(k, "add")
    BY <1>2 DEF DeletableInv, Shape
  <2>3. CASE scope = "one"
    <3>1. k \in InScope(base, scope) <=> Tail(k) = base
      BY <1>1, <1>2, <2>1, <2>3, OneLevel DEF InScope
    <3>2. Tail(k) = base => ParentOf(base, k) /\ Len(k) - Len(base) = 1
      BY <1>1, <2>1, OneLevel
    <3>3. Tail(k) = base => k \in Matches(base, scope)
      BY <1>2, <2>1, <2>2, <2>3, OwnersAgree DEF Matches
    <3>4. k \in Matches(base, scope) => Tail(k) = base
      BY <2>2, <2>3 DEF Matches
    <3> QED
      BY <2>3, <3>1, <3>2, <3>3, <3>4 DEF ValidateDepth
  <2>4. CASE scope = "sub"
    <3>1. ParentOf(base, k) \/ base = k => EndsWith(k, base)
      BY <1>1, <2>1, FoundByText
    <3> QED
      BY <1>2, <2>4, <3>1 DEF InScope, Matches, ValidateDepth
  <2> QED
    BY <2>3, <2>4
<1>3. Matches(base, scope) \subseteq Stored /\ InScope(base, scope) \subseteq Stored
  BY DEF Matches, InScope
<1> QED
  BY <1>2, <1>3

LEMMA BaseSent ==
    ASSUME NEW r \in Reqs, NEW q \in Request, q.op = "search", q.scope = "base",
           q.dn \in Stored \cup {Users}, Sent(r, q, {q.dn}, None)
    PROVE  ScopeExact'
<1>1. /\ last'.op = "search" /\ last'.base = q.dn /\ last'.scope = "base"
      /\ last'.sent = {q.dn} /\ last'.limit = None /\ store' = store
  BY DEF Sent
<1>2. InScope(q.dn, "base")' = {k \in Stored : k = q.dn}
  BY <1>1 DEF InScope, Stored
<1> QED
  BY <1>1, <1>2 DEF ScopeExact

LEMMA ChildrenSent ==
    ASSUME AccessInv, DeletableInv, NEW r \in Reqs, NEW limit \in {None, 1},
           req[r].q.op = "search" /\ req[r].q.scope \in {"one", "sub"},
           SearchChildren(r, limit)
    PROVE  ScopeExact'
<1> DEFINE q == req[r].q
           all == Matches(q.dn, q.scope)
           scope == InScope(q.dn, q.scope)
<1>1. q \in Request
  BY DEF SearchChildren, AccessInv, InProgress
<1>2. q.dn \in Bases
  BY <1>1 DEF Request, Bases
<1>3. PICK some \in SUBSET all :
         /\ IF limit = None \/ Cardinality(all) <= limit THEN some = all
                                                        ELSE Cardinality(some) = limit
         /\ Sent(r, q, {k \in some : ValidateDepth(q.dn, q.scope, k)}, limit)
  BY DEF SearchChildren
<1>4. {k \in all : ValidateDepth(q.dn, q.scope, k)} = scope
  BY <1>2, FoundIsScope
<1>5. PICK sent : sent = {k \in some : ValidateDepth(q.dn, q.scope, k)}
  OBVIOUS
<1>6. sent \subseteq scope /\ (limit = None => sent = scope)
  BY <1>3, <1>4, <1>5
<1>7. IsFiniteSet(all) /\ IsFiniteSet(scope) /\ IsFiniteSet(some)
  <2>1. all \subseteq Dns /\ scope \subseteq Dns /\ some \subseteq Dns
    BY DEF Matches, InScope, Stored
  <2> QED
    BY <2>1, ServerAssumption, FS_Subset
<1>8. ASSUME limit = 1, \A k \in Stored \ scope : ~EndsWith(k, q.dn)
      PROVE  Cardinality(sent) >= IF Cardinality(scope) < limit THEN Cardinality(scope) ELSE limit
  <2>1. all \subseteq scope
    <3>1. CASE q.scope = "sub"
      BY <1>8, <3>1 DEF Matches
    <3>2. CASE q.scope = "one"
      <4>1. ASSUME NEW k \in all PROVE k \in scope
        <5>1. k \in Stored /\ Tail(k) = q.dn
          BY <3>2 DEF Matches, DeletableInv, Shape
        <5>2. IsDn(k) /\ Len(k) > 0 /\ IsDn(q.dn)
          BY <1>2, <5>1, BaseIs DEF Stored, Bases
        <5> QED
          BY <3>2, <5>1, <5>2, OneLevel DEF InScope
      <4> QED
        BY <4>1
    <3> QED
      BY <3>1, <3>2
  <2>2. sent = some
    BY <1>4, <1>5, <2>1
  <2>3. CASE some = all
    <3>1. all = scope
      BY <1>4, <2>1
    <3> QED
      BY <1>7, <1>8, <2>2, <2>3, <3>1, FS_CardinalityType
  <2>4. CASE Cardinality(some) = limit
    BY <1>7, <1>8, <2>2, <2>4, FS_CardinalityType
  <2> QED
    BY <1>3, <2>3, <2>4
<1>9. /\ last'.base = q.dn /\ last'.scope = q.scope /\ last'.sent = sent
      /\ last'.limit = limit /\ store' = store
  BY <1>3, <1>5 DEF Sent
<1>10. Stored' = Stored /\ InScope(last.base, last.scope)' = scope
  BY <1>9 DEF InScope, Stored
<1> HIDE DEF q, all, scope
<1>11. None # 1 \/ limit = None \/ limit = 1
  OBVIOUS
<1> QED
  BY <1>6, <1>8, <1>9, <1>10 DEF ScopeExact

LEMMA ScopeStep == AccessInv /\ DeletableInv /\ ScopeExact /\ [Next]_vars => ScopeExact'
<1> SUFFICES ASSUME AccessInv, DeletableInv, ScopeExact, [Next]_vars PROVE ScopeExact'
  OBVIOUS
<1>1. CASE last' = None
  BY <1>1 DEF ScopeExact
<1>2. CASE UNCHANGED <<last, store>>
  BY <1>2 DEF ScopeExact, InScope, Stored
<1>3. ASSUME NEW r \in Reqs, NEW q \in Request, Work(r, q) PROVE ScopeExact'
  <2>1. CASE SearchBase(r, q)
    BY <1>1, <1>3, <2>1, BaseSent DEF SearchBase, Wait
  <2>2. CASE ~SearchBase(r, q)
    <3>1. q.op # "search" /\ last' = [op |-> q.op, could |-> q.could]
      BY <1>3, <2>2 DEF Work, Add, Modify, ModifyGroup, Delete, Done
    <3> QED
      BY <3>1 DEF ScopeExact
  <2> QED
    BY <2>1, <2>2
<1>4. ASSUME NEW r \in Reqs, NEW q \in Request, Arrive(r, q) PROVE ScopeExact'
  BY <1>1, <1>3, <1>4 DEF Arrive, Wait
<1>5. ASSUME NEW r \in Reqs, Authorized(r) PROVE ScopeExact'
  BY <1>3, <1>5 DEF Authorized, AccessInv, InProgress
<1>6. ASSUME NEW r \in Reqs, NEW limit \in {None, 1}, SearchChildren(r, limit)
      PROVE  ScopeExact'
  <2>1. req[r] \in InProgress /\ Entitled(req[r]) /\ req[r].at = "find"
    BY <1>6 DEF SearchChildren, AccessInv
  <2>2. req[r].q.op = "search" /\ req[r].q.scope \in {"one", "sub"}
    BY <2>1 DEF Entitled, InProgress, Request
  <2> QED
    BY <1>6, <2>2, ChildrenSent
<1>7. ASSUME NEW r \in Reqs, InsufficientAccess(r) \/ AuthorizeThrows(r) \/ Fails(r)
      PROVE  ScopeExact'
  BY <1>1, <1>7 DEF InsufficientAccess, AuthorizeThrows, Fails, Refused, Restarted
<1>8. CASE SetupNext
  BY <1>1, <1>2, <1>8 DEF SetupNext, Connected, UpdateBucketClog, UpdateBucketMain,
                          CheckReindexNeeded, Retry, SetupFails, Setup, Restarted
<1>9. CASE Tick \/ UNCHANGED vars
  BY <1>1, <1>2, <1>9 DEF Tick, vars
<1> QED
  BY <1>4, <1>5, <1>6, <1>7, <1>8, <1>9 DEF Next

(* A search sends exactly what its scope says, for any tree of entries of  *)
(* any depth, although moray is asked by owner or by text, and as many as  *)
(* its limit unless foreign DNs end like its base (lib/db/search.js).      *)
THEOREM ScopeExactHolds == Spec => []ScopeExact
<1>1. Init => AccessInv /\ DeletableInv /\ ScopeExact
  BY DeletableInit DEF Init, AccessInv, OnlyAuthorized, ScopeExact
<1>2. AccessInv /\ DeletableInv /\ ScopeExact /\ [Next]_vars =>
        (AccessInv /\ DeletableInv /\ ScopeExact)'
  BY AccessStep, DeletableStep, ScopeStep
<1> QED
  BY <1>1, <1>2, PTL DEF Spec

-----------------------------------------------------------------------------
(* Types.                                                                  *)
(* The owner of an entry is the uuid of an RDN above it.                   *)
LEMMA OwnerIsUuid ==
    ASSUME NEW dn \in Dns
    PROVE  ParseOwner(dn, "add") \in Uuids \cup {None}
<1>1. IsDn(dn) /\ ParentOf(Users, dn)
  BY ServerAssumption
<1>2. Len(dn) \in Nat /\ Len(dn) > 2
  BY <1>1, DnIs, UsersIs DEF ParentOf
<1>3. ASSUME NEW i \in 1 .. Len(dn), dn[i].type = "uuid" PROVE dn[i].value \in Uuids
  BY <1>3, ServerAssumption
<1>4. CASE Len(dn) >= 5
  <2>1. Len(dn) - 3 \in 1 .. Len(dn) /\ Len(dn) - 2 \in 1 .. Len(dn)
    BY <1>2, <1>4
  <2> QED
    BY <1>3, <2>1 DEF ParseOwner
<1>5. CASE Len(dn) < 5
  <2>1. Len(dn) - 2 \in 1 .. Len(dn) /\ ~(Len(dn) >= 5)
    BY <1>2, <1>5
  <2> QED
    BY <1>3, <2>1 DEF ParseOwner
<1> QED
  BY <1>2, <1>4, <1>5

(* Nobody is served by a process that does not listen, and the buckets are *)
(* no newer than they ever were.                                           *)
ServingInv ==
    /\ server \in {"connecting", "clog", "main", "check", "backoff", "listening"}
    /\ buckets \in [Buckets -> 0 .. Version + 1]
    /\ \A r \in Reqs : req[r] # None => server = "listening"
    /\ \A dn \in Stored : store[dn].parent \in Bases
    /\ group \subseteq Binders
    /\ now \in 0 .. MaxTime

LEMMA ServingInit == Init => ServingInv
<1> SUFFICES ASSUME Init PROVE ServingInv
  OBVIOUS
<1>1. Version \in Nat /\ MaxTime \in Nat /\ Found \subseteq 0 .. Version + 1
  BY ServerAssumption
<1>2. \A dn \in Stored : store[dn].parent \in Bases
  BY InheritedAssumption DEF Init, Stored, Object
<1> QED
  BY <1>1, <1>2 DEF Init, ServingInv

LEMMA ServingPut ==
    ASSUME ServingInv, NEW b \in Buckets, PutBucket(b)
    PROVE  buckets' \in [Buckets -> 0 .. Version + 1]
BY ServerAssumption DEF ServingInv, PutBucket

(* The steps of a request that is served.                                  *)
LEMMA ServingWork ==
    ASSUME AccessInv, DeletableInv, ServingInv, server = "listening",
           NEW r \in Reqs, NEW q \in Request, Work(r, q)
    PROVE  ServingInv'
<1>1. UNCHANGED <<server, buckets, now>> /\ group' \subseteq Binders
  BY DEF Work, Add, Modify, ModifyGroup, Delete, SearchBase, Sent, Wait, Done, ServingInv
<1>2. ASSUME NEW dn \in Stored' PROVE store'[dn].parent \in Bases
  <2>0. dn \in Dns /\ store'[dn] # None
    BY DEF Stored
  <2>1. CASE store'[dn] = store[dn]
    BY <2>0, <2>1 DEF ServingInv, Stored
  <2>2. CASE store'[dn] # store[dn]
    <3>1. Shape(dn, store'[dn]) /\ store'[dn].parent = Tail(dn)
      <4>1. DeletableInv'
        BY DeletableWork
      <4> QED
        BY <4>1 DEF DeletableInv, Shape
    <3>2. PICK e, x, put, drop : Batch(q.dn, e, x, put, drop)
      BY <2>0, <2>2 DEF Work, Add, Modify, ModifyGroup, Delete, SearchBase, Sent, Wait
    <3>3. CASE store[dn] = None
      <4>1. q.dn = dn
        BY <2>0, <2>2, <3>2, <3>3 DEF Batch, Others, Stored
      <4>2. \E f, forced : Add(r, q, f, forced)
        BY <2>0, <2>2, <3>3, <4>1 DEF Work, Modify, ModifyGroup, Delete, SearchBase, Sent, Wait
      <4>3. Tail(dn) \in Stored \cup {Users}
        BY <4>1, <4>2 DEF Add
      <4> QED
        BY <3>1, <4>3 DEF Bases, Stored
    <3>4. CASE store[dn] # None
      <4>1. store[dn].parent = Tail(dn) /\ store[dn].parent \in Bases
        BY <2>0, <3>4 DEF DeletableInv, Shape, ServingInv, Stored
      <4> QED
        BY <3>1, <4>1
    <3> QED
      BY <3>3, <3>4
  <2> QED
    BY <2>1, <2>2
<1> QED
  BY <1>1, <1>2 DEF ServingInv

LEMMA ServingStep ==
    AccessInv /\ DeletableInv /\ ServingInv /\ [Next]_vars => ServingInv'
<1> SUFFICES ASSUME AccessInv, DeletableInv, ServingInv, [Next]_vars PROVE ServingInv'
  OBVIOUS
<1>1. ASSUME UNCHANGED <<buckets, store, group>>, now' \in 0 .. MaxTime,
             server' \in {"connecting", "clog", "main", "check", "backoff", "listening"},
             \A r \in Reqs : req'[r] # None => server' = "listening"
      PROVE  ServingInv'
  BY <1>1 DEF ServingInv, Stored
<1>2. CASE Restarted
  BY <1>1, <1>2 DEF Restarted, ServingInv
<1>3. CASE UpdateBucketClog \/ UpdateBucketMain
  <2>1. buckets' \in [Buckets -> 0 .. Version + 1]
    BY <1>3, ServingPut DEF UpdateBucketClog, UpdateBucketMain, Buckets
  <2> QED
    BY <1>3, <2>1 DEF UpdateBucketClog, UpdateBucketMain, Setup, ServingInv, Stored
<1>4. CASE Connected \/ CheckReindexNeeded \/ Retry
            \/ \E at \in {"clog", "main", "check"} : SetupFails(at)
  BY <1>1, <1>4 DEF Connected, CheckReindexNeeded, Retry, SetupFails, Setup, ServingInv
<1>5. ASSUME NEW r \in Reqs, NEW q \in Request, Arrive(r, q) PROVE ServingInv'
  <2>1. CASE Owns(q.by, q.dn)
    BY <1>5, <2>1, ServingWork DEF Arrive
  <2>2. CASE ~Owns(q.by, q.dn)
    BY <1>1, <1>5, <2>2 DEF Arrive, Wait, ServingInv
  <2> QED
    BY <2>1, <2>2
<1>6. ASSUME NEW r \in Reqs, Authorized(r) PROVE ServingInv'
  <2>1. req[r].q \in Request /\ server = "listening"
    BY <1>6 DEF Authorized, AccessInv, InProgress, ServingInv
  <2> QED
    BY <1>6, <2>1, ServingWork DEF Authorized
<1>7. ASSUME NEW r \in Reqs, Refused(r) \/ \E q, sent, limit : Sent(r, q, sent, limit)
      PROVE  ServingInv'
  <2>1. \A t \in Reqs : req'[t] # None => req[t] # None
    BY <1>7 DEF Refused, Sent, AccessInv
  <2> QED
    BY <1>1, <1>7, <2>1 DEF Refused, Sent, ServingInv
<1>8. CASE Tick \/ UNCHANGED vars
  <2>1. now' \in 0 .. MaxTime
    BY <1>8, ServerAssumption DEF Tick, vars, ServingInv
  <2> QED
    BY <1>1, <1>8, <2>1 DEF Tick, vars, ServingInv
<1> QED
  BY <1>2, <1>3, <1>4, <1>5, <1>6, <1>7, <1>8
  DEF Next, SetupNext, InsufficientAccess, AuthorizeThrows, Fails, SearchChildren

(* A request is in progress at a process that listens only, and an entry   *)
(* that is stored names its parent and the account or user that owns it.   *)
THEOREM TypesHold == Spec => []TypeOK
<1>1. Init => AccessInv /\ DeletableInv /\ ServingInv
  BY DeletableInit, ServingInit DEF Init, AccessInv, OnlyAuthorized
<1>2. AccessInv /\ DeletableInv /\ ServingInv /\ [Next]_vars =>
        (AccessInv /\ DeletableInv /\ ServingInv)'
  BY AccessStep, DeletableStep, ServingStep
<1>3. AccessInv /\ DeletableInv /\ ServingInv => TypeOK
  <2> SUFFICES ASSUME AccessInv, DeletableInv, ServingInv PROVE TypeOK
    OBVIOUS
  <2>1. \A dn \in Stored : store[dn].owner \in Uuids \cup {None}
    BY OwnerIsUuid DEF DeletableInv, Shape, Stored
  <2>2. \A r \in Reqs : req[r] # None => req[r].q \in Request /\ req[r].at \in {"group", "find"}
    BY DEF AccessInv, InProgress
  <2>3. DOMAIN store = Dns
    BY DEF DeletableInv
  <2> QED
    BY <2>1, <2>2, <2>3 DEF ServingInv, TypeOK
<1> QED
  BY <1>1, <1>2, <1>3, PTL DEF Spec

=============================================================================
