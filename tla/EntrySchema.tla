----------------------------- MODULE EntrySchema -----------------------------
(***************************************************************************)
(* The names of UFDS entries and what an entry must satisfy to be stored:  *)
(* lib/schema, the classes of schema/ for accounts, their users, their     *)
(* roles and policies and their access keys, lib/owner.js, and the tests   *)
(* of DNs that authorization and searches make.                            *)
(*                                                                         *)
(* A DN is the sequence of its RDNs, the entry's own first.  An entry is a *)
(* record of the attributes the validators tell apart; login, email and    *)
(* other plain text are left out.  A role's lists of members are sets,     *)
(* since only validated writes make them and those name nobody twice; the  *)
(* lists that link roles and policies, which others' writes change without *)
(* any validation, are bags.                                               *)
(***************************************************************************)
EXTENDS Naturals, Sequences

CONSTANTS
    Uuids,          \* what uuid, account and ids may hold
    Classes,        \* what objectclass may hold
    None,
    IsMaster        \* config.ufds_is_master

ASSUME SchemaAssumption == IsMaster \in BOOLEAN /\ None \notin Uuids

-----------------------------------------------------------------------------
IsDn(x) == x \in Seq({x[i] : i \in DOMAIN x})

(* ldapjs: parentOf, childOf and equals.                                   *)
ParentOf(x, y) ==
    Len(x) < Len(y) /\ SubSeq(y, Len(y) - Len(x) + 1, Len(y)) = x

Organization == [type |-> "o", value |-> "smartdc"]

Suffix == <<Organization>>

Users == <<[type |-> "ou", value |-> "users"], Organization>>

AccountDn(a) == <<[type |-> "uuid", value |-> a]>> \o Users

\* Mutant: the first RDN below the account is not looked at twice (CAPI-376).
ParseOwnerOfSelf(dn, op) ==
    LET n == Len(dn)
        rdn == dn[n - 2]
        owned == n >= 4
    IN  IF ~ParentOf(Users, dn) THEN None
        ELSE IF owned /\ dn[n - 3].type = "uuid" THEN dn[n - 3].value
        ELSE IF rdn.type = "uuid" THEN rdn.value
        ELSE None

(* Who owns what is added at dn, or what is found one level below it: a    *)
(* user of an account owns what is below the user, the account the rest.   *)
ParseOwner(dn, op) ==
    LET n == Len(dn)
        rdn == dn[n - 2]
        owned == n >= 5 \/ (n = 4 /\ op # "add")
    IN  IF ~ParentOf(Users, dn) THEN None
        ELSE IF owned /\ dn[n - 3].type = "uuid" THEN dn[n - 3].value
        ELSE IF rdn.type = "uuid" THEN rdn.value
        ELSE None

(* A DN's distance from a search's base, as far as scopes need it.         *)
ValidateDepth(base, scope, dn) ==
    LET dist == Len(dn) - Len(base)
    IN  /\ ParentOf(base, dn) \/ base = dn
        /\ scope = "sub" \/ (scope = "one" /\ dist = 1)

(* The attribute types of RDNs whose text ends with "uuid".                *)
EndsWithUuid == {"uuid", "role-uuid", "policy-uuid", "resource-uuid"}

(* moray compares text: the filter for a subtree is that the key ends with *)
(* the base's DN.                                                          *)
EndsWith(key, base) ==
    /\ Len(key) >= Len(base)
    /\ LET k == SubSeq(key, Len(key) - Len(base) + 1, Len(key))
       IN  /\ Tail(k) = Tail(base)
           /\ k[1].value = base[1].value
           /\ k[1].type = base[1].type \/ (base[1].type = "uuid" /\ k[1].type \in EndsWithUuid)

-----------------------------------------------------------------------------
(* Entries.                                                                *)
Entry(Dn, Time) ==
    [objectclass : Seq(Classes),
     id : Seq(Uuids),                   \* uuid, or accesskeyid
     account : Seq(Uuids),
     uniquemember : SUBSET Dn,
     uniquememberdefault : SUBSET Dn,
     links : [Dn -> Nat],               \* how often a role's memberpolicy names a
                                        \* DN, or a policy's memberrole
     temporary : BOOLEAN,               \* credentialtype
     expiration : Time \cup {None},
     imported : BOOLEAN]                \* _imported, or _replicated on a replica

Known == {"sdcperson", "sdcaccountuser", "sdcaccountrole", "sdcaccountpolicy", "accesskey"}

ASSUME ClassesAssumption == Known \subseteq Classes

(* Validator: the attributes a class requires, one value of each.  The     *)
(* loop over the optional ones compares a number with an array and never   *)
(* runs: neither their number nor strict is enforced.                      *)
Required(e, oc) ==
    /\ oc \in Known \ {"sdcaccountuser"} => Len(e.id) = 1
    /\ oc \in {"sdcaccountuser", "sdcaccountrole", "sdcaccountpolicy"} => Len(e.account) = 1

PersonValid(e, dn, changed) ==
    \/ e.imported
    \/ /\ (dn[1].type = "uuid" => dn[1].value = e.id[1])
       /\ "id" \notin changed

UserValid(e, dn) ==
    \/ e.imported
    \/ dn[2].type # "uuid"
    \/ dn[2].value = e.account[1]

NamesOnce(e) == \A k \in DOMAIN e.links : e.links[k] <= 1

(* What roles and policies have in common.                                 *)
LinkedValid(e, dn, type, changed) ==
    /\ NamesOnce(e)
    /\ dn[2].type = "uuid" => dn[2].value = e.account[1]
    /\ dn[1].type = type => dn[1].value = e.id[1]
    /\ "id" \notin changed

RoleValid(e, dn, changed) ==
    /\ e.uniquememberdefault \subseteq e.uniquemember
    /\ LinkedValid(e, dn, "role-uuid", changed)

PolicyValid(e, dn, changed) == LinkedValid(e, dn, "policy-uuid", changed)

\* Mutant: what has expired is refused whatever is done with it.
KeyValidAlways(e, changed, op, now) ==
    \/ ~IsMaster
    \/ /\ e.temporary => (e.expiration # None /\ e.expiration > now)
       /\ "id" \notin changed

(* On del a credential may have expired.                                   *)
KeyValid(e, changed, op, now) ==
    \/ ~IsMaster
    \/ /\ e.temporary => (e.expiration # None /\ (op = "del" \/ e.expiration > now))
       /\ "id" \notin changed

Validate(e, dn, oc, changed, op, now) ==
    /\ Required(e, oc)
    /\ oc = "sdcperson" => PersonValid(e, dn, changed)
    /\ oc = "sdcaccountuser" => UserValid(e, dn)
    /\ oc = "sdcaccountrole" => RoleValid(e, dn, changed)
    /\ oc = "sdcaccountpolicy" => PolicyValid(e, dn, changed)
    /\ oc = "accesskey" => KeyValid(e, changed, op, now)

(* Every class of the entry is known and satisfied.                        *)
RunValidations(e, dn, changed, op, now) ==
    /\ e.objectclass # <<>>
    /\ \A i \in 1 .. Len(e.objectclass) :
        /\ e.objectclass[i] \in Known
        /\ Validate(e, dn, e.objectclass[i], changed, op, now)

=============================================================================
