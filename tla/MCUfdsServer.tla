---------------------------- MODULE MCUfdsServer ----------------------------
(***************************************************************************)
(* A small instance of UfdsServer for TLC: an account, a user of it, a     *)
(* role of it whose uuid is the user's, a policy of it and an access key   *)
(* of the user.                                                            *)
(***************************************************************************)
EXTENDS UfdsServer

CONSTANTS a, u

Account == AccountDn(a)
User == <<[type |-> "uuid", value |-> u]>> \o Account
Role == <<[type |-> "role-uuid", value |-> u]>> \o Account
Policy == <<[type |-> "policy-uuid", value |-> u]>> \o Account
AccessKey == <<[type |-> "accesskeyid", value |-> u]>> \o User

MCDns == {Account, User, Role, Policy, AccessKey}

MCRoot == <<[type |-> "cn", value |-> "root"]>>

MCBinders == {MCRoot, User}

MCGroup ==
    <<[type |-> "cn", value |-> "operators"], [type |-> "ou", value |-> "groups"]>> \o Suffix

MCClasses == Known

Plain ==
    [objectclass |-> <<>>, id |-> <<u>>, account |-> <<>>, uniquemember |-> {},
     uniquememberdefault |-> {}, links |-> [dn \in MCDns |-> 0], temporary |-> FALSE,
     expiration |-> None, imported |-> FALSE]

MCInputs(dn) ==
    CASE dn = Account ->
            {[Plain EXCEPT !.objectclass = <<"sdcperson">>, !.id = <<a>>]}
      [] dn = User ->
            {[Plain EXCEPT !.objectclass = <<"sdcperson">>, !.account = x] : x \in {<<>>, <<u>>}}
      [] dn = Role ->
            {[Plain EXCEPT !.objectclass = <<"sdcaccountrole">>, !.account = <<a>>,
                           !.uniquemember = {User}, !.uniquememberdefault = {User},
                           !.links[Policy] = n] : n \in {0, 1}}
      [] dn = Policy ->
            {[Plain EXCEPT !.objectclass = <<"sdcaccountpolicy">>, !.account = <<a>>,
                           !.links[Role] = n] : n \in {0, 1}}
      [] dn = AccessKey ->
            {[Plain EXCEPT !.objectclass = <<"accesskey">>, !.temporary = TRUE,
                           !.expiration = 1]}
      [] OTHER -> {}

(* Nothing, or an account with a user that has an access key without the   *)
(* attributes that are required today.                                     *)
Old(dn, e, invalid) ==
    [entry |-> e, owner |-> ParseOwner(dn, "add"), parent |-> Tail(dn),
     invalid |-> invalid, doubled |-> FALSE]

MCInherited ==
    LET person == [Plain EXCEPT !.objectclass = <<"sdcperson">>]
        key == [Plain EXCEPT !.objectclass = <<"accesskey">>, !.id = <<>>]
    IN  {[dn \in MCDns |-> None],
         [dn \in MCDns |->
            CASE dn = Account -> Old(dn, [person EXCEPT !.id = <<a>>], FALSE)
              [] dn = User -> Old(dn, person, FALSE)
              [] dn = AccessKey -> Old(dn, key, TRUE)
              [] OTHER -> None]}

=============================================================================
