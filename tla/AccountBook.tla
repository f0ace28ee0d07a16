---------------------------- MODULE AccountBook ----------------------------
(***************************************************************************)
(* What accounts promise, without requests, reads or saves: an e-mail is   *)
(* registered once, its account may get a role once, unless it was         *)
(* registered with one, and its owner fills in the profile field by field. *)
(***************************************************************************)
EXTENDS Integers

CONSTANTS UserId, Email, Password, Value, Field, SelfAssignable, Null

VARIABLE account   \* the accounts, by their ids

Account ==
  [email : Email, password : Password,
   role : SelfAssignable \cup {"support_agent", Null},
   profile : [Field -> Value \cup {Null}]]

BookTypeOK ==
  /\ DOMAIN account \subseteq UserId
  /\ account \in [DOMAIN account -> Account]

BookInit == account = [u \in {} |-> Null]

Free(email) == \A u \in DOMAIN account : account[u].email # email

Register(u, new) ==
  /\ u \notin DOMAIN account
  /\ Free(new.email)
  /\ new.role \in {Null, "support_agent"}
  /\ account' = [v \in DOMAIN account \cup {u} |->
                   IF v = u THEN new ELSE account[v]]

AssignRole(u, role) ==
  /\ u \in DOMAIN account
  /\ account[u].role = Null
  /\ account' = [account EXCEPT ![u].role = role]

Edit(u, values) ==
  /\ u \in DOMAIN account
  /\ account' = [account EXCEPT ![u].profile =
                   [f \in Field |-> IF f \in DOMAIN values THEN values[f] ELSE @[f]]]

BookNext ==
  \E u \in UserId :
    \/ \E new \in Account : Register(u, new)
    \/ \E role \in SelfAssignable : AssignRole(u, role)
    \/ \E sent \in SUBSET Field : \E values \in [sent -> Value] : Edit(u, values)

BookSpec == BookInit /\ [][BookNext]_account

-----------------------------------------------------------------------------
(* What follows for those who have an account.                             *)

\* An e-mail names one account.
EmailsDiffer ==
  \A u, v \in DOMAIN account : account[u].email = account[v].email => u = v

\* After the step account u is still there, with its credentials, the role it has
\* got, and something in every field that was filled in.
Retained(u) ==
  /\ u \in DOMAIN account'
  /\ account'[u].email = account[u].email
  /\ account'[u].password = account[u].password
  /\ account[u].role # Null => account'[u].role = account[u].role
  /\ \A f \in Field :
       account[u].profile[f] \in Value => account'[u].profile[f] \in Value

\* No step takes an account away, or what it has got.
NothingIsForgotten == [][\A u \in DOMAIN account : Retained(u)]_account
=============================================================================
