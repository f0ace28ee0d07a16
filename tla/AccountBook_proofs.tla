------------------------- MODULE AccountBook_proofs -------------------------
EXTENDS AccountBook, TLAPS

-----------------------------------------------------------------------------
(* What a step makes of the accounts.                                      *)

\* The account u is e after the step, and every other account is as it was.
Becomes(u, e) ==
  /\ DOMAIN account' = DOMAIN account \cup {u}
  /\ account' \in [DOMAIN account' -> Account]
  /\ account'[u] = e
  /\ \A v \in DOMAIN account : v # u => account'[v] = account[v]

LEMMA RegisterStep ==
  ASSUME BookTypeOK, NEW u \in UserId, NEW new \in Account, Register(u, new)
  PROVE  u \notin DOMAIN account /\ Becomes(u, new)
BY DEF Register, Becomes, BookTypeOK

\* The step is one on account u, which is there.
Kept(u) == u \in DOMAIN account /\ Retained(u) /\ Becomes(u, account'[u])

LEMMA ChangeStep ==
  ASSUME BookTypeOK, NEW u \in DOMAIN account, NEW e \in Account,
         account' = [account EXCEPT ![u] = e]
  PROVE  account'[u] = e /\ Becomes(u, e)
BY DEF Becomes, BookTypeOK

LEMMA AssignRoleStep ==
  ASSUME BookTypeOK, NEW u \in UserId, NEW role \in SelfAssignable, AssignRole(u, role)
  PROVE  Kept(u)
<1> DEFINE e == [account[u] EXCEPT !.role = role]
<1>1. u \in DOMAIN account /\ account[u] \in Account /\ account[u].role = Null
  BY DEF AssignRole, BookTypeOK
<1>2. /\ e \in Account /\ e.email = account[u].email
      /\ e.password = account[u].password /\ e.profile = account[u].profile
  BY <1>1 DEF Account
<1>3. account' = [account EXCEPT ![u] = e]
  BY DEF AssignRole
<1> HIDE DEF e
<1> QED
  BY <1>1, <1>2, <1>3, ChangeStep DEF Kept, Retained, Becomes

LEMMA EditStep ==
  ASSUME BookTypeOK, NEW u \in UserId, NEW sent \in SUBSET Field,
         NEW values \in [sent -> Value], Edit(u, values)
  PROVE  Kept(u)
<1> DEFINE profile == [f \in Field |-> IF f \in sent THEN values[f]
                                                     ELSE account[u].profile[f]]
           e == [account[u] EXCEPT !.profile = profile]
<1>1. u \in DOMAIN account /\ account[u] \in Account
  BY DEF Edit, BookTypeOK
<1>2. /\ profile \in [Field -> Value \cup {Null}]
      /\ \A f \in Field : account[u].profile[f] \in Value => profile[f] \in Value
  BY <1>1 DEF Account
<1>3. account' = [account EXCEPT ![u] = e]
  BY DEF Edit
<1> HIDE DEF profile
<1>4. /\ e \in Account /\ e.email = account[u].email
      /\ e.password = account[u].password /\ e.role = account[u].role
      /\ e.profile = profile
  BY <1>1, <1>2 DEF Account
<1> HIDE DEF e
<1> QED
  BY <1>1, <1>2, <1>3, <1>4, ChangeStep DEF Kept, Retained, Becomes

LEMMA BookStep ==
  ASSUME BookTypeOK, BookNext
  PROVE  \E u \in UserId :
           \/ /\ u \notin DOMAIN account
              /\ \E new \in Account : Free(new.email) /\ Becomes(u, new)
           \/ Kept(u)
<1>1. ASSUME NEW u \in UserId, NEW new \in Account, Register(u, new)
      PROVE  u \notin DOMAIN account /\ Free(new.email) /\ Becomes(u, new)
  BY <1>1, RegisterStep DEF Register
<1> QED
  BY <1>1, AssignRoleStep, EditStep DEF BookNext

-----------------------------------------------------------------------------
(* The invariant of the book.                                              *)

LEMMA BookInvNext ==
  BookTypeOK /\ EmailsDiffer /\ [BookNext]_account => BookTypeOK' /\ EmailsDiffer'
<1> SUFFICES ASSUME BookTypeOK, EmailsDiffer, [BookNext]_account
             PROVE  BookTypeOK' /\ EmailsDiffer'
  OBVIOUS
<1>1. CASE UNCHANGED account
  BY <1>1 DEF BookTypeOK, EmailsDiffer
<1>2. ASSUME NEW u \in UserId, NEW e, Becomes(u, e)
      PROVE  BookTypeOK'
  BY <1>2 DEF Becomes, BookTypeOK
<1>3. ASSUME NEW u \in UserId, NEW new \in Account, u \notin DOMAIN account,
             Free(new.email), Becomes(u, new)
      PROVE  EmailsDiffer'
  BY <1>3 DEF Becomes, Free, EmailsDiffer
<1>4. ASSUME NEW u \in UserId, Kept(u)
      PROVE  EmailsDiffer'
  BY <1>4 DEF Kept, Retained, Becomes, EmailsDiffer
<1> QED
  BY <1>1, <1>2, <1>3, <1>4, BookStep DEF Kept

\* The invariant of the book: its type, and that no two accounts share an e-mail
THEOREM BookInvariance == BookSpec => [](BookTypeOK /\ EmailsDiffer)
<1>1. BookInit => BookTypeOK /\ EmailsDiffer
  BY DEF BookInit, BookTypeOK, EmailsDiffer
<1> QED
  BY <1>1, BookInvNext, PTL DEF BookSpec

\* The accounts of the book stay in their type.
THEOREM TypeCorrect == BookSpec => []BookTypeOK
  BY BookInvariance, PTL

\* No e-mail is registered twice.
THEOREM EmailsAreUnique == BookSpec => []EmailsDiffer
  BY BookInvariance, PTL

-----------------------------------------------------------------------------
(* What an account has, it keeps.                                          *)

LEMMA AccountNext ==
  ASSUME BookTypeOK, [BookNext]_account, NEW u \in DOMAIN account
  PROVE  Retained(u)
<1>1. CASE UNCHANGED account
  BY <1>1 DEF Retained
<1>2. ASSUME NEW v \in UserId, NEW e, Becomes(v, e), v # u
      PROVE  u \in DOMAIN account' /\ account'[u] = account[u]
  BY <1>2 DEF Becomes
<1> QED
  BY <1>1, <1>2, BookStep DEF Kept, Retained

\* No account, e-mail, password, role or filled field is ever lost.
THEOREM AccountsAreKept == BookSpec => NothingIsForgotten
<1>1. BookTypeOK /\ [BookNext]_account => \A u \in DOMAIN account : Retained(u)
  BY AccountNext
<1> QED
  BY <1>1, TypeCorrect, PTL DEF BookSpec, NothingIsForgotten
=============================================================================
