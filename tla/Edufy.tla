------------------------------- MODULE Edufy -------------------------------
(***************************************************************************)
(* The application: accounts and the shop in one process, over one user    *)
(* table.                                                                  *)
(*                                                                         *)
(* JwtGuard reads the caller's row and the role is checked at once; the    *)
(* course or the purchase is written several awaits later, while requests  *)
(* of the accounts' side may change the row.                               *)
(***************************************************************************)
EXTENDS Integers, FiniteSets

CONSTANTS
  UserId, Email, Password, Field, Value,             \* of Users
  CourseId, PurchaseId, Price, Timestamp,            \* of Purchases
  AccountRequest, ShopRequest,  \* slots for requests in flight to either
  Null,
  MaxFaults                     \* bound of the faults of either

VARIABLES
  user, token, accountReq, accountFaults,
  course, purchase, enrollment, intent, paidAt, acked, shopReq, shopFaults,
  raced   \* history: users whose role, once assigned, was replaced

\* The components come with the theorems about them.
U == INSTANCE Users_proofs WITH
       Request <- AccountRequest, req <- accountReq, faults <- accountFaults
P == INSTANCE Purchases_proofs WITH
       Request <- ShopRequest, req <- shopReq, faults <- shopFaults

accounts == <<user, token, accountReq, accountFaults>>
shop == <<course, purchase, enrollment, intent, paidAt, acked, shopReq, shopFaults>>
vars == <<accounts, shop, raced>>

ASSUME EdufyAssumption ==
  /\ MaxFaults \in Nat
  /\ "name" \in Field
  /\ Null \notin U!UserEntity
  /\ Null \notin UserId \cup Value \cup U!Role
  /\ Null \notin P!CourseEntity \cup P!PurchaseEntity \cup P!Sale
  /\ Null \notin PurchaseId \cup Price \cup Timestamp

Init == U!Init /\ P!Init /\ raced = {}

\* The user JwtGuard attaches to a request for a handler of the shop
CallerOf(u) == [id |-> u, role |-> user[u].role]

\* One statement of a request about an account
AccountStep ==
  /\ \E r \in AccountRequest : U!Serve(r)
  /\ raced' = raced \cup
       {u \in U!Stored : /\ user[u].role # Null
                         /\ user'[u].role # user[u].role}
  /\ UNCHANGED shop

\* POST /courses and POST /courses/:id/checkout
Enter(r, u) ==
  /\ U!Authenticated(u)
  /\ \/ \E price \in Price : P!CreateCourse(r, CallerOf(u), price)
     \/ \E c \in CourseId : P!CheckoutCourse(r, CallerOf(u), c)

\* One statement of a request to the shop, or a step of the payment gateway
ShopStep ==
  /\ \/ \E r \in ShopRequest :
          \/ \E u \in UserId : Enter(r, u)
          \/ \E p \in PurchaseId : P!Deliver(r, p)
          \/ \E t \in Timestamp : P!DeliverForeign(r, t)
          \/ P!Handle(r)
          \/ P!Reject(r)
     \/ \E p \in PurchaseId, t \in Timestamp : P!Pay(p, t)
  /\ UNCHANGED <<accounts, raced>>

\* There is one process: what dies with it is the work of both.
Crash == U!Crash /\ P!Crash /\ UNCHANGED raced

Next == AccountStep \/ ShopStep \/ Crash

Spec == Init /\ [][Next]_vars

-----------------------------------------------------------------------------
(* Properties.                                                             *)

\* u has, or had until two requests of u's raced for it, the role
Had(u, role) == user[u] # Null /\ (user[u].role = role \/ u \in raced)

\* A course is taught by an account that is an instructor, and bought and
\* attended by one that is a student: the role was checked on a row read
\* several awaits before the course or the purchase was written, and may have
\* been replaced meanwhile or since only if requests of the account itself
\* raced.  In particular the foreign keys to the user table refuse no row.
RolesRespected ==
  /\ \A c \in CourseId : course[c] # Null => Had(course[c].instructorId, "instructor")
  /\ \A p \in PurchaseId : purchase[p] # Null => Had(purchase[p].userId, "student")
  /\ \A u \in UserId, c \in CourseId : <<u, c>> \in enrollment => Had(u, "student")

\* What the "Only instructors" and "Only students" checks say, of the rows as they
\* are: the account has the role now, raced or not.
Has(u, role) == user[u] # Null /\ user[u].role = role

RolesHeld ==
  /\ \A c \in CourseId : course[c] # Null => Has(course[c].instructorId, "instructor")
  /\ \A p \in PurchaseId : purchase[p] # Null => Has(purchase[p].userId, "student")
  /\ \A u \in UserId, c \in CourseId : <<u, c>> \in enrollment => Has(u, "student")

Agent(u) == user[u] # Null /\ user[u].role = "support_agent"

\* Support agents have no part in the shop, and no race of theirs gives them
\* one: who teaches, buys or attends a course is not, and never becomes, an agent.
AgentsStayOut ==
  /\ \A c \in CourseId : course[c] # Null => ~Agent(course[c].instructorId)
  /\ \A p \in PurchaseId : purchase[p] # Null => ~Agent(purchase[p].userId)
  /\ \A u \in UserId, c \in CourseId : <<u, c>> \in enrollment => ~Agent(u)

-----------------------------------------------------------------------------
(* The inductive invariant.                                                *)

\* u may appear in the shop in the role
Fit(u, role) == Had(u, role) /\ ~Agent(u)

RowsFit ==
  /\ \A c \in CourseId : course[c] # Null => Fit(course[c].instructorId, "instructor")
  /\ \A p \in PurchaseId : purchase[p] # Null => Fit(purchase[p].userId, "student")

\* So may those whose course or purchase is not yet written.
RequestsFit ==
  \A r \in ShopRequest :
    /\ shopReq[r].pc = "saveCourse" => Fit(shopReq[r].instructorId, "instructor")
    /\ shopReq[r].pc \in {"findCourse", "findPurchases", "savePurchase"} =>
         Fit(shopReq[r].userId, "student")

IInv == U!IInv /\ P!IInv /\ RowsFit /\ RequestsFit
=============================================================================
