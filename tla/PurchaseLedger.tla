-------------------------- MODULE PurchaseLedger --------------------------
(***************************************************************************)
(* What the purchase service promises, without requests, statements or     *)
(* deliveries: a purchase is opened for one student, one course and one    *)
(* price; it is paid; it is completed; its student is enrolled.  Each of   *)
(* these happens at most once, in this order, and is final.                *)
(***************************************************************************)
CONSTANTS UserId, CourseId, PurchaseId, Price, Null

VARIABLES
  order,      \* what was ordered under each purchase id, or Null
  paid,       \* purchases the student paid
  completed,  \* purchases the application took as completed
  enrolled    \* <<student, course>> pairs with access

ledger == <<order, paid, completed, enrolled>>

Order == [userId : UserId, courseId : CourseId, price : Price]

LedgerInit ==
  /\ order = [p \in PurchaseId |-> Null]
  /\ paid = {}
  /\ completed = {}
  /\ enrolled = {}

Open(p, o) ==
  /\ order[p] = Null
  /\ order' = [order EXCEPT ![p] = o]
  /\ UNCHANGED <<paid, completed, enrolled>>

PayFor(p) ==
  /\ order[p] # Null
  /\ paid' = paid \cup {p}
  /\ UNCHANGED <<order, completed, enrolled>>

Complete(p) ==
  /\ p \in paid
  /\ completed' = completed \cup {p}
  /\ UNCHANGED <<order, paid, enrolled>>

Admit(p) ==
  /\ p \in completed
  /\ enrolled' = enrolled \cup {<<order[p].userId, order[p].courseId>>}
  /\ UNCHANGED <<order, paid, completed>>

LedgerNext ==
  \E p \in PurchaseId :
    \/ \E o \in Order : Open(p, o)
    \/ PayFor(p)
    \/ Complete(p)
    \/ Admit(p)

LedgerSpec == LedgerInit /\ [][LedgerNext]_ledger

-----------------------------------------------------------------------------
(* What follows for those who read the ledger.                             *)

\* Who has access ordered the course, paid the order and had it completed.
PaidFor ==
  /\ \A p \in paid : p \in PurchaseId /\ order[p] # Null
  /\ completed \subseteq paid
  /\ enrolled \subseteq {<<order[p].userId, order[p].courseId>> : p \in completed}

Kept ==
  /\ paid \subseteq paid' /\ completed \subseteq completed'
  /\ enrolled \subseteq enrolled'
  /\ \A p \in PurchaseId : order[p] # Null => order'[p] = order[p]

\* An order is not changed, and a payment, a completion or an access not undone.
NothingIsErased == [][Kept]_ledger
=============================================================================
