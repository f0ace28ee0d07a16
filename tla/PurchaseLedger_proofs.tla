----------------------- MODULE PurchaseLedger_proofs -----------------------
EXTENDS PurchaseLedger, TLAPS

\* The ledger's invariant, with the domain of the orders
LedgerInv == DOMAIN order = PurchaseId /\ PaidFor

LEMMA LedgerInvInit == LedgerInit => LedgerInv
  BY DEF LedgerInit, LedgerInv, PaidFor

\* A step adds an order under an id that has none, or to one of the three sets.
LEMMA LedgerStep ==
  ASSUME LedgerInv, [LedgerNext]_ledger
  PROVE  LedgerInv' /\ Kept
<1>1. ASSUME NEW p \in PurchaseId, NEW o \in Order, Open(p, o)
      PROVE  LedgerInv' /\ Kept
  <2>1. /\ DOMAIN order' = PurchaseId
        /\ \A q \in PurchaseId : order[q] # Null => order'[q] = order[q]
        /\ UNCHANGED <<paid, completed, enrolled>>
    BY <1>1 DEF Open, LedgerInv
  <2>2. \A q \in completed : order'[q] = order[q]
    BY <2>1 DEF LedgerInv, PaidFor
  <2> QED
    BY <2>1, <2>2 DEF LedgerInv, PaidFor, Kept
<1>2. ASSUME NEW p \in PurchaseId, PayFor(p)
      PROVE  LedgerInv' /\ Kept
  BY <1>2 DEF PayFor, LedgerInv, PaidFor, Kept
<1>3. ASSUME NEW p \in PurchaseId, Complete(p)
      PROVE  LedgerInv' /\ Kept
  BY <1>3 DEF Complete, LedgerInv, PaidFor, Kept
<1>4. ASSUME NEW p \in PurchaseId, Admit(p)
      PROVE  LedgerInv' /\ Kept
  BY <1>4 DEF Admit, LedgerInv, PaidFor, Kept
<1>5. CASE UNCHANGED ledger
  BY <1>5 DEF ledger, LedgerInv, PaidFor, Kept
<1> QED
  BY <1>1, <1>2, <1>3, <1>4, <1>5 DEF LedgerNext

LEMMA LedgerInvariance == LedgerSpec => []LedgerInv
  BY LedgerInvInit, LedgerStep, PTL DEF LedgerSpec

\* Access follows completion, completion payment, and payment an order.
THEOREM AccessIsPaidFor == LedgerSpec => []PaidFor
  BY LedgerInvariance, PTL DEF LedgerInv

\* What is in the ledger stays in it.
THEOREM EntriesAreFinal == LedgerSpec => NothingIsErased
<1>1. LedgerInv /\ [LedgerNext]_ledger => Kept
  BY LedgerStep
<1> QED
  BY <1>1, LedgerInvariance, PTL DEF LedgerSpec, NothingIsErased
=============================================================================
