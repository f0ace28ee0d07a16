-------------------------- MODULE Purchases_proofs --------------------------
EXTENDS Purchases, TLAPS

\* findById and save return and store well-formed rows.
LEMMA SavedType ==
  ASSUME TypeOK, NEW e \in PurchaseEntity
  PROVE  /\ Saved(e) \in [PurchaseId -> PurchaseEntity \cup {Null}]
         /\ \A p \in PurchaseId : p # e.id => Saved(e)[p] = purchase[p]
         /\ Saved(e)[e.id] \in PurchaseEntity
         /\ Saved(e)[e.id] = IF purchase[e.id] = Null
                               THEN [e EXCEPT !.confirmedAt = Null] ELSE e
  BY DEF TypeOK, Saved, PurchaseEntity

LEMMA ConfirmsType ==
  ASSUME TypeOK, NEW r \in Request
  PROVE  Confirms(r) \in PurchaseId \cup {Null}
<1>1. CASE req[r].pc = "findPurchase"
  BY <1>1 DEF TypeOK, RequestState, Confirms
<1>2. CASE req[r].pc \in {"saveCompleted", "enroll"}
  BY <1>2 DEF TypeOK, RequestState, Confirms, PurchaseEntity
<1>3. CASE req[r].pc \notin {"findPurchase", "saveCompleted", "enroll"}
  BY <1>3 DEF Confirms
<1> QED
  BY <1>1, <1>2, <1>3

\* A request only moves between the states of RequestState.
LEMMA FinishType ==
  ASSUME TypeOK, NEW r \in Request, NEW s \in Status, Finish(r, s)
  PROVE  req' \in [Request -> RequestState]
  BY ConfirmsType DEF TypeOK, Finish, Goto, Done, RequestState

LEMMA GotoType ==
  ASSUME TypeOK, NEW r \in Request, NEW state \in RequestState, Goto(r, state)
  PROVE  req' \in [Request -> RequestState]
  BY DEF TypeOK, Goto

-----------------------------------------------------------------------------
(* Type correctness.                                                       *)

LEMMA TypeInit == Init => TypeOK
  BY PurchasesAssumption DEF Init, TypeOK, Idle, RequestState

LEMMA TypeNext == TypeOK /\ [Next]_vars => TypeOK'
<1> SUFFICES ASSUME TypeOK, [Next]_vars PROVE TypeOK'
  OBVIOUS
<1> USE DEF tables, gateway
<1>1. ASSUME NEW r \in Request, NEW caller \in Caller, NEW price \in Price,
             CreateCourse(r, caller, price)
      PROVE  TypeOK'
  <2>1. CASE Finish(r, 403)
    BY <1>1, <2>1, FinishType DEF CreateCourse, TypeOK, Status
  <2>2. CASE Goto(r, [pc |-> "saveCourse", instructorId |-> caller.id,
                      price |-> price])
    BY <1>1, <2>2, GotoType DEF CreateCourse, TypeOK, Caller, RequestState
  <2> QED
    BY <1>1, <2>1, <2>2 DEF CreateCourse
<1>2. ASSUME NEW r \in Request, NEW c \in CourseId, SaveCourse(r, c)
      PROVE  TypeOK'
  <2>1. req[r].instructorId \in UserId /\ req[r].price \in Price
    BY <1>2 DEF SaveCourse, TypeOK, RequestState
  <2>2. course' \in [CourseId -> CourseEntity \cup {Null}]
    BY <1>2, <2>1 DEF SaveCourse, TypeOK, CourseEntity
  <2> QED
    BY <1>2, <2>2, FinishType DEF SaveCourse, TypeOK, Status
<1>3. ASSUME NEW r \in Request, NEW caller \in Caller, NEW c \in CourseId,
             CheckoutCourse(r, caller, c)
      PROVE  TypeOK'
  <2>1. CASE Finish(r, 403)
    BY <1>3, <2>1, FinishType DEF CheckoutCourse, TypeOK, Status
  <2>2. CASE Goto(r, [pc |-> "findCourse", userId |-> caller.id,
                      courseId |-> c])
    BY <1>3, <2>2, GotoType DEF CheckoutCourse, TypeOK, Caller, RequestState
  <2> QED
    BY <1>3, <2>1, <2>2 DEF CheckoutCourse
<1>4. ASSUME NEW r \in Request, FindCourse(r)
      PROVE  TypeOK'
  <2>1. req[r].userId \in UserId /\ req[r].courseId \in CourseId
    BY <1>4 DEF FindCourse, TypeOK, RequestState
  <2>2. CASE course[req[r].courseId] = Null /\ Finish(r, 404)
    BY <1>4, <2>2, FinishType DEF FindCourse, TypeOK, Status
  <2>3. CASE /\ course[req[r].courseId] # Null
             /\ Goto(r, [pc |-> "findPurchases", userId |-> req[r].userId,
                         courseId |-> req[r].courseId,
                         price |-> course[req[r].courseId].price])
    <3>1. course[req[r].courseId].price \in Price
      BY <2>1, <2>3 DEF TypeOK, CourseEntity
    <3>2. [pc |-> "findPurchases", userId |-> req[r].userId,
           courseId |-> req[r].courseId,
           price |-> course[req[r].courseId].price] \in RequestState
      BY <2>1, <3>1 DEF RequestState
    <3> QED
      BY <1>4, <2>3, <3>2, GotoType DEF FindCourse, TypeOK
  <2> QED
    BY <1>4, <2>2, <2>3 DEF FindCourse
<1>5. ASSUME NEW r \in Request, FindPurchases(r)
      PROVE  TypeOK'
  <2>1. [req[r] EXCEPT !.pc = "savePurchase"] \in RequestState
    BY <1>5 DEF FindPurchases, TypeOK, RequestState
  <2> QED
    BY <1>5, <2>1, FinishType, GotoType DEF FindPurchases, TypeOK, Status
<1>6. ASSUME NEW r \in Request, NEW p \in PurchaseId, SavePurchase(r, p)
      PROVE  TypeOK'
  <2> DEFINE new == NewPurchase(p, req[r].userId, req[r].courseId, req[r].price)
  <2>1. new \in PurchaseEntity
    BY <1>6 DEF SavePurchase, TypeOK, RequestState, NewPurchase, PurchaseEntity,
                PurchaseStatus
  <2>2. [pc |-> "createIntent", purchase |-> new] \in RequestState
    BY <2>1 DEF RequestState
  <2>3. purchase' = Saved(new) /\ Goto(r, [pc |-> "createIntent", purchase |-> new])
    BY <1>6 DEF SavePurchase
  <2> HIDE DEF new
  <2> QED
    BY <1>6, <2>1, <2>2, <2>3, GotoType, SavedType DEF SavePurchase, TypeOK
<1>7. ASSUME NEW r \in Request, CreatePaymentIntent(r)
      PROVE  TypeOK'
  <2>1. req[r].purchase \in PurchaseEntity
    BY <1>7 DEF CreatePaymentIntent, TypeOK, RequestState
  <2>2. intent' \in [PurchaseId -> Price \cup {Null}]
    BY <1>7, <2>1 DEF CreatePaymentIntent, TypeOK, PurchaseEntity
  <2> QED
    BY <1>7, <2>2, FinishType DEF CreatePaymentIntent, TypeOK, Status
<1>8. ASSUME NEW r \in Request, NEW p \in PurchaseId, Deliver(r, p)
      PROVE  TypeOK'
  <2>1. [pc |-> "findPurchase", id |-> p, timestamp |-> paidAt[p]] \in RequestState
    BY <1>8 DEF Deliver, TypeOK, RequestState
  <2> QED
    BY <1>8, <2>1, GotoType DEF Deliver, TypeOK
<1>9. ASSUME NEW r \in Request, NEW t \in Timestamp, DeliverForeign(r, t)
      PROVE  TypeOK'
  <2>1. [pc |-> "findPurchase", id |-> Null, timestamp |-> t] \in RequestState
    BY DEF RequestState
  <2> QED
    BY <1>9, <2>1, GotoType, FinishType DEF DeliverForeign, Unverified, TypeOK, Status
<1>10. ASSUME NEW r \in Request, FindPurchase(r)
       PROVE  TypeOK'
  <2>1. CASE Finish(r, 404)
    BY <1>10, <2>1, FinishType DEF FindPurchase, TypeOK, Status
  <2>2. CASE FindById(req[r].id) # Null
    <3> DEFINE e == [FindById(req[r].id) EXCEPT !.status = "completed",
                                                !.confirmedAt = req[r].timestamp]
    <3>1. FindById(req[r].id) \in PurchaseEntity /\ req[r].timestamp \in Timestamp
      BY <1>10, <2>2 DEF FindPurchase, TypeOK, RequestState, FindById
    <3>2. e \in PurchaseEntity
      BY <3>1 DEF PurchaseEntity, PurchaseStatus
    <3>3. [pc |-> "saveCompleted", purchase |-> e] \in RequestState
      BY <3>2 DEF RequestState
    <3>4. Goto(r, [pc |-> "saveCompleted", purchase |-> e])
      BY <1>10, <2>2 DEF FindPurchase
    <3> HIDE DEF e
    <3> QED
      BY <1>10, <3>3, <3>4, GotoType DEF FindPurchase, TypeOK
  <2> QED
    BY <1>10, <2>1, <2>2 DEF FindPurchase
<1>11. ASSUME NEW r \in Request, SaveCompleted(r)
       PROVE  TypeOK'
  <2>1. /\ req[r].purchase \in PurchaseEntity
        /\ [req[r] EXCEPT !.pc = "enroll"] \in RequestState
    BY <1>11 DEF SaveCompleted, TypeOK, RequestState
  <2> QED
    BY <1>11, <2>1, GotoType, SavedType DEF SaveCompleted, TypeOK
<1>12. ASSUME NEW r \in Request, Enroll(r)
       PROVE  TypeOK'
  <2>1. req[r].purchase.userId \in UserId /\ req[r].purchase.courseId \in CourseId
    BY <1>12 DEF Enroll, NewEnrollment, TypeOK, RequestState, PurchaseEntity
  <2> QED
    BY <1>12, <2>1, FinishType DEF Enroll, NewEnrollment, TypeOK, Status
<1>13. ASSUME NEW r \in Request, Reply(r)
       PROVE  TypeOK'
  BY <1>13, GotoType DEF Reply, TypeOK, Idle, RequestState
<1>14. ASSUME NEW r \in Request, Reject(r)
       PROVE  TypeOK'
  BY <1>14, PurchasesAssumption, FinishType DEF Reject, TypeOK, Status
<1>15. CASE Crash
  BY <1>15, PurchasesAssumption DEF Crash, TypeOK, Idle, RequestState
<1>16. ASSUME NEW p \in PurchaseId, NEW t \in Timestamp, Pay(p, t)
       PROVE  TypeOK'
  BY <1>16 DEF Pay, TypeOK
<1>17. CASE UNCHANGED vars
  BY <1>17 DEF vars, TypeOK
<1> QED
  BY <1>1, <1>2, <1>3, <1>4, <1>5, <1>6, <1>7, <1>8, <1>9, <1>10, <1>11, <1>12,
     <1>13, <1>14, <1>15, <1>16, <1>17 DEF Next, Handle, Receive

THEOREM TypeCorrect == Spec => []TypeOK
  BY TypeInit, TypeNext, PTL DEF Spec

-----------------------------------------------------------------------------
(* Who writes what.                                                        *)

LEMMA Writers ==
  ASSUME [Next]_vars
  PROVE  /\ \/ course' = course
            \/ \E r \in Request, c \in CourseId : SaveCourse(r, c)
         /\ \/ purchase' = purchase
            \/ \E r \in Request, p \in PurchaseId : SavePurchase(r, p)
            \/ \E r \in Request : SaveCompleted(r)
         /\ enrollment' = enrollment \/ \E r \in Request : Enroll(r)
         /\ intent' = intent \/ \E r \in Request : CreatePaymentIntent(r)
         /\ \/ paidAt' = paidAt
            \/ \E p \in PurchaseId, t \in Timestamp : Pay(p, t)
         /\ acked' = acked \/ \E r \in Request : Reply(r)
<1> USE DEF tables, gateway
<1>1. ASSUME NEW r \in Request, Receive(r) \/ Reject(r)
      PROVE  UNCHANGED <<tables, gateway>>
  BY <1>1 DEF Receive, CreateCourse, CheckoutCourse, Deliver, DeliverForeign,
              Reject
<1>2. CASE Crash
  BY <1>2 DEF Crash
<1>3. ASSUME NEW r \in Request, Handle(r)
      PROVE  /\ \/ course' = course
                \/ \E c \in CourseId : SaveCourse(r, c)
             /\ \/ purchase' = purchase
                \/ \E p \in PurchaseId : SavePurchase(r, p)
                \/ SaveCompleted(r)
             /\ enrollment' = enrollment \/ Enroll(r)
             /\ intent' = intent \/ CreatePaymentIntent(r)
             /\ paidAt' = paidAt
             /\ acked' = acked \/ Reply(r)
  BY <1>3 DEF Handle, SaveCourse, FindCourse, FindPurchases, SavePurchase,
              CreatePaymentIntent, FindPurchase, SaveCompleted, Enroll, Reply
<1>4. ASSUME NEW p \in PurchaseId, NEW t \in Timestamp, Pay(p, t)
      PROVE  UNCHANGED <<tables, intent, acked>>
  BY <1>4 DEF Pay
<1>5. CASE UNCHANGED vars
  BY <1>5 DEF vars
<1> QED
  BY <1>1, <1>2, <1>3, <1>4, <1>5 DEF Next

\* A step moves one request at most, unless it is a crash.
LEMMA OneRequest ==
  ASSUME TypeOK, [Next]_vars, NEW q \in Request
  PROVE  \/ req'[q] = req[q]
         \/ Handle(q) \/ Receive(q) \/ Reject(q) \/ Crash
<1>1. ASSUME NEW r \in Request, Handle(r) \/ Receive(r) \/ Reject(r), q # r
      PROVE  req'[q] = req[q]
  BY <1>1 DEF TypeOK, Handle, Receive, Reject, Finish, Goto, CreateCourse,
              SaveCourse, CheckoutCourse, FindCourse, FindPurchases, SavePurchase,
              CreatePaymentIntent, Deliver, DeliverForeign, FindPurchase,
              SaveCompleted, Enroll, Reply
<1> QED
  BY <1>1 DEF Next, Pay, vars

-----------------------------------------------------------------------------
(* No step takes a recorded fact back.                                     *)

LEMMA StableNext == IInv /\ [Next]_vars => Stable
<1> SUFFICES ASSUME IInv, [Next]_vars PROVE Stable
  OBVIOUS
<1> USE DEF IInv
<1>1. enrollment \subseteq enrollment'
  BY Writers DEF Enroll
<1>2. ASSUME NEW c \in CourseId, course[c] # Null
      PROVE  course'[c] = course[c]
  BY <1>2, Writers DEF SaveCourse, TypeOK
<1>3. ASSUME NEW p \in PurchaseId, intent[p] # Null
      PROVE  intent'[p] = intent[p]
  <2>1. CASE intent' = intent
    BY <2>1
  <2>2. ASSUME NEW r \in Request, CreatePaymentIntent(r)
        PROVE  intent'[p] = intent[p]
    <3>1. req[r].purchase \in PurchaseEntity /\ req[r].pc = "createIntent"
      BY <2>2 DEF CreatePaymentIntent, TypeOK, RequestState
    <3>2. CASE p = req[r].purchase.id
      BY <1>3, <2>2, <3>1, <3>2 DEF CreatePaymentIntent, TypeOK, RequestsKnow,
         CheckoutKnows, IsSnapshot, SameSale, IntentIsRecorded
    <3>3. CASE p # req[r].purchase.id
      BY <2>2, <3>3 DEF CreatePaymentIntent, TypeOK
    <3> QED
      BY <3>2, <3>3
  <2> QED
    BY <2>1, <2>2, Writers
<1>4. ASSUME NEW p \in PurchaseId, purchase[p] # Null
      PROVE  /\ purchase'[p] # Null
             /\ SameSale(purchase'[p], purchase[p])
             /\ Completed(p) => purchase'[p] = purchase[p]
  <2>1. CASE purchase' = purchase
    BY <1>4, <2>1 DEF SameSale
  <2>2. ASSUME NEW r \in Request, NEW q \in PurchaseId, SavePurchase(r, q)
        PROVE  purchase'[p] = purchase[p]
    BY <1>4, <2>2 DEF SavePurchase, Saved, NewPurchase, TypeOK
  <2>3. ASSUME NEW r \in Request, SaveCompleted(r)
        PROVE  /\ purchase'[p] # Null
               /\ SameSale(purchase'[p], purchase[p])
               /\ Completed(p) => purchase'[p] = purchase[p]
    <3> DEFINE e == req[r].purchase
    <3>1. e \in PurchaseEntity /\ req[r].pc = "saveCompleted"
      BY <2>3 DEF SaveCompleted, TypeOK, RequestState
    <3>2. /\ IsSnapshot(e)
          /\ e.status = "completed"
          /\ e.confirmedAt = paidAt[e.id]
      BY <3>1 DEF RequestsKnow, WebhookKnows
    <3>3. purchase' = Saved(e)
      BY <2>3 DEF SaveCompleted
    <3> HIDE DEF e
    <3>4. CASE p # e.id
      BY <1>4, <3>1, <3>3, <3>4, SavedType DEF SameSale
    <3>5. CASE p = e.id
      <4>1. purchase'[p] = e
        BY <1>4, <3>1, <3>3, <3>5, SavedType
      <4>2. purchase[p] \in PurchaseEntity
        BY <1>4 DEF TypeOK
      <4>3. SameSale(e, purchase[p])
        BY <3>2, <3>5 DEF IsSnapshot, SameSale
      <4>4. ASSUME Completed(p) PROVE purchase[p] = e
        BY <4>2, <4>3, <4>4, <3>1, <3>2, <3>5
           DEF CompletedWhenPaid, Completed, SameSale, PurchaseEntity
      <4> QED
        BY <4>1, <4>3, <4>4, <3>1, PurchasesAssumption
    <3> QED
      BY <3>4, <3>5
  <2> QED
    BY <1>4, <2>1, <2>2, <2>3, Writers DEF SameSale
<1> QED
  BY <1>1, <1>2, <1>3, <1>4 DEF Stable

-----------------------------------------------------------------------------
(* The tables agree with each other.                                       *)

LEMMA RowsNext == IInv /\ TypeOK' /\ [Next]_vars => RowsAgree'
<1> SUFFICES ASSUME IInv, TypeOK', [Next]_vars, NEW p \in PurchaseId
             PROVE  /\ purchase'[p] # Null =>
                         /\ purchase'[p].id = p
                         /\ course'[purchase'[p].courseId] # Null
                         /\ purchase'[p].price = course'[purchase'[p].courseId].price
                    /\ paidAt'[p] # Null => intent'[p] # Null
  BY DEF RowsAgree, ShownPrice
<1> USE DEF IInv
<1>0. Stable
  BY StableNext
<1>1. ASSUME purchase[p] # Null
      PROVE  /\ purchase'[p].id = p
             /\ course'[purchase'[p].courseId] # Null
             /\ purchase'[p].price = course'[purchase'[p].courseId].price
  <2>1. /\ purchase[p].id = p
        /\ purchase[p].courseId \in CourseId
        /\ course[purchase[p].courseId] # Null
        /\ purchase[p].price = course[purchase[p].courseId].price
    BY <1>1 DEF RowsAgree, ShownPrice, TypeOK, PurchaseEntity
  <2> QED
    BY <1>0, <1>1, <2>1 DEF Stable, SameSale
<1>2. ASSUME NEW r \in Request, NEW q \in PurchaseId, SavePurchase(r, q),
             purchase[p] = Null, purchase'[p] # Null
      PROVE  /\ purchase'[p].id = p
             /\ course'[purchase'[p].courseId] # Null
             /\ purchase'[p].price = course'[purchase'[p].courseId].price
  <2>1. /\ course[req[r].courseId] # Null
        /\ req[r].price = course[req[r].courseId].price
    BY <1>2 DEF SavePurchase, RequestsKnow, CheckoutKnows
  <2>2. p = q
    BY <1>2 DEF SavePurchase, Saved, NewPurchase, TypeOK
  <2>3. /\ purchase'[p].id = p
        /\ purchase'[p].courseId = req[r].courseId
        /\ purchase'[p].price = req[r].price
    BY <1>2, <2>2 DEF SavePurchase, Saved, NewPurchase, TypeOK
  <2> QED
    BY <1>2, <2>1, <2>3 DEF SavePurchase
<1>3. ASSUME NEW r \in Request, SaveCompleted(r), purchase[p] = Null
      PROVE  purchase'[p] = Null
  <2>1. /\ req[r].purchase \in PurchaseEntity
        /\ IsSnapshot(req[r].purchase)
        /\ purchase' = Saved(req[r].purchase)
    BY <1>3 DEF SaveCompleted, TypeOK, RequestState, RequestsKnow, WebhookKnows
  <2> QED
    BY <1>3, <2>1, SavedType DEF IsSnapshot
<1>4. ASSUME paidAt'[p] # Null
      PROVE  intent'[p] # Null
  <2>1. intent[p] # Null
    BY <1>4, Writers DEF Pay, RowsAgree, TypeOK
  <2> QED
    BY <1>0, <2>1 DEF Stable
<1> QED
  BY <1>1, <1>2, <1>3, <1>4, Writers

LEMMA IntentNext == IInv /\ [Next]_vars => IntentIsRecorded'
<1> SUFFICES ASSUME IInv, [Next]_vars, NEW p \in PurchaseId, intent'[p] # Null
             PROVE  /\ purchase'[p] # Null
                    /\ intent'[p] = purchase'[p].price
                    /\ intent'[p] = course'[purchase'[p].courseId].price
  BY DEF IntentIsRecorded, ShownPrice
<1> USE DEF IInv
<1>0. Stable
  BY StableNext
<1>1. /\ purchase[p] # Null
      /\ intent'[p] = purchase[p].price
  <2>1. CASE intent' = intent
    BY <2>1 DEF IntentIsRecorded
  <2>2. ASSUME NEW r \in Request, CreatePaymentIntent(r), intent'[p] # intent[p]
        PROVE  /\ purchase[p] # Null
               /\ intent'[p] = purchase[p].price
    <3>1. /\ req[r].purchase \in PurchaseEntity
          /\ IsSnapshot(req[r].purchase)
          /\ intent' = [intent EXCEPT ![req[r].purchase.id] = req[r].purchase.price]
      BY <2>2 DEF CreatePaymentIntent, TypeOK, RequestState, RequestsKnow,
                  CheckoutKnows
    <3>2. p = req[r].purchase.id /\ intent'[p] = req[r].purchase.price
      BY <2>2, <3>1 DEF TypeOK
    <3> QED
      BY <3>1, <3>2 DEF IsSnapshot, SameSale
  <2> QED
    BY <2>1, <2>2, Writers DEF IntentIsRecorded
<1>2. /\ purchase[p].courseId \in CourseId
      /\ course[purchase[p].courseId] # Null
      /\ purchase[p].price = course[purchase[p].courseId].price
  BY <1>1 DEF RowsAgree, ShownPrice, TypeOK, PurchaseEntity
<1> QED
  BY <1>0, <1>1, <1>2 DEF Stable, SameSale

LEMMA CompletedNext == IInv /\ TypeOK' /\ [Next]_vars => CompletedWhenPaid'
<1> SUFFICES ASSUME IInv, TypeOK', [Next]_vars, NEW p \in PurchaseId,
                    purchase'[p] # Null
             PROVE  /\ Completed(p)' <=> purchase'[p].confirmedAt # Null
                    /\ Completed(p)' => purchase'[p].confirmedAt = paidAt'[p]
  BY DEF CompletedWhenPaid
<1> USE DEF IInv
<1>1. \A q \in PurchaseId : paidAt[q] # Null => paidAt'[q] = paidAt[q]
  BY Writers DEF Pay, TypeOK
<1>2. CASE purchase' = purchase
  BY <1>1, <1>2, PurchasesAssumption DEF CompletedWhenPaid, Completed, TypeOK
<1>3. ASSUME NEW r \in Request, NEW q \in PurchaseId, SavePurchase(r, q)
      PROVE  /\ Completed(p)' <=> purchase'[p].confirmedAt # Null
             /\ Completed(p)' => purchase'[p].confirmedAt = paidAt'[p]
  <2>1. CASE p = q
    BY <1>3, <2>1 DEF SavePurchase, Saved, NewPurchase, Completed, TypeOK
  <2>2. CASE p # q
    <3>1. purchase'[p] = purchase[p]
      BY <1>3, <2>2 DEF SavePurchase, Saved, NewPurchase, TypeOK
    <3> QED
      BY <1>1, <3>1, PurchasesAssumption DEF CompletedWhenPaid, Completed, TypeOK
  <2> QED
    BY <2>1, <2>2
<1>4. ASSUME NEW r \in Request, SaveCompleted(r)
      PROVE  /\ Completed(p)' <=> purchase'[p].confirmedAt # Null
             /\ Completed(p)' => purchase'[p].confirmedAt = paidAt'[p]
  <2> DEFINE e == req[r].purchase
  <2>1. /\ e \in PurchaseEntity
        /\ IsSnapshot(e)
        /\ e.status = "completed"
        /\ e.confirmedAt = paidAt[e.id]
        /\ paidAt[e.id] # Null
        /\ purchase' = Saved(e)
    BY <1>4 DEF SaveCompleted, TypeOK, RequestState, RequestsKnow, WebhookKnows
  <2> HIDE DEF e
  <2>2. CASE p = e.id
    <3>1. purchase'[p] = e
      BY <2>1, <2>2, SavedType DEF IsSnapshot
    <3> QED
      BY <1>1, <2>1, <2>2, <3>1, PurchasesAssumption DEF Completed
  <2>3. CASE p # e.id
    <3>1. purchase'[p] = purchase[p]
      BY <2>1, <2>3, SavedType
    <3> QED
      BY <1>1, <3>1, PurchasesAssumption DEF CompletedWhenPaid, Completed, TypeOK
  <2> QED
    BY <2>2, <2>3
<1> QED
  BY <1>2, <1>3, <1>4, Writers

LEMMA EnrolledNext == IInv /\ TypeOK' /\ [Next]_vars => EnrolledOnlyIfPaid'
<1> SUFFICES ASSUME IInv, TypeOK', [Next]_vars,
                    NEW u \in UserId, NEW c \in CourseId, <<u, c>> \in enrollment'
             PROVE  \E p \in PurchaseId : Grants(p, u, c)' /\ paidAt'[p] # Null
  BY DEF EnrolledOnlyIfPaid
<1> USE DEF IInv
<1>1. PICK p \in PurchaseId : Grants(p, u, c) /\ paidAt[p] # Null
  <2>1. CASE <<u, c>> \in enrollment
    BY <2>1 DEF EnrolledOnlyIfPaid
  <2>2. ASSUME NEW r \in Request, Enroll(r), <<u, c>> \notin enrollment
        PROVE  \E p \in PurchaseId : Grants(p, u, c) /\ paidAt[p] # Null
    <3> DEFINE e == req[r].purchase
    <3>1. /\ e \in PurchaseEntity
          /\ IsSnapshot(e)
          /\ Completed(e.id)
          /\ paidAt[e.id] # Null
      BY <2>2 DEF Enroll, NewEnrollment, TypeOK, RequestState, RequestsKnow, WebhookKnows
    <3>2. e.userId = u /\ e.courseId = c
      BY <2>2 DEF Enroll, NewEnrollment
    <3>3. e.id \in PurchaseId
      BY <3>1 DEF PurchaseEntity
    <3> HIDE DEF e
    <3> QED
      BY <3>1, <3>2, <3>3 DEF Grants, PurchasesOf, IsSnapshot, SameSale
  <2> QED
    BY <2>1, <2>2, Writers
<1>2. Grants(p, u, c)'
  BY <1>1, StableNext DEF Stable, SameSale, Grants, PurchasesOf, Completed
<1>3. paidAt'[p] # Null
  BY <1>1, Writers DEF Pay, TypeOK
<1> QED
  BY <1>2, <1>3

LEMMA AckedNext == IInv /\ [Next]_vars => AckedOnlyIfEnrolled'
<1> SUFFICES ASSUME IInv, [Next]_vars, NEW p \in PurchaseId, p \in acked'
             PROVE  /\ Completed(p)'
                    /\ <<purchase'[p].userId, purchase'[p].courseId>> \in enrollment'
  BY TypeNext DEF AckedOnlyIfEnrolled, IInv, TypeOK
<1> USE DEF IInv
<1>1. /\ Completed(p)
      /\ <<purchase[p].userId, purchase[p].courseId>> \in enrollment
  <2>1. CASE p \in acked
    BY <2>1 DEF AckedOnlyIfEnrolled
  <2>2. ASSUME NEW r \in Request, Reply(r), p \notin acked
        PROVE  /\ Completed(p)
               /\ <<purchase[p].userId, purchase[p].courseId>> \in enrollment
    BY <2>2, PurchasesAssumption DEF Reply, RequestsKnow, WebhookKnows
  <2> QED
    BY <2>1, <2>2, Writers
<1> QED
  BY <1>1, StableNext DEF Stable, SameSale, Completed

-----------------------------------------------------------------------------
(* What a request knows stays true while it waits, and its own step gives  *)
(* it what it needs to know next.                                          *)

LEMMA KnowsWaiting ==
  ASSUME IInv, [Next]_vars, NEW r \in Request, req'[r] = req[r]
  PROVE  CheckoutKnows(r)' /\ WebhookKnows(r)'
<1> USE DEF IInv
<1>0. Stable
  BY StableNext
<1>1. \A p \in PurchaseId : paidAt[p] # Null => paidAt'[p] = paidAt[p]
  BY Writers DEF Pay, TypeOK
<1>2. ASSUME NEW e \in PurchaseEntity, IsSnapshot(e)
      PROVE  purchase'[e.id] # Null /\ SameSale(purchase'[e.id], e)
  BY <1>0, <1>2 DEF Stable, IsSnapshot, SameSale, PurchaseEntity
<1>3. ASSUME req[r].pc \in {"findPurchases", "savePurchase"}
      PROVE  /\ course'[req[r].courseId] # Null
             /\ req[r].price = course'[req[r].courseId].price
  <2>1. req[r].courseId \in CourseId
    BY <1>3 DEF TypeOK, RequestState
  <2> QED
    BY <1>0, <1>3, <2>1 DEF Stable, RequestsKnow, CheckoutKnows
<1>4. ASSUME req[r].pc = "createIntent"
      PROVE  IsSnapshot(req[r].purchase)'
  <2>1. req[r].purchase \in PurchaseEntity /\ IsSnapshot(req[r].purchase)
    BY <1>4 DEF TypeOK, RequestState, RequestsKnow, CheckoutKnows
  <2> QED
    BY <1>2, <2>1, req'[r] = req[r] DEF IsSnapshot
<1>5. ASSUME req[r].pc = "findPurchase", req[r].id # Null
      PROVE  req[r].timestamp = paidAt'[req[r].id]
  <2>1. /\ req[r].id \in PurchaseId
        /\ req[r].timestamp \in Timestamp
        /\ req[r].timestamp = paidAt[req[r].id]
    BY <1>5 DEF TypeOK, RequestState, RequestsKnow, WebhookKnows
  <2> QED
    BY <1>1, <2>1, PurchasesAssumption
<1>6. ASSUME req[r].pc \in {"saveCompleted", "enroll"}
      PROVE  /\ IsSnapshot(req[r].purchase)'
             /\ req[r].purchase.status = "completed"
             /\ req[r].purchase.confirmedAt = paidAt'[req[r].purchase.id]
             /\ paidAt'[req[r].purchase.id] # Null
             /\ req[r].pc = "enroll" => Completed(req[r].purchase.id)'
  <2>1. /\ req[r].purchase \in PurchaseEntity
        /\ req[r].purchase.id \in PurchaseId
    BY <1>6 DEF TypeOK, RequestState, PurchaseEntity
  <2>2. /\ IsSnapshot(req[r].purchase)
        /\ req[r].purchase.status = "completed"
        /\ req[r].purchase.confirmedAt = paidAt[req[r].purchase.id]
        /\ paidAt[req[r].purchase.id] # Null
        /\ req[r].pc = "enroll" => Completed(req[r].purchase.id)
    BY <1>6 DEF RequestsKnow, WebhookKnows
  <2>3. IsSnapshot(req[r].purchase)'
    BY <1>2, <2>1, <2>2, req'[r] = req[r] DEF IsSnapshot
  <2>4. req[r].pc = "enroll" => Completed(req[r].purchase.id)'
    BY <1>0, <2>1, <2>2, req'[r] = req[r] DEF Stable, Completed
  <2> QED
    BY <1>1, <2>1, <2>2, <2>3, <2>4
<1>7. ASSUME req[r].pc = "done", req[r].confirms # Null, req[r].status \in {200, 204}
      PROVE  /\ Completed(req[r].confirms)'
             /\ <<purchase'[req[r].confirms].userId,
                  purchase'[req[r].confirms].courseId>> \in enrollment'
  <2>1. req[r].confirms \in PurchaseId
    BY <1>7 DEF TypeOK, RequestState
  <2>2. /\ Completed(req[r].confirms)
        /\ <<purchase[req[r].confirms].userId,
             purchase[req[r].confirms].courseId>> \in enrollment
    BY <1>7 DEF RequestsKnow, WebhookKnows
  <2> QED
    BY <1>0, <2>1, <2>2, req'[r] = req[r] DEF Stable, Completed
<1> QED
  BY <1>3, <1>4, <1>5, <1>6, <1>7, req'[r] = req[r] DEF CheckoutKnows, WebhookKnows

\* States in which a request relies on nothing
LEMMA KnowsNothing ==
  ASSUME NEW r \in Request,
         \/ req'[r].pc \in {"idle", "saveCourse", "findCourse"}
         \/ /\ req'[r].pc = "done"
            /\ req'[r].confirms = Null \/ req'[r].status \notin {200, 204}
  PROVE  CheckoutKnows(r)' /\ WebhookKnows(r)'
  BY DEF CheckoutKnows, WebhookKnows

LEMMA KnowsFinished ==
  ASSUME TypeOK, NEW r \in Request, NEW s \in Status, Finish(r, s),
         Confirms(r) = Null \/ s \notin {200, 204}
  PROVE  CheckoutKnows(r)' /\ WebhookKnows(r)'
<1>1. req'[r] = Done(s, Confirms(r))
  BY DEF TypeOK, Finish, Goto
<1> QED
  BY <1>1, KnowsNothing DEF Done

\* A handler's step on its own request
LEMMA KnowsHandled ==
  ASSUME IInv, NEW r \in Request, Handle(r)
  PROVE  CheckoutKnows(r)' /\ WebhookKnows(r)'
<1> USE DEF IInv
<1>0. [Next]_vars
  BY DEF Next
<1>1. ASSUME NEW c \in CourseId, SaveCourse(r, c)
      PROVE  CheckoutKnows(r)' /\ WebhookKnows(r)'
  BY <1>1, KnowsFinished DEF SaveCourse, Confirms, Status
<1>2. CASE FindCourse(r)
  <2>1. CASE Finish(r, 404)
    BY <1>2, <2>1, KnowsFinished DEF FindCourse, Status
  <2>2. CASE /\ course[req[r].courseId] # Null
             /\ Goto(r, [pc |-> "findPurchases", userId |-> req[r].userId,
                         courseId |-> req[r].courseId,
                         price |-> course[req[r].courseId].price])
    BY <1>2, <2>2 DEF FindCourse, Goto, TypeOK, tables, CheckoutKnows, WebhookKnows
  <2> QED
    BY <1>2, <2>1, <2>2 DEF FindCourse
<1>3. CASE FindPurchases(r)
  <2>1. CASE Finish(r, 409)
    BY <1>3, <2>1, KnowsFinished DEF FindPurchases, Status
  <2>2. CASE Goto(r, [req[r] EXCEPT !.pc = "savePurchase"])
    <3>1. /\ course[req[r].courseId] # Null
          /\ req[r].price = course[req[r].courseId].price
      BY <1>3 DEF FindPurchases, RequestsKnow, CheckoutKnows
    <3>2. req'[r] = [req[r] EXCEPT !.pc = "savePurchase"] /\ course' = course
      BY <1>3, <2>2 DEF FindPurchases, Goto, TypeOK, tables
    <3>3. /\ req'[r].pc = "savePurchase"
          /\ req'[r].courseId = req[r].courseId
          /\ req'[r].price = req[r].price
      BY <1>3, <3>2 DEF FindPurchases, TypeOK, RequestState
    <3> QED
      BY <3>1, <3>2, <3>3 DEF CheckoutKnows, WebhookKnows
  <2> QED
    BY <1>3, <2>1, <2>2 DEF FindPurchases
<1>4. ASSUME NEW p \in PurchaseId, SavePurchase(r, p)
      PROVE  CheckoutKnows(r)' /\ WebhookKnows(r)'
  <2> DEFINE new == NewPurchase(p, req[r].userId, req[r].courseId, req[r].price)
  <2>1. purchase' = Saved(new) /\ req'[r] = [pc |-> "createIntent", purchase |-> new]
    BY <1>4 DEF SavePurchase, Goto, TypeOK
  <2>2. new \in PurchaseEntity /\ new.id = p
    BY <1>4 DEF SavePurchase, TypeOK, RequestState, NewPurchase, PurchaseEntity,
                PurchaseStatus
  <2>3. purchase'[p] = [new EXCEPT !.confirmedAt = Null]
    BY <1>4, <2>1, <2>2, SavedType DEF SavePurchase
  <2>4. purchase'[p] # Null /\ SameSale(purchase'[p], new)
    BY <2>2, <2>3, PurchasesAssumption DEF SameSale, PurchaseEntity
  <2> HIDE DEF new
  <2> QED
    BY <2>1, <2>2, <2>4 DEF CheckoutKnows, WebhookKnows, IsSnapshot
<1>5. CASE CreatePaymentIntent(r)
  BY <1>5, KnowsFinished DEF CreatePaymentIntent, Confirms, Status
<1>6. CASE FindPurchase(r)
  <2>1. CASE Finish(r, 404)
    BY <1>6, <2>1, KnowsFinished DEF FindPurchase, Status
  <2>2. CASE FindById(req[r].id) # Null
    <3> DEFINE q == req[r].id
               e == [FindById(q) EXCEPT !.status = "completed",
                                        !.confirmedAt = req[r].timestamp]
    <3>1. /\ q \in PurchaseId /\ purchase[q] \in PurchaseEntity /\ FindById(q) = purchase[q]
          /\ req[r].timestamp \in Timestamp
      BY <1>6, <2>2 DEF FindPurchase, FindById, TypeOK, RequestState
    <3>2. purchase[q].id = q /\ req[r].timestamp = paidAt[q] /\ paidAt[q] # Null
      BY <1>6, <3>1, PurchasesAssumption
         DEF FindPurchase, RowsAgree, RequestsKnow, WebhookKnows
    <3>3. /\ req'[r] = [pc |-> "saveCompleted", purchase |-> e]
          /\ purchase' = purchase /\ paidAt' = paidAt
      BY <1>6, <2>2 DEF FindPurchase, Goto, TypeOK, tables, gateway
    <3>4. /\ SameSale(purchase[q], e) /\ e.id = q
          /\ e.status = "completed" /\ e.confirmedAt = paidAt[q]
      BY <3>1, <3>2 DEF SameSale, PurchaseEntity
    <3>5. purchase[q] # Null
      BY <3>1, PurchasesAssumption
    <3> HIDE DEF e, q
    <3> QED
      BY <3>2, <3>3, <3>4, <3>5 DEF CheckoutKnows, WebhookKnows, IsSnapshot
  <2> QED
    BY <1>6, <2>1, <2>2 DEF FindPurchase
<1>7. CASE SaveCompleted(r)
  <2> DEFINE e == req[r].purchase
  <2>1. /\ e \in PurchaseEntity
        /\ IsSnapshot(e)
        /\ e.status = "completed"
        /\ e.confirmedAt = paidAt[e.id]
        /\ paidAt[e.id] # Null
    BY <1>7 DEF SaveCompleted, TypeOK, RequestState, RequestsKnow, WebhookKnows
  <2>2. purchase'[e.id] = e
    BY <1>7, <2>1, SavedType DEF SaveCompleted, IsSnapshot
  <2>3. req'[r].pc = "enroll" /\ req'[r].purchase = e /\ paidAt' = paidAt
    BY <1>7 DEF SaveCompleted, Goto, TypeOK, RequestState, gateway
  <2> HIDE DEF e
  <2> QED
    BY <2>1, <2>2, <2>3, PurchasesAssumption
       DEF CheckoutKnows, WebhookKnows, IsSnapshot, SameSale, Completed
<1>8. CASE Enroll(r)
  <2> DEFINE e == req[r].purchase
  <2>1. /\ e \in PurchaseEntity
        /\ IsSnapshot(e)
        /\ Completed(e.id)
        /\ Confirms(r) = e.id
    BY <1>8 DEF Enroll, NewEnrollment, TypeOK, RequestState, RequestsKnow, WebhookKnows, Confirms
  <2>2. CASE Finish(r, 500)
    BY <2>2, KnowsFinished DEF Status
  <2>3. CASE /\ enrollment' = enrollment \cup {<<e.userId, e.courseId>>}
             /\ Finish(r, 204)
    <3>1. req'[r] = Done(204, e.id) /\ purchase' = purchase
      BY <1>8, <2>1, <2>3 DEF Enroll, NewEnrollment, Finish, Goto, TypeOK
    <3>2. /\ <<e.userId, e.courseId>> \in enrollment'
          /\ purchase[e.id].userId = e.userId
          /\ purchase[e.id].courseId = e.courseId
      BY <2>1, <2>3 DEF IsSnapshot, SameSale
    <3> HIDE DEF e
    <3> QED
      BY <2>1, <3>1, <3>2 DEF Done, CheckoutKnows, WebhookKnows, Completed
  <2> QED
    BY <1>8, <2>2, <2>3 DEF Enroll, NewEnrollment
<1>9. CASE Reply(r)
  BY <1>9, KnowsNothing DEF Reply, Goto, TypeOK, Idle
<1> QED
  BY <1>1, <1>2, <1>3, <1>4, <1>5, <1>6, <1>7, <1>8, <1>9 DEF Handle

LEMMA KnowsReceived ==
  ASSUME IInv, NEW r \in Request, Receive(r)
  PROVE  CheckoutKnows(r)' /\ WebhookKnows(r)'
<1> USE DEF IInv
<1>1. ASSUME NEW caller \in Caller, NEW price \in Price, CreateCourse(r, caller, price)
      PROVE  CheckoutKnows(r)' /\ WebhookKnows(r)'
  BY <1>1, KnowsNothing
     DEF CreateCourse, Finish, Goto, Done, Confirms, Idle, TypeOK
<1>2. ASSUME NEW caller \in Caller, NEW c \in CourseId, CheckoutCourse(r, caller, c)
      PROVE  CheckoutKnows(r)' /\ WebhookKnows(r)'
  BY <1>2, KnowsNothing
     DEF CheckoutCourse, Finish, Goto, Done, Confirms, Idle, TypeOK
<1>3. ASSUME NEW p \in PurchaseId, Deliver(r, p)
      PROVE  CheckoutKnows(r)' /\ WebhookKnows(r)'
  BY <1>3 DEF Deliver, Goto, TypeOK, gateway, CheckoutKnows, WebhookKnows
<1>4. ASSUME NEW t \in Timestamp, DeliverForeign(r, t)
      PROVE  CheckoutKnows(r)' /\ WebhookKnows(r)'
  BY <1>4 DEF DeliverForeign, Unverified, Finish, Goto, Done, Confirms, Idle, TypeOK,
              CheckoutKnows, WebhookKnows
<1> QED
  BY <1>1, <1>2, <1>3, <1>4 DEF Receive

LEMMA RequestsNext == IInv /\ [Next]_vars => RequestsKnow'
<1> SUFFICES ASSUME IInv, [Next]_vars, NEW q \in Request
             PROVE  CheckoutKnows(q)' /\ WebhookKnows(q)'
  BY DEF RequestsKnow
<1>1. CASE Reject(q)
  BY <1>1, KnowsFinished DEF IInv, Reject, Status
<1>2. CASE Crash
  BY <1>2, KnowsNothing DEF Crash, Idle
<1>3. CASE req'[q] = req[q]
  BY <1>3, KnowsWaiting
<1> QED
  BY <1>1, <1>2, <1>3, OneRequest, KnowsHandled, KnowsReceived DEF IInv

-----------------------------------------------------------------------------
(* The invariants, for any number of users, courses, purchases, requests   *)
(* and faults.                                                             *)

LEMMA IInvInit == Init => IInv
<1> SUFFICES ASSUME Init PROVE IInv
  OBVIOUS
<1>1. TypeOK
  BY TypeInit
<1>2. RequestsKnow
  BY DEF Init, RequestsKnow, CheckoutKnows, WebhookKnows, Idle
<1> QED
  BY <1>1, <1>2 DEF Init, IInv, RowsAgree, EnrolledOnlyIfPaid, CompletedWhenPaid,
                    IntentIsRecorded, AckedOnlyIfEnrolled

LEMMA IInvNext == IInv /\ [Next]_vars => IInv'
<1> SUFFICES ASSUME IInv, [Next]_vars PROVE IInv'
  OBVIOUS
<1>1. TypeOK'
  BY TypeNext DEF IInv
<1> QED
  BY <1>1, RowsNext, RequestsNext, EnrolledNext, CompletedNext, IntentNext,
     AckedNext DEF IInv

\* IInv, the inductive invariant, holds in every reachable state.
THEOREM Invariance == Spec => []IInv
  BY IInvInit, IInvNext, PTL DEF Spec

\* What a request in flight holds is never contradicted by the tables.
THEOREM RequestsKnowAlways == Spec => []RequestsKnow
  BY Invariance, PTL DEF IInv

\* No enrollment without a completed and paid purchase of the same pair.
THEOREM EnrollmentsArePaid == Spec => []EnrolledOnlyIfPaid
  BY Invariance, PTL DEF IInv

\* Purchases are completed exactly by their own payment.
THEOREM CompletionsArePaid == Spec => []CompletedWhenPaid
  BY Invariance, PTL DEF IInv

\* Every payment intent has its purchase, and at its price.
THEOREM IntentsAreRecorded == Spec => []IntentIsRecorded
  BY Invariance, PTL DEF IInv

\* Every acknowledged confirmation has enrolled its student.
THEOREM AcksAreEnrolled == Spec => []AckedOnlyIfEnrolled
  BY Invariance, PTL DEF IInv

-----------------------------------------------------------------------------
(* Action properties.                                                      *)

\* No step takes a recorded fact back, whole-entity saves included.
THEOREM Stability == Spec => NothingIsTakenBack
<1>1. IInv /\ [Next]_vars => [Stable]_vars
  BY StableNext
<1> QED
  BY <1>1, Invariance, PTL DEF Spec, NothingIsTakenBack

\* A purchase of a course is new by a checkout past its check, and stays.
LEMMA PurchasesOfNext ==
  ASSUME IInv, [Next]_vars, NEW u \in UserId, NEW c \in CourseId
  PROVE  /\ PurchasesOf(u, c) \subseteq PurchasesOf(u, c)'
         /\ \A p \in PurchasesOf(u, c)' :
              \/ p \in PurchasesOf(u, c)
              \/ \E r \in Request : PastCheck(r, u, c) /\ SavePurchase(r, p)
<1>0. Stable
  BY StableNext
<1>1. PurchasesOf(u, c) \subseteq PurchasesOf(u, c)'
  BY <1>0 DEF Stable, SameSale, PurchasesOf
<1>2. ASSUME NEW p \in PurchaseId, p \in PurchasesOf(u, c)'
      PROVE  \/ p \in PurchasesOf(u, c)
             \/ \E r \in Request : PastCheck(r, u, c) /\ SavePurchase(r, p)
  <2>1. CASE purchase[p] # Null
    BY <1>0, <1>2, <2>1 DEF Stable, SameSale, PurchasesOf
  <2>2. CASE purchase[p] = Null
    <3>1. purchase'[p] # Null /\ purchase'[p].userId = u /\ purchase'[p].courseId = c
      BY <1>2 DEF PurchasesOf
    <3>2. ASSUME NEW r \in Request, SaveCompleted(r) PROVE FALSE
      <4>1. /\ req[r].purchase \in PurchaseEntity
            /\ IsSnapshot(req[r].purchase)
            /\ purchase' = Saved(req[r].purchase)
        BY <3>2 DEF SaveCompleted, IInv, TypeOK, RequestState, RequestsKnow,
                    WebhookKnows
      <4> QED
        BY <2>2, <3>1, <4>1, SavedType DEF IInv, IsSnapshot
    <3>3. ASSUME NEW r \in Request, NEW q \in PurchaseId, SavePurchase(r, q)
          PROVE  q = p /\ PastCheck(r, u, c)
      BY <2>2, <3>1, <3>3 DEF PastCheck, SavePurchase, Saved, NewPurchase, IInv, TypeOK
    <3> QED
      BY <2>2, <3>1, <3>2, <3>3, Writers
  <2> QED
    BY <2>1, <2>2
<1> QED
  BY <1>1, <1>2 DEF PurchasesOf

\* A checkout gets past its check when the check finds no completed purchase.
LEMMA PastCheckNext ==
  ASSUME IInv, [Next]_vars, NEW r \in Request, NEW u \in UserId, NEW c \in CourseId,
         PastCheck(r, u, c)'
  PROVE  \/ req'[r] = req[r]
         \/ ~Bought(u, c) /\ purchase' = purchase
<1>1. req'[r].pc = "savePurchase" /\ req'[r].userId = u /\ req'[r].courseId = c
  BY DEF PastCheck
<1>2. CASE FindPurchases(r)
  <2>1. req'[r] = [req[r] EXCEPT !.pc = "savePurchase"] \/ req'[r].pc = "done"
    BY <1>2 DEF FindPurchases, Finish, Goto, Done, IInv, TypeOK
  <2>2. ~Bought(req[r].userId, req[r].courseId) /\ purchase' = purchase
    BY <1>1, <1>2 DEF FindPurchases, Finish, Goto, Done, IInv, TypeOK, tables
  <2>3. req[r].userId = u /\ req[r].courseId = c
    BY <1>1, <1>2, <2>1 DEF FindPurchases, IInv, TypeOK, RequestState
  <2> QED
    BY <2>2, <2>3
<1>3. CASE Handle(r)
  BY <1>1, <1>2, <1>3 DEF IInv, TypeOK, Handle, Finish, Goto, Done, Idle,
     SaveCourse, FindCourse, SavePurchase, CreatePaymentIntent, FindPurchase,
     SaveCompleted, Enroll, Reply, RequestState
<1>4. CASE Receive(r)
  BY <1>1, <1>4 DEF IInv, TypeOK, Receive, Finish, Goto, Done, Idle,
     CreateCourse, CheckoutCourse, Deliver, DeliverForeign, Unverified
<1>5. CASE Reject(r) \/ Crash
  BY <1>1, <1>5 DEF IInv, TypeOK, Reject, Crash, Finish, Goto, Done, Idle
<1> QED
  BY <1>3, <1>4, <1>5, OneRequest DEF IInv

LEMMA SettledNext ==
  ASSUME IInv, [Next]_vars, NEW u \in UserId, NEW c \in CourseId, Settled(u, c)
  PROVE  Settled(u, c)' /\ PurchasesOf(u, c)' = PurchasesOf(u, c)
<1>0. Stable
  BY StableNext
<1>1. PurchasesOf(u, c)' = PurchasesOf(u, c)
  BY PurchasesOfNext DEF Settled
<1>2. Bought(u, c)'
  BY <1>0, <1>1 DEF Settled, Bought, Stable, PurchasesOf, Completed
<1>3. ASSUME NEW r \in Request, PastCheck(r, u, c)'
      PROVE  FALSE
  BY <1>3, PastCheckNext DEF Settled, PastCheck
<1> QED
  BY <1>1, <1>2, <1>3 DEF Settled

\* Once bought with no checkout past its check, a course stays bought and gets
\* no other purchase.
THEOREM BoughtForGood == Spec => BoughtIsFinal
<1>1. IInv /\ [Next]_vars =>
        [\A u \in UserId, c \in CourseId : Settled(u, c) =>
           Settled(u, c)' /\ PurchasesOf(u, c)' = PurchasesOf(u, c)]_vars
  BY SettledNext
<1> QED
  BY <1>1, Invariance, PTL DEF Spec, BoughtIsFinal

-----------------------------------------------------------------------------
(* Checkouts without a rival.                                              *)

LEMMA OnePurchaseNext ==
  ASSUME IInv, OnePurchase, NoRival, NoRival', [Next]_vars
  PROVE  OnePurchase'
<1> SUFFICES ASSUME NEW u \in UserId, NEW c \in CourseId
             PROVE  /\ \A p, q \in PurchasesOf(u, c)' : p = q
                    /\ \A r \in Request : PastCheck(r, u, c)' => PurchasesOf(u, c)' = {}
  BY DEF OnePurchase
\* Every purchase there is, old or new, leaves no room for a new one.
<1>1. ASSUME NEW p \in PurchasesOf(u, c)', NEW q \in PurchasesOf(u, c)'
      PROVE  p = q
  <2>1. CASE \E r \in Request : PastCheck(r, u, c)
    <3>1. PurchasesOf(u, c) = {}
      BY <2>1 DEF OnePurchase
    <3>2. PICK r \in Request : PastCheck(r, u, c) /\ SavePurchase(r, p)
      BY <3>1, PurchasesOfNext
    <3>3. PICK s \in Request : PastCheck(s, u, c) /\ SavePurchase(s, q)
      BY <3>1, PurchasesOfNext
    <3>4. r = s
      BY <3>2, <3>3 DEF NoRival
    <3> QED
      BY <3>2, <3>3, <3>4 DEF SavePurchase, NewPurchase, Goto, IInv, TypeOK
  <2>2. CASE ~ \E r \in Request : PastCheck(r, u, c)
    BY <2>2, PurchasesOfNext DEF OnePurchase
  <2> QED
    BY <2>1, <2>2
<1>2. ASSUME NEW r \in Request, PastCheck(r, u, c)', NEW p \in PurchasesOf(u, c)'
      PROVE  FALSE
  <2>1. CASE req'[r] = req[r]
    <3>1. PastCheck(r, u, c) /\ PurchasesOf(u, c) = {}
      BY <1>2, <2>1 DEF PastCheck, OnePurchase
    <3>2. PICK q \in Request : PastCheck(q, u, c) /\ SavePurchase(q, p)
      BY <3>1, PurchasesOfNext
    <3>3. q = r
      BY <3>1, <3>2 DEF NoRival
    <3> QED
      BY <1>2, <3>2, <3>3 DEF SavePurchase, PastCheck, Goto, IInv, TypeOK
  <2>2. CASE ~Bought(u, c) /\ purchase' = purchase
    BY <1>2, <2>2 DEF NoRival, Bought, Completed, PurchasesOf
  <2> QED
    BY <1>2, <2>1, <2>2, PastCheckNext
<1> QED
  BY <1>1, <1>2

\* What the exception "You have already purchased this course" is for holds of
\* every student and course whose checkouts have no rival: no other checkout
\* past the check, and no purchase waiting for its confirmation.
THEOREM OnePurchaseWithoutRival == Spec /\ []NoRival => []OnePurchasePerCourse
<1>1. Init => OnePurchase
  BY DEF Init, OnePurchase, PurchasesOf, PastCheck, Idle
<1>2. IInv /\ OnePurchase /\ NoRival /\ NoRival' /\ [Next]_vars => OnePurchase'
  BY OnePurchaseNext
<1>3. OnePurchase => OnePurchasePerCourse
  BY DEF OnePurchase, OnePurchasePerCourse, Grants
<1> QED
  BY <1>1, <1>2, <1>3, Invariance, PTL DEF Spec

-----------------------------------------------------------------------------
(* Refinement.                                                             *)

LEMMA LedgerInitial == Init => Ledger!LedgerInit
  BY PurchasesAssumption DEF Init, Ledger!LedgerInit, Completed

LEMMA LedgerStep == IInv /\ IInv' /\ [Next]_vars => [Ledger!LedgerNext]_(Ledger!ledger)
<1> SUFFICES ASSUME IInv, IInv', [Next]_vars
             PROVE  Ledger!LedgerNext \/ UNCHANGED Ledger!ledger
  OBVIOUS
<1> DEFINE SaleOf(d) == IF d = Null THEN Null
                        ELSE [userId |-> d.userId, courseId |-> d.courseId,
                              price |-> d.price]
<1> USE DEF IInv
<1>0. Stable
  BY StableNext
<1>1. CASE UNCHANGED <<purchase, paidAt, enrollment>>
  BY <1>1 DEF Ledger!ledger, Completed
<1>2. ASSUME NEW r \in Request, NEW p \in PurchaseId, SavePurchase(r, p)
      PROVE  Ledger!LedgerNext
  <2> DEFINE new == NewPurchase(p, req[r].userId, req[r].courseId, req[r].price)
             o   == [userId |-> req[r].userId, courseId |-> req[r].courseId,
                     price |-> req[r].price]
  <2>1. /\ req[r].userId \in UserId /\ req[r].courseId \in CourseId
        /\ req[r].price \in Price
    BY <1>2 DEF SavePurchase, TypeOK, RequestState
  <2>2. o \in Ledger!Order
    BY <2>1 DEF Ledger!Order
  <2>3. /\ purchase[p] = Null
        /\ purchase' = [purchase EXCEPT ![p] = [new EXCEPT !.confirmedAt = Null]]
        /\ UNCHANGED <<paidAt, enrollment>>
    BY <1>2 DEF SavePurchase, Saved, NewPurchase, gateway
  <2>4. /\ purchase'[p] # Null /\ SaleOf(purchase'[p]) = o
        /\ purchase'[p].status = "pending"
    <3>1. purchase'[p] \in PurchaseEntity
      BY <2>1, <2>3 DEF TypeOK, NewPurchase, PurchaseEntity, PurchaseStatus
    <3> QED
      BY <2>3, <3>1, PurchasesAssumption DEF TypeOK, NewPurchase
  <2>5. [q \in PurchaseId |-> SaleOf(purchase'[q])]
          = [[q \in PurchaseId |-> SaleOf(purchase[q])] EXCEPT ![p] = o]
    <3>1. \A q \in PurchaseId : q # p => purchase'[q] = purchase[q]
      BY <2>3 DEF TypeOK
    <3> HIDE DEF SaleOf, o
    <3> QED
      BY <2>4, <3>1
  <2>6. {q \in PurchaseId : Completed(q)}' = {q \in PurchaseId : Completed(q)}
    BY <2>3, <2>4 DEF Completed, TypeOK
  <2> QED
    BY <2>2, <2>3, <2>5, <2>6 DEF Ledger!LedgerNext, Ledger!Open
<1>3. ASSUME NEW r \in Request, SaveCompleted(r)
      PROVE  Ledger!LedgerNext
  <2> DEFINE e == req[r].purchase
  <2>1. /\ e \in PurchaseEntity /\ e.id \in PurchaseId
        /\ IsSnapshot(e)
        /\ e.status = "completed"
        /\ paidAt[e.id] # Null
        /\ purchase' = Saved(e)
        /\ UNCHANGED <<paidAt, enrollment>>
    BY <1>3 DEF SaveCompleted, TypeOK, RequestState, PurchaseEntity, RequestsKnow,
                WebhookKnows, gateway
  <2> HIDE DEF e
  <2>2. /\ purchase'[e.id] = e /\ e # Null
        /\ \A q \in PurchaseId : q # e.id => purchase'[q] = purchase[q]
    BY <2>1, SavedType, PurchasesAssumption DEF IsSnapshot
  <2>3. \A q \in PurchaseId : SaleOf(purchase'[q]) = SaleOf(purchase[q])
    BY <2>1, <2>2 DEF IsSnapshot, SameSale
  <2>4. {q \in PurchaseId : Completed(q)}'
          = {q \in PurchaseId : Completed(q)} \cup {e.id}
    BY <2>1, <2>2 DEF Completed
  <2>5. Ledger!Complete(e.id)
    BY <2>1, <2>3, <2>4 DEF Ledger!Complete
  <2> QED
    BY <2>1, <2>5 DEF Ledger!LedgerNext
<1>4. ASSUME NEW r \in Request, Enroll(r)
      PROVE  Ledger!LedgerNext \/ UNCHANGED Ledger!ledger
  <2> DEFINE e == req[r].purchase
  <2>1. /\ e.id \in PurchaseId
        /\ IsSnapshot(e)
        /\ Completed(e.id)
        /\ UNCHANGED <<purchase, paidAt>>
    BY <1>4 DEF Enroll, NewEnrollment, TypeOK, RequestState, PurchaseEntity, RequestsKnow,
                WebhookKnows, gateway
  <2>2. enrollment' = enrollment \/ enrollment' = enrollment \cup {<<e.userId, e.courseId>>}
    BY <1>4 DEF Enroll, NewEnrollment
  <2> HIDE DEF e
  <2>3. CASE enrollment' = enrollment
    BY <1>1, <2>1, <2>3
  <2>4. CASE enrollment' = enrollment \cup {<<e.userId, e.courseId>>}
    <3>1. SaleOf(purchase[e.id]).userId = e.userId /\ SaleOf(purchase[e.id]).courseId = e.courseId
      BY <2>1 DEF IsSnapshot, SameSale
    <3>2. {q \in PurchaseId : Completed(q)}' = {q \in PurchaseId : Completed(q)}
      BY <2>1 DEF Completed
    <3>3. Ledger!Admit(e.id)
      BY <2>1, <2>4, <3>1, <3>2 DEF Ledger!Admit
    <3> QED
      BY <2>1, <3>3 DEF Ledger!LedgerNext
  <2> QED
    BY <2>2, <2>3, <2>4
<1>5. ASSUME NEW p \in PurchaseId, NEW t \in Timestamp, Pay(p, t)
      PROVE  Ledger!LedgerNext
  <2>1. purchase[p] # Null /\ SaleOf(purchase[p]) # Null
    <3>1. purchase[p] \in PurchaseEntity
      BY <1>5 DEF Pay, IntentIsRecorded, TypeOK
    <3>2. SaleOf(purchase[p]) \in Sale
      BY <3>1, PurchasesAssumption DEF PurchaseEntity, Sale
    <3> QED
      BY <3>1, <3>2, PurchasesAssumption
  <2>2. {q \in PurchaseId : paidAt'[q] # Null} = {q \in PurchaseId : paidAt[q] # Null} \cup {p}
    BY <1>5, PurchasesAssumption DEF Pay, TypeOK
  <2>3. UNCHANGED <<purchase, enrollment>>
    BY <1>5 DEF Pay, tables
  <2>4. {q \in PurchaseId : Completed(q)}' = {q \in PurchaseId : Completed(q)}
    BY <2>3 DEF Completed
  <2>5. Ledger!PayFor(p)
    BY <2>1, <2>2, <2>3, <2>4 DEF Ledger!PayFor
  <2> QED
    BY <2>5 DEF Ledger!LedgerNext
<1> QED
  BY <1>1, <1>2, <1>3, <1>4, <1>5, Writers

\* The handlers, interleaved and crashing, implement the ledger.
THEOREM Refinement == Spec => ImplementsLedger
  BY LedgerInitial, LedgerStep, Invariance, PTL
     DEF Spec, ImplementsLedger, Ledger!LedgerSpec

\* What the ledger promises its readers therefore holds of the tables: who has
\* access ordered, paid and had it completed, and no entry is ever erased.
THEOREM LedgerPromises == Spec => []Ledger!PaidFor /\ Ledger!NothingIsErased
  BY Refinement, Ledger!AccessIsPaidFor, Ledger!EntriesAreFinal, PTL DEF ImplementsLedger

-----------------------------------------------------------------------------
(* Whose rows and requests are, for the module that says whose they may be. *)

\* A course is new by a request of its lecturer.
LEMMA CourseOrigin ==
  ASSUME IInv, [Next]_vars, NEW c \in CourseId, course'[c] # Null
  PROVE  \/ course[c] # Null /\ course'[c] = course[c]
         \/ \E r \in Request : /\ req[r].pc = "saveCourse"
                             /\ course'[c].instructorId = req[r].instructorId
<1>1. ASSUME NEW r \in Request, NEW d \in CourseId, SaveCourse(r, d)
      PROVE  \/ course'[c] = course[c]
             \/ /\ req[r].pc = "saveCourse"
                /\ course'[c].instructorId = req[r].instructorId
  BY <1>1 DEF SaveCourse, IInv, TypeOK
<1> QED
  BY <1>1, Writers

\* A purchase is new by a request of its student, and stays theirs.
LEMMA PurchaseOrigin ==
  ASSUME IInv, [Next]_vars, NEW p \in PurchaseId, purchase'[p] # Null
  PROVE  \/ purchase[p] # Null /\ purchase'[p].userId = purchase[p].userId
         \/ \E r \in Request : /\ req[r].pc = "savePurchase"
                             /\ purchase'[p].userId = req[r].userId
<1>1. CASE purchase[p] # Null
  <2>1. Stable
    BY StableNext
  <2> QED
    BY <1>1, <2>1 DEF Stable, SameSale
<1>2. CASE purchase[p] = Null
  <2>1. ASSUME NEW r \in Request, SaveCompleted(r)
        PROVE  purchase'[p] = Null
    <3>1. IsSnapshot(req[r].purchase) /\ req[r].purchase \in PurchaseEntity
      BY <2>1 DEF SaveCompleted, IInv, TypeOK, RequestState, RequestsKnow, WebhookKnows
    <3> QED
      BY <1>2, <2>1, <3>1 DEF SaveCompleted, Saved, IsSnapshot, IInv, TypeOK
  <2>2. ASSUME NEW r \in Request, NEW q \in PurchaseId, SavePurchase(r, q)
        PROVE  /\ req[r].pc = "savePurchase"
               /\ purchase'[p].userId = req[r].userId
    <3>1. q = p /\ purchase' = Saved(NewPurchase(q, req[r].userId, req[r].courseId,
                                                 req[r].price))
      BY <1>2, <2>2 DEF SavePurchase, Saved, NewPurchase, IInv, TypeOK
    <3> QED
      BY <1>2, <2>2, <3>1 DEF SavePurchase, Saved, NewPurchase, IInv, TypeOK
  <2> QED
    BY <1>2, <2>1, <2>2, Writers
<1> QED
  BY <1>1, <1>2

\* On the way of a checkout to its purchase
Checkouts == {"findCourse", "findPurchases", "savePurchase"}

\* No step but a request's arrival makes it one for a course or for a checkout,
\* or changes whose it is.
LEMMA RequestOrigin ==
  ASSUME IInv, NEW q \in Request,
         \/ \E r \in Request :
              \/ Handle(r) \/ Reject(r)
              \/ \E p \in PurchaseId : Deliver(r, p)
              \/ \E t \in Timestamp : DeliverForeign(r, t)
         \/ \E p \in PurchaseId, t \in Timestamp : Pay(p, t)
         \/ Crash
         \/ UNCHANGED req
  PROVE  /\ req'[q].pc = "saveCourse" =>
              req[q].pc = "saveCourse" /\ req'[q].instructorId = req[q].instructorId
         /\ req'[q].pc \in Checkouts =>
              req[q].pc \in Checkouts /\ req'[q].userId = req[q].userId
<1> USE DEF Goto, Finish, Done, Idle, Checkouts, IInv, TypeOK
<1>1. ASSUME NEW r \in Request,
             \/ \E c \in CourseId : SaveCourse(r, c)
             \/ \E p \in PurchaseId : SavePurchase(r, p)
             \/ CreatePaymentIntent(r) \/ FindPurchase(r) \/ SaveCompleted(r)
             \/ Enroll(r) \/ Reply(r) \/ Reject(r)
             \/ \E p \in PurchaseId : Deliver(r, p)
             \/ \E t \in Timestamp : DeliverForeign(r, t)
      PROVE  \/ req'[q] = req[q]
             \/ req'[q].pc \notin {"saveCourse"} \cup Checkouts
  <2>1. CASE q # r
    BY <1>1, <2>1 DEF SaveCourse, SavePurchase, CreatePaymentIntent, FindPurchase,
                      SaveCompleted, Enroll, Reply, Reject, Deliver, DeliverForeign
  <2>2. ASSUME \/ \E c \in CourseId : SaveCourse(r, c)
               \/ CreatePaymentIntent(r) \/ Enroll(r) \/ Reply(r) \/ Reject(r)
        PROVE  req'[r].pc \in {"done", "idle"}
    BY <2>2 DEF SaveCourse, CreatePaymentIntent, Enroll, Reply, Reject
  <2>3. ASSUME \/ \E p \in PurchaseId : Deliver(r, p)
               \/ \E t \in Timestamp : DeliverForeign(r, t)
        PROVE  req'[r].pc \in {"done", "findPurchase"}
    BY <2>3 DEF Deliver, DeliverForeign
  <2>4. ASSUME \E p \in PurchaseId : SavePurchase(r, p)
        PROVE  req'[r].pc = "createIntent"
    BY <2>4 DEF SavePurchase
  <2>5. ASSUME FindPurchase(r)
        PROVE  req'[r].pc \in {"done", "saveCompleted"}
    BY <2>5 DEF FindPurchase
  <2>6. ASSUME SaveCompleted(r)
        PROVE  req'[r].pc = "enroll"
    <3>1. req[r] \in [pc : {"saveCompleted", "enroll"}, purchase : PurchaseEntity]
      BY <2>6 DEF SaveCompleted, RequestState
    <3>2. req'[r] = [req[r] EXCEPT !.pc = "enroll"]
      BY <2>6 DEF SaveCompleted
    <3> QED
      BY <3>1, <3>2
  <2> QED
    BY <1>1, <2>1, <2>2, <2>3, <2>4, <2>5, <2>6
<1>2. ASSUME NEW r \in Request, FindCourse(r)
      PROVE  \/ req'[q] = req[q]
             \/ req'[q].pc \notin {"saveCourse"} \cup Checkouts
             \/ /\ req'[q].pc = "findPurchases" /\ req[q].pc = "findCourse"
                /\ req'[q].userId = req[q].userId
  BY <1>2 DEF FindCourse
<1>3. ASSUME NEW r \in Request, FindPurchases(r)
      PROVE  \/ req'[q] = req[q]
             \/ req'[q].pc \notin {"saveCourse"} \cup Checkouts
             \/ /\ req'[q].pc = "savePurchase" /\ req[q].pc = "findPurchases"
                /\ req'[q].userId = req[q].userId
  <2>1. CASE q # r
    BY <1>3, <2>1 DEF FindPurchases
  <2>2. CASE q = r
    <3>1. CASE req' = [req EXCEPT ![r] = [req[r] EXCEPT !.pc = "savePurchase"]]
      <4>1. req[r] \in [pc : {"findPurchases", "savePurchase"},
                        userId : UserId, courseId : CourseId, price : Price]
        BY <1>3 DEF FindPurchases, RequestState
      <4>2. req'[r] = [req[r] EXCEPT !.pc = "savePurchase"]
        BY <3>1
      <4> QED
        BY <1>3, <2>2, <4>1, <4>2 DEF FindPurchases
    <3>2. CASE ~(req' = [req EXCEPT ![r] = [req[r] EXCEPT !.pc = "savePurchase"]])
      BY <1>3, <2>2, <3>2 DEF FindPurchases
    <3> QED
      BY <3>1, <3>2
  <2> QED
    BY <2>1, <2>2
<1>4. CASE (\E p \in PurchaseId, t \in Timestamp : Pay(p, t)) \/ Crash \/ UNCHANGED req
  BY <1>4 DEF Pay, Crash
<1>5. ASSUME NEW r \in Request, Handle(r)
      PROVE  \/ \E c \in CourseId : SaveCourse(r, c)
             \/ \E p \in PurchaseId : SavePurchase(r, p)
             \/ CreatePaymentIntent(r) \/ FindPurchase(r) \/ SaveCompleted(r)
             \/ Enroll(r) \/ Reply(r) \/ FindCourse(r) \/ FindPurchases(r)
  BY <1>5 DEF Handle
<1> HIDE DEF Goto, Finish, Done, Idle, IInv, TypeOK
<1> QED
  BY <1>1, <1>2, <1>3, <1>4, <1>5
=============================================================================
