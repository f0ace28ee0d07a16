--------------------------- MODULE Edufy_proofs ---------------------------
EXTENDS Edufy, TLAPS

LEMMA Assumptions == U!UsersAssumption /\ P!PurchasesAssumption
  BY EdufyAssumption DEF U!UsersAssumption, P!PurchasesAssumption

-----------------------------------------------------------------------------
(* Every step of the application is one of each component, or none.        *)

LEMMA CallerType ==
  ASSUME U!IInv, NEW u \in UserId, U!Authenticated(u)
  PROVE  /\ user[u] # Null
         /\ CallerOf(u) \in P!Caller
         /\ CallerOf(u).id = u /\ CallerOf(u).role = user[u].role
<1>1. user[u] \in U!UserEntity /\ user[u] # Null
  BY DEF U!IInv, U!TypeOK, U!Authenticated
<1>2. user[u].role \in P!Role \cup {Null}
  BY <1>1 DEF U!UserEntity, U!Role, U!SelfAssignable, P!Role
<1> QED
  BY <1>1, <1>2 DEF CallerOf, P!Caller

LEMMA StepOfUsers == [Next]_vars => [U!Next]_(U!vars)
  BY DEF Next, vars, accounts, AccountStep, ShopStep, Crash, U!Next, U!vars

LEMMA StepOfPurchases ==
  ASSUME U!IInv, [Next]_vars
  PROVE  [P!Next]_(P!vars)
<1>1. ASSUME NEW r \in ShopRequest, NEW u \in UserId, Enter(r, u)
      PROVE  P!Receive(r)
  BY <1>1, CallerType DEF Enter, P!Receive
<1>2. CASE ShopStep
  BY <1>1, <1>2 DEF ShopStep, P!Next, P!Receive
<1>3. CASE AccountStep \/ UNCHANGED vars
  BY <1>3 DEF AccountStep, vars, shop, P!vars
<1>4. CASE Crash
  BY <1>4 DEF Crash, P!Next
<1> QED
  BY <1>2, <1>3, <1>4 DEF Next

-----------------------------------------------------------------------------
(* Who is fit stays fit.                                                   *)

\* A step about an account replaces a role only with a trace in raced, and makes
\* nobody an agent.
LEMMA FitNext ==
  ASSUME U!IInv, [Next]_vars,
         NEW u \in UserId, NEW role \in {"student", "instructor"}, Fit(u, role)
  PROVE  Fit(u, role)'
<1>1. user[u] # Null /\ user[u].role # "support_agent"
  BY DEF Fit, Had, Agent
<1>2. user'[u] # Null /\ user'[u].role # "support_agent"
  BY <1>1, StepOfUsers, U!StaysOnItsSide, Assumptions
<1>3. u \in raced => u \in raced'
  BY DEF Next, AccountStep, ShopStep, Crash, vars
<1>4. user'[u].role = user[u].role \/ u \in raced'
  <2>1. CASE AccountStep
    <3>1. u \in raced \/ user[u].role = role
      BY DEF Fit, Had
    <3>2. CASE u \in raced
      BY <1>3, <3>2
    <3>3. CASE user[u].role = role
      BY <1>1, <2>1, <3>3, EdufyAssumption
         DEF AccountStep, U!Stored, U!Role, U!SelfAssignable
    <3> QED
      BY <3>1, <3>2, <3>3
  <2>2. CASE ShopStep \/ Crash \/ UNCHANGED vars
    BY <2>2 DEF ShopStep, Crash, U!Crash, vars, accounts
  <2> QED
    BY <2>1, <2>2 DEF Next
<1> QED
  BY <1>2, <1>3, <1>4 DEF Fit, Had, Agent

LEMMA RequestsFitNext ==
  ASSUME U!IInv, P!IInv, RequestsFit, [Next]_vars
  PROVE  RequestsFit'
<1> SUFFICES ASSUME NEW q \in ShopRequest
             PROVE  /\ shopReq'[q].pc = "saveCourse" =>
                         Fit(shopReq[q].instructorId, "instructor")'
                    /\ shopReq'[q].pc \in {"findCourse", "findPurchases",
                                          "savePurchase"} =>
                         Fit(shopReq[q].userId, "student")'
  BY DEF RequestsFit
<1>1. /\ shopReq[q].pc = "saveCourse" => shopReq[q].instructorId \in UserId
      /\ shopReq[q].pc \in P!Checkouts => shopReq[q].userId \in UserId
  BY DEF P!IInv, P!TypeOK, P!RequestState, P!Checkouts
\* The request was there before the step: whose it is has not changed.
<1>2. ASSUME /\ shopReq'[q].pc = "saveCourse" =>
                  /\ shopReq[q].pc = "saveCourse"
                  /\ shopReq'[q].instructorId = shopReq[q].instructorId
             /\ shopReq'[q].pc \in P!Checkouts =>
                  /\ shopReq[q].pc \in P!Checkouts
                  /\ shopReq'[q].userId = shopReq[q].userId
      PROVE  /\ shopReq'[q].pc = "saveCourse" =>
                  Fit(shopReq[q].instructorId, "instructor")'
             /\ shopReq'[q].pc \in P!Checkouts => Fit(shopReq[q].userId, "student")'
  <2>1. ASSUME shopReq'[q].pc = "saveCourse"
        PROVE  Fit(shopReq[q].instructorId, "instructor")'
    <3>1. Fit(shopReq[q].instructorId, "instructor")
      BY <1>2, <2>1 DEF RequestsFit
    <3>2. Fit(shopReq[q].instructorId, "instructor")
            => user'[shopReq[q].instructorId] # Null
               /\ (user'[shopReq[q].instructorId].role = "instructor"
                    \/ shopReq[q].instructorId \in raced')
               /\ user'[shopReq[q].instructorId].role # "support_agent"
      BY <1>1, <1>2, <2>1, FitNext DEF Fit, Had, Agent
    <3> QED
      BY <1>2, <2>1, <3>1, <3>2 DEF Fit, Had, Agent
  <2>2. ASSUME shopReq'[q].pc \in P!Checkouts
        PROVE  Fit(shopReq[q].userId, "student")'
    <3>1. Fit(shopReq[q].userId, "student")
      BY <1>2, <2>2 DEF RequestsFit, P!Checkouts
    <3>2. Fit(shopReq[q].userId, "student")
            => user'[shopReq[q].userId] # Null
               /\ (user'[shopReq[q].userId].role = "student"
                    \/ shopReq[q].userId \in raced')
               /\ user'[shopReq[q].userId].role # "support_agent"
      BY <1>1, <1>2, <2>2, FitNext DEF Fit, Had, Agent
    <3> QED
      BY <1>2, <2>2, <3>1, <3>2 DEF Fit, Had, Agent
  <2> QED
    BY <2>1, <2>2
\* The request arrives: the guard has just read the caller's role.
<1>3. ASSUME NEW r \in ShopRequest, NEW u \in UserId, Enter(r, u), ShopStep
      PROVE  /\ shopReq'[q].pc = "saveCourse" =>
                  Fit(shopReq[q].instructorId, "instructor")'
             /\ shopReq'[q].pc \in P!Checkouts => Fit(shopReq[q].userId, "student")'
  <2>1. /\ user[u] # Null /\ CallerOf(u).id = u /\ CallerOf(u).role = user[u].role
        /\ user' = user /\ raced' = raced
    BY <1>3, CallerType DEF Enter, ShopStep, accounts
  <2>2. \/ shopReq'[q] = shopReq[q]
        \/ shopReq'[q].pc \notin {"saveCourse"} \cup P!Checkouts
        \/ /\ shopReq'[q].pc = "saveCourse" /\ user[u].role = "instructor"
           /\ shopReq'[q].instructorId = u
        \/ /\ shopReq'[q].pc = "findCourse" /\ user[u].role = "student"
           /\ shopReq'[q].userId = u
    <3>1. ASSUME NEW price \in Price, P!CreateCourse(r, CallerOf(u), price)
          PROVE  \/ shopReq'[q] = shopReq[q]
                 \/ shopReq'[q].pc = "done"
                 \/ /\ shopReq'[q].pc = "saveCourse" /\ user[u].role = "instructor"
                    /\ shopReq'[q].instructorId = u
      BY <2>1, <3>1 DEF P!CreateCourse, P!Goto, P!Finish, P!Done, P!IInv, P!TypeOK
    <3>2. ASSUME NEW c \in CourseId, P!CheckoutCourse(r, CallerOf(u), c)
          PROVE  \/ shopReq'[q] = shopReq[q]
                 \/ shopReq'[q].pc = "done"
                 \/ /\ shopReq'[q].pc = "findCourse" /\ user[u].role = "student"
                    /\ shopReq'[q].userId = u
      BY <2>1, <3>2 DEF P!CheckoutCourse, P!Goto, P!Finish, P!Done, P!IInv, P!TypeOK
    <3> QED
      BY <1>3, <3>1, <3>2 DEF Enter, P!Checkouts
  <2>3. CASE shopReq'[q] = shopReq[q]
    BY <1>2, <2>3
  <2>4. CASE shopReq'[q].pc \notin {"saveCourse"} \cup P!Checkouts
    BY <2>4
  <2>5. CASE /\ shopReq'[q].pc = "saveCourse" /\ user[u].role = "instructor"
             /\ shopReq'[q].instructorId = u
    BY <2>1, <2>5 DEF Fit, Had, Agent, P!Checkouts
  <2>6. CASE /\ shopReq'[q].pc = "findCourse" /\ user[u].role = "student"
             /\ shopReq'[q].userId = u
    BY <2>1, <2>6 DEF Fit, Had, Agent
  <2> QED
    BY <2>2, <2>3, <2>4, <2>5, <2>6
<1>4. CASE ~ \E r \in ShopRequest, u \in UserId : Enter(r, u) /\ ShopStep
  <2>1. \/ \E r \in ShopRequest :
            \/ P!Handle(r) \/ P!Reject(r)
            \/ \E p \in PurchaseId : P!Deliver(r, p)
            \/ \E t \in Timestamp : P!DeliverForeign(r, t)
        \/ \E p \in PurchaseId, t \in Timestamp : P!Pay(p, t)
        \/ P!Crash
        \/ UNCHANGED shopReq
    BY <1>4 DEF Next, ShopStep, AccountStep, Crash, vars, shop
  <2> QED
    BY <1>2, <2>1, P!RequestOrigin, Assumptions DEF P!Checkouts
<1> QED
  BY <1>3, <1>4 DEF P!Checkouts

LEMMA RowsFitNext ==
  ASSUME U!IInv, P!IInv, RowsFit, RequestsFit, [Next]_vars
  PROVE  RowsFit'
<1>0. [P!Next]_(P!vars)
  BY StepOfPurchases
<1>1. ASSUME NEW c \in CourseId, course'[c] # Null
      PROVE  Fit(course[c].instructorId, "instructor")'
  <2>1. PICK u \in UserId : Fit(u, "instructor") /\ course'[c].instructorId = u
    <3>1. CASE course[c] # Null /\ course'[c] = course[c]
      BY <3>1 DEF RowsFit, P!IInv, P!TypeOK, P!CourseEntity
    <3>2. ASSUME NEW r \in ShopRequest, shopReq[r].pc = "saveCourse",
                 course'[c].instructorId = shopReq[r].instructorId
          PROVE  \E u \in UserId : Fit(u, "instructor") /\ course'[c].instructorId = u
      BY <3>2 DEF RequestsFit, P!IInv, P!TypeOK, P!RequestState
    <3> QED
      BY <1>0, <1>1, <3>1, <3>2, P!CourseOrigin, Assumptions
  <2>2. Fit(u, "instructor")'
    BY <2>1, FitNext
  <2> QED
    BY <2>1, <2>2 DEF Fit, Had, Agent
<1>2. ASSUME NEW p \in PurchaseId, purchase'[p] # Null
      PROVE  Fit(purchase[p].userId, "student")'
  <2>1. PICK u \in UserId : Fit(u, "student") /\ purchase'[p].userId = u
    <3>1. CASE purchase[p] # Null /\ purchase'[p].userId = purchase[p].userId
      BY <3>1 DEF RowsFit, P!IInv, P!TypeOK, P!PurchaseEntity
    <3>2. ASSUME NEW r \in ShopRequest, shopReq[r].pc = "savePurchase",
                 purchase'[p].userId = shopReq[r].userId
          PROVE  \E u \in UserId : Fit(u, "student") /\ purchase'[p].userId = u
      BY <3>2 DEF RequestsFit, P!IInv, P!TypeOK, P!RequestState
    <3> QED
      BY <1>0, <1>2, <3>1, <3>2, P!PurchaseOrigin, Assumptions
  <2>2. Fit(u, "student")'
    BY <2>1, FitNext
  <2> QED
    BY <2>1, <2>2 DEF Fit, Had, Agent
<1> QED
  BY <1>1, <1>2 DEF RowsFit

-----------------------------------------------------------------------------
(* The theorems.                                                           *)

LEMMA IInvInit == Init => IInv
<1> SUFFICES ASSUME Init PROVE IInv
  OBVIOUS
<1>1. U!IInv /\ P!IInv
  BY U!IInvInit, P!IInvInit, Assumptions DEF Init
<1>2. RowsFit /\ RequestsFit
  BY DEF Init, P!Init, P!Idle, RowsFit, RequestsFit
<1> QED
  BY <1>1, <1>2 DEF IInv

LEMMA IInvNext == IInv /\ [Next]_vars => IInv'
<1> SUFFICES ASSUME IInv, [Next]_vars PROVE IInv'
  OBVIOUS
<1>1. U!IInv'
  BY StepOfUsers, U!IInvNext, Assumptions DEF IInv
<1>2. P!IInv'
  BY StepOfPurchases, P!IInvNext, Assumptions DEF IInv
<1> QED
  BY <1>1, <1>2, RowsFitNext, RequestsFitNext DEF IInv

\* The invariants of both components hold together, and who appears in the shop,
\* or is about to, is fit for it.
THEOREM Invariance == Spec => []IInv
  BY IInvInit, IInvNext, PTL DEF Spec

\* Accounts in the application are accounts as Users describes them: what is
\* proved of Users holds here.
THEOREM ImplementsUsers == Spec => U!Spec
<1>1. Init => U!Init
  BY DEF Init
<1> QED
  BY <1>1, StepOfUsers, PTL DEF Spec, U!Spec

\* The shop in the application is the shop of Purchases: no caller that JwtGuard
\* attaches is one that Purchases does not allow for.
THEOREM ImplementsPurchases == Spec => P!Spec
<1>1. Init => P!Init
  BY DEF Init
<1>2. IInv /\ [Next]_vars => [P!Next]_(P!vars)
  BY StepOfPurchases DEF IInv
<1> QED
  BY <1>1, <1>2, Invariance, PTL DEF Spec, P!Spec

\* Lecturers are instructors and customers students, unless requests of their own
\* account raced for its role.
THEOREM RolesAreRespected == Spec => []RolesRespected
<1>1. IInv => RolesRespected
  BY DEF IInv, RowsFit, RolesRespected, Fit, P!IInv, P!EnrolledOnlyIfPaid, P!Grants,
         P!PurchasesOf
<1> QED
  BY <1>1, Invariance, PTL

\* Support agents stay out of the shop, whatever races.
THEOREM AgentsStayOutAlways == Spec => []AgentsStayOut
<1>1. IInv => AgentsStayOut
  BY DEF IInv, RowsFit, AgentsStayOut, Fit, P!IInv, P!EnrolledOnlyIfPaid, P!Grants,
         P!PurchasesOf
<1> QED
  BY <1>1, Invariance, PTL

-----------------------------------------------------------------------------
(* What is proved of the parts, in the whole.                              *)

\* The application implements the abstract ledger: its accounts change nothing
\* about what an access is worth.
THEOREM ImplementsTheLedger == Spec => P!ImplementsLedger
  BY ImplementsPurchases, P!Refinement, Assumptions, PTL

\* Accounts whose saves do not overlap are those of the abstract book, with the
\* shop at work beside them.
THEOREM ImplementsTheBook == Spec /\ []U!NoOverlap => U!Book!BookSpec
  BY ImplementsUsers, U!BookImplemented, Assumptions, PTL

\* Only overlapping saves of one account replace a role.
LEMMA NobodyRaced == Spec /\ []U!NoOverlap => [](raced = {})
<1> DEFINE Inv == U!IInv /\ U!SentIsGiven /\ U!SavesFresh /\ U!Book!BookTypeOK
<1>1. Spec /\ []U!NoOverlap => []Inv
  BY ImplementsUsers, U!Invariance, U!SentFieldsAreGiven, U!NoOverlapKeepsFresh,
     U!BookTyped, Assumptions, PTL
<1>2. Init => raced = {}
  BY DEF Init
<1>3. Inv /\ raced = {} /\ [Next]_vars => (raced = {})'
  <2> SUFFICES ASSUME Inv, raced = {}, [Next]_vars
               PROVE  raced' = {}
    OBVIOUS
  <2>1. \A u \in U!Stored : user[u].role # Null => user'[u].role = user[u].role
    BY StepOfUsers, U!RoleKept, Assumptions
  <2> QED
    BY <2>1 DEF Next, AccountStep, ShopStep, Crash, vars
<1> QED
  BY <1>1, <1>2, <1>3, PTL DEF Spec

\* What the role checks of the shop say then holds of the rows as they are, at all
\* times: lecturers are instructors and customers students.
THEOREM RolesHeldWithoutOverlap == Spec /\ []U!NoOverlap => []RolesHeld
<1>1. RolesRespected /\ raced = {} => RolesHeld
  BY DEF RolesRespected, RolesHeld, Had, Has
<1> QED
  BY <1>1, RolesAreRespected, NobodyRaced, PTL

\* A course is bought once by those whose checkouts have no rival.
THEOREM OnePurchaseWithoutRival == Spec /\ []P!NoRival => []P!OnePurchasePerCourse
  BY ImplementsPurchases, P!OnePurchaseWithoutRival, Assumptions, PTL
=============================================================================
