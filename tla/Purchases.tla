----------------------------- MODULE Purchases -----------------------------
(***************************************************************************)
(* Courses, purchases and enrollments: the handlers of CourseController,   *)
(* PurchaseService and UserWebhook over the PostgreSQL tables, with the    *)
(* payment gateway as their environment.                                   *)
(*                                                                         *)
(* A handler is an async function of one Node.js process.  It runs without *)
(* interruption up to its next await, so one action below is one awaited   *)
(* SQL statement or gateway call with the code that runs on its result;    *)
(* the steps of different requests interleave, and no transaction encloses *)
(* two of them.  A request of the model is a slot: it is reused once its   *)
(* response is delivered.                                                  *)
(***************************************************************************)
EXTENDS Integers, FiniteSets

CONSTANTS
  UserId, CourseId, PurchaseId,   \* the UUIDs the process can meet
  Request,                        \* slots for requests in flight
  Price, Timestamp,
  Null,                           \* null / undefined
  MaxFaults                       \* bound on crashes and rejected statements

VARIABLES
  course,       \* table "course"
  purchase,     \* table "purchase"
  enrollment,   \* table "enrollment": <<student_id, course_id>>
  intent,       \* gateway: amount asked for a purchase, or Null
  paidAt,       \* gateway: when a purchase was paid, or Null
  acked,        \* gateway: purchases whose confirmation got a 2xx answer
  req,          \* the local state of each request
  faults

tables  == <<course, purchase, enrollment>>
gateway == <<intent, paidAt, acked>>
vars    == <<course, purchase, enrollment, intent, paidAt, acked, req, faults>>

-----------------------------------------------------------------------------
(* Entities.                                                               *)

Role == {"student", "instructor", "support_agent"}

\* The UserEntity that JwtGuard read from the user table and attached to the
\* request.  The table belongs to another component, so a handler may be given
\* any identity and role.
Caller == [id : UserId, role : Role \cup {Null}]

CourseEntity == [id : CourseId, instructorId : UserId, price : Price]

PurchaseStatus == {"completed", "pending", "failed"}

PurchaseEntity ==
  [id : PurchaseId, userId : UserId, courseId : CourseId,
   status : PurchaseStatus, price : Price, confirmedAt : Timestamp \cup {Null}]

\* What stays the same about a purchase
Sale == [userId : UserId, courseId : CourseId, price : Price]

ASSUME PurchasesAssumption ==
  /\ MaxFaults \in Nat
  /\ Null \notin CourseEntity \cup PurchaseEntity \cup Sale
  /\ Null \notin PurchaseId \cup Price \cup Timestamp

\* Mutant: the price of the course is not copied into the purchase
NewPurchaseUnpriced(p, u, c, price) ==
  [id |-> p, userId |-> u, courseId |-> c, status |-> "pending",
   price |-> Null, confirmedAt |-> Null]

\* PurchaseEntity.create
NewPurchase(p, u, c, price) ==
  [id |-> p, userId |-> u, courseId |-> c, status |-> "pending",
   price |-> price, confirmedAt |-> Null]

\* EnrollmentEntity.create, without its time: the row a completed purchase earns
NewEnrollment(e) == <<e.userId, e.courseId>>

-----------------------------------------------------------------------------
(* Repositories.                                                           *)

\* KyselyPurchaseRepository.findAllBy({userId, courseId})
PurchasesOf(u, c) ==
  {p \in PurchaseId : /\ purchase[p] # Null
                      /\ purchase[p].userId = u
                      /\ purchase[p].courseId = c}

\* KyselyPurchaseRepository.findById; Null is an id no purchase has
FindById(p) == IF p \in PurchaseId THEN purchase[p] ELSE Null

\* KyselyPurchaseRepository.save: INSERT without confirmed_at, or on a
\* conflict UPDATE of every column from the entity
Saved(e) ==
  [purchase EXCEPT ![e.id] = IF @ = Null THEN [e EXCEPT !.confirmedAt = Null]
                                         ELSE e]

\* What processPurchase looks for: a completed purchase of the course
Bought(u, c) == \E p \in PurchasesOf(u, c) : purchase[p].status = "completed"

-----------------------------------------------------------------------------
(* Requests.                                                               *)

Idle == [pc |-> "idle"]

\* The handler has returned or thrown; the response is on its way.  confirms
\* is the purchase a webhook delivery was about, Null for any other request.
Done(status, confirms) ==
  [pc |-> "done", status |-> status, confirms |-> confirms]

Status == {200, 201, 204, 400, 403, 404, 409, 500}

RequestState ==
  [pc : {"idle"}]
  \cup [pc : {"saveCourse"}, instructorId : UserId, price : Price]
  \cup [pc : {"findCourse"}, userId : UserId, courseId : CourseId]
  \cup [pc : {"findPurchases", "savePurchase"},
        userId : UserId, courseId : CourseId, price : Price]
  \cup [pc : {"createIntent"}, purchase : PurchaseEntity]
  \cup [pc : {"findPurchase"}, id : PurchaseId \cup {Null}, timestamp : Timestamp]
  \cup [pc : {"saveCompleted", "enroll"}, purchase : PurchaseEntity]
  \cup [pc : {"done"}, status : Status, confirms : PurchaseId \cup {Null}]

\* The purchase the gateway will learn about from the answer to request r
Confirms(r) ==
  CASE req[r].pc = "findPurchase" -> req[r].id
    [] req[r].pc \in {"saveCompleted", "enroll"} -> req[r].purchase.id
    [] OTHER -> Null

Goto(r, state)    == req' = [req EXCEPT ![r] = state]
Finish(r, status) == Goto(r, Done(status, Confirms(r)))

TypeOK ==
  /\ course \in [CourseId -> CourseEntity \cup {Null}]
  /\ purchase \in [PurchaseId -> PurchaseEntity \cup {Null}]
  /\ enrollment \subseteq UserId \X CourseId
  /\ intent \in [PurchaseId -> Price \cup {Null}]
  /\ paidAt \in [PurchaseId -> Timestamp \cup {Null}]
  /\ acked \subseteq PurchaseId
  /\ req \in [Request -> RequestState]
  /\ faults \in 0..MaxFaults

Init ==
  /\ course = [c \in CourseId |-> Null]
  /\ purchase = [p \in PurchaseId |-> Null]
  /\ enrollment = {}
  /\ intent = [p \in PurchaseId |-> Null]
  /\ paidAt = [p \in PurchaseId |-> Null]
  /\ acked = {}
  /\ req = [r \in Request |-> Idle]
  /\ faults = 0

-----------------------------------------------------------------------------
(* POST /courses                                                           *)

\* Bound: a request that will need a fresh UUID is accepted only while the
\* finite supply has one for it, so that no handler waits for an id.
CourseIdLeft ==
  Cardinality({r \in Request : req[r].pc = "saveCourse"})
    < Cardinality({c \in CourseId : course[c] = Null})
PurchaseIdLeft ==
  Cardinality({r \in Request :
                 req[r].pc \in {"findCourse", "findPurchases", "savePurchase"}})
    < Cardinality({p \in PurchaseId : purchase[p] = Null})

\* Mutant: the role is not checked
CreateCourseByAny(r, caller, price) ==
  /\ req[r] = Idle
  /\ CourseIdLeft
  /\ Goto(r, [pc |-> "saveCourse", instructorId |-> caller.id, price |-> price])
  /\ UNCHANGED <<tables, gateway, faults>>

CreateCourse(r, caller, price) ==
  /\ req[r] = Idle
  /\ CourseIdLeft
  /\ \/ /\ caller.role # "instructor"
        /\ Finish(r, 403)
     \/ /\ caller.role = "instructor"
        /\ Goto(r, [pc |-> "saveCourse", instructorId |-> caller.id,
                    price |-> price])
  /\ UNCHANGED <<tables, gateway, faults>>

SaveCourse(r, c) ==
  /\ req[r].pc = "saveCourse"
  /\ course[c] = Null                       \* randomUUID() is fresh
  /\ course' = [course EXCEPT ![c] =
                  [id |-> c, instructorId |-> req[r].instructorId,
                   price |-> req[r].price]]
  /\ Finish(r, 201)
  /\ UNCHANGED <<purchase, enrollment, gateway, faults>>

-----------------------------------------------------------------------------
(* POST /courses/:id/checkout                                              *)

\* Mutant: the role is not checked
CheckoutCourseByAny(r, caller, c) ==
  /\ req[r] = Idle
  /\ PurchaseIdLeft
  /\ Goto(r, [pc |-> "findCourse", userId |-> caller.id, courseId |-> c])
  /\ UNCHANGED <<tables, gateway, faults>>

CheckoutCourse(r, caller, c) ==
  /\ req[r] = Idle
  /\ PurchaseIdLeft
  /\ \/ /\ caller.role # "student"
        /\ Finish(r, 403)
     \/ /\ caller.role = "student"
        /\ Goto(r, [pc |-> "findCourse", userId |-> caller.id, courseId |-> c])
  /\ UNCHANGED <<tables, gateway, faults>>

FindCourse(r) ==
  /\ req[r].pc = "findCourse"
  /\ \/ /\ course[req[r].courseId] = Null
        /\ Finish(r, 404)
     \/ /\ course[req[r].courseId] # Null
        /\ Goto(r, [pc |-> "findPurchases", userId |-> req[r].userId,
                    courseId |-> req[r].courseId,
                    price |-> course[req[r].courseId].price])
  /\ UNCHANGED <<tables, gateway, faults>>

\* Mutant: no 409 check
FindPurchasesUnchecked(r) ==
  /\ req[r].pc = "findPurchases"
  /\ Goto(r, [req[r] EXCEPT !.pc = "savePurchase"])
  /\ UNCHANGED <<tables, gateway, faults>>

\* The 409 check of processPurchase.  Its answer is used one await later.
FindPurchases(r) ==
  /\ req[r].pc = "findPurchases"
  /\ \/ /\ Bought(req[r].userId, req[r].courseId)
        /\ Finish(r, 409)
     \/ /\ ~Bought(req[r].userId, req[r].courseId)
        /\ Goto(r, [req[r] EXCEPT !.pc = "savePurchase"])
  /\ UNCHANGED <<tables, gateway, faults>>

\* Mutant: the intent is created while the purchase is not yet saved
SavePurchaseNotAwaited(r, p) ==
  /\ req[r].pc = "savePurchase"
  /\ purchase[p] = Null
  /\ Goto(r, [pc |-> "createIntent",
              purchase |-> NewPurchase(p, req[r].userId, req[r].courseId,
                                       req[r].price)])
  /\ UNCHANGED <<tables, gateway, faults>>

SavePurchase(r, p) ==
  /\ req[r].pc = "savePurchase"
  /\ purchase[p] = Null                     \* randomUUID() is fresh
  /\ LET new == NewPurchase(p, req[r].userId, req[r].courseId, req[r].price)
     IN  /\ purchase' = Saved(new)
         /\ Goto(r, [pc |-> "createIntent", purchase |-> new])
  /\ UNCHANGED <<course, enrollment, gateway, faults>>

CreatePaymentIntent(r) ==
  /\ req[r].pc = "createIntent"
  /\ intent' = [intent EXCEPT ![req[r].purchase.id] = req[r].purchase.price]
  /\ Finish(r, 200)
  /\ UNCHANGED <<tables, paidAt, acked, faults>>

-----------------------------------------------------------------------------
(* POST /users/webhook                                                     *)

\* The payment gateway calls the webhook at least once for a purchase it was
\* paid for, and maybe again: after an answer it did not get or did not like,
\* or while an earlier call is still being handled.
Deliver(r, p) ==
  /\ req[r] = Idle
  /\ paidAt[p] # Null
  /\ Goto(r, [pc |-> "findPurchase", id |-> p, timestamp |-> paidAt[p]])
  /\ UNCHANGED <<tables, gateway, faults>>

\* WebHookGuard.canActivate turns a call away: 403 when the signature is missing
\* or wrong; 500 when it has another length or there is no body to sign, because
\* then timingSafeEqual and Hmac.update throw
Unverified == {403, 500}

\* Calls about nothing the application knows: one the guard does not let pass,
\* a confirmation of an id that is no purchase's, an event that does not
\* validate or whose data does not parse (400), another type (204).
DeliverForeign(r, t) ==
  /\ req[r] = Idle
  /\ \/ Goto(r, [pc |-> "findPurchase", id |-> Null, timestamp |-> t])
     \/ \E status \in Unverified \cup {400, 204} : Finish(r, status)
  /\ UNCHANGED <<tables, gateway, faults>>

\* Mutants of findById's continuation: the enrollment comes before the save ...
FindPurchaseThenEnroll(r) ==
  /\ req[r].pc = "findPurchase"
  /\ FindById(req[r].id) # Null
  /\ Goto(r, [pc |-> "enroll", purchase |-> FindById(req[r].id)])
  /\ UNCHANGED <<tables, gateway, faults>>

\* ... confirmed_at is left unset ...
FindPurchaseUndated(r) ==
  /\ req[r].pc = "findPurchase"
  /\ FindById(req[r].id) # Null
  /\ Goto(r, [pc |-> "saveCompleted",
              purchase |-> [FindById(req[r].id) EXCEPT !.status = "completed"]])
  /\ UNCHANGED <<tables, gateway, faults>>

\* ... or is the time of the delivery instead of the event's ...
FindPurchaseDatedNow(r) ==
  /\ req[r].pc = "findPurchase"
  /\ FindById(req[r].id) # Null
  /\ \E now \in Timestamp :
       Goto(r, [pc |-> "saveCompleted",
                purchase |-> [FindById(req[r].id) EXCEPT
                                !.status = "completed", !.confirmedAt = now]])
  /\ UNCHANGED <<tables, gateway, faults>>

\* ... or a purchase already completed is answered at once, without a look at
\* its enrollment.
FindPurchaseOnce(r) ==
  /\ req[r].pc = "findPurchase"
  /\ FindById(req[r].id) # Null
  /\ IF FindById(req[r].id).status = "completed"
       THEN Finish(r, 204)
       ELSE Goto(r, [pc |-> "saveCompleted",
                     purchase |-> [FindById(req[r].id) EXCEPT
                                     !.status = "completed",
                                     !.confirmedAt = req[r].timestamp]])
  /\ UNCHANGED <<tables, gateway, faults>>

FindPurchase(r) ==
  /\ req[r].pc = "findPurchase"
  /\ \/ /\ FindById(req[r].id) = Null
        /\ Finish(r, 404)
     \/ /\ FindById(req[r].id) # Null
        /\ Goto(r, [pc |-> "saveCompleted",
                    purchase |-> [FindById(req[r].id) EXCEPT
                                    !.status = "completed",
                                    !.confirmedAt = req[r].timestamp]])
  /\ UNCHANGED <<tables, gateway, faults>>

SaveCompleted(r) ==
  /\ req[r].pc = "saveCompleted"
  /\ purchase' = Saved(req[r].purchase)
  /\ Goto(r, [req[r] EXCEPT !.pc = "enroll"])
  /\ UNCHANGED <<course, enrollment, gateway, faults>>

\* EnrollmentRepository.save is a plain INSERT: the primary key
\* (student_id, course_id) refuses a second row and the handler throws.
Enroll(r) ==
  /\ req[r].pc = "enroll"
  /\ LET key == NewEnrollment(req[r].purchase)
     IN  \/ /\ key \in enrollment
            /\ Finish(r, 500)
            /\ UNCHANGED enrollment
         \/ /\ key \notin enrollment
            /\ enrollment' = enrollment \cup {key}
            /\ Finish(r, 204)
  /\ UNCHANGED <<course, purchase, gateway, faults>>

-----------------------------------------------------------------------------
(* Responses, faults, the gateway.                                         *)

\* The client receives the response.  A 2xx answer to a delivery is what the
\* gateway takes as an acknowledgement.
Reply(r) ==
  /\ req[r].pc = "done"
  /\ acked' = acked \cup {p \in PurchaseId : /\ p = req[r].confirms
                                            /\ req[r].status \in {200, 204}}
  /\ Goto(r, Idle)
  /\ UNCHANGED <<tables, intent, paidAt, faults>>

\* An awaited statement or gateway call is rejected: the exception reaches
\* Nest's filter.  What the earlier statements wrote stays.
Reject(r) ==
  /\ req[r].pc \notin {"idle", "done"}
  /\ faults < MaxFaults
  /\ faults' = faults + 1
  /\ Finish(r, 500)
  /\ UNCHANGED <<tables, gateway>>

\* The process dies and restarts: every request in flight is forgotten.
Crash ==
  /\ faults < MaxFaults
  /\ faults' = faults + 1
  /\ req' = [r \in Request |-> Idle]
  /\ UNCHANGED <<tables, gateway>>

\* The student pays an intent at the gateway, once.
Pay(p, t) ==
  /\ intent[p] # Null
  /\ paidAt[p] = Null
  /\ paidAt' = [paidAt EXCEPT ![p] = t]
  /\ UNCHANGED <<tables, intent, acked, req, faults>>

-----------------------------------------------------------------------------
(* Specification.                                                          *)

\* A handler at work on request r, up to the delivery of its response
Handle(r) ==
  \/ \E c \in CourseId : SaveCourse(r, c)
  \/ FindCourse(r)
  \/ FindPurchases(r)
  \/ \E p \in PurchaseId : SavePurchase(r, p)
  \/ CreatePaymentIntent(r)
  \/ FindPurchase(r)
  \/ SaveCompleted(r)
  \/ Enroll(r)
  \/ Reply(r)

\* A request arrives from a client or from the gateway
Receive(r) ==
  \/ \E caller \in Caller, price \in Price : CreateCourse(r, caller, price)
  \/ \E caller \in Caller, c \in CourseId : CheckoutCourse(r, caller, c)
  \/ \E p \in PurchaseId : Deliver(r, p)
  \/ \E t \in Timestamp : DeliverForeign(r, t)

Next ==
  \/ \E r \in Request : Handle(r) \/ Receive(r) \/ Reject(r)
  \/ Crash
  \/ \E p \in PurchaseId, t \in Timestamp : Pay(p, t)

Spec == Init /\ [][Next]_vars

\* The gateway repeats a delivery until it is acknowledged
Redeliver(p) == p \notin acked /\ \E r \in Request : Deliver(r, p)

\* The event loop resumes every handler whose awaited call has settled, and
\* the gateway does not give up: it finds the server free again and again.
Fairness ==
  /\ \A r \in Request : WF_vars(Handle(r))
  /\ \A p \in PurchaseId : SF_vars(Redeliver(p))

FairSpec == Spec /\ Fairness

-----------------------------------------------------------------------------
(* Properties.                                                             *)

Completed(p) == purchase[p] # Null /\ purchase[p].status = "completed"

\* Purchase p is what gives u access to course c
Grants(p, u, c) == p \in PurchasesOf(u, c) /\ Completed(p)

\* The price selectPurchaseAndCourse shows in a purchase's history: that of
\* the course row, not the one stored with the purchase
ShownPrice(p) == course[purchase[p].courseId].price

\* Nobody is enrolled for free: an enrollment row, written by the webhook two
\* statements after the purchase was read, always stands beside a completed
\* purchase of the same student and course that the gateway was paid for.
EnrolledOnlyIfPaid ==
  \A u \in UserId, c \in CourseId :
    <<u, c>> \in enrollment =>
      \E p \in PurchaseId : Grants(p, u, c) /\ paidAt[p] # Null

\* A stored purchase is completed exactly when confirmed_at is set, and then
\* confirmed_at is the moment the gateway was paid for this very purchase:
\* no delivery completes another purchase than its own.
CompletedWhenPaid ==
  \A p \in PurchaseId : purchase[p] # Null =>
    /\ Completed(p) <=> purchase[p].confirmedAt # Null
    /\ Completed(p) => purchase[p].confirmedAt = paidAt[p]

\* The gateway never asks money for a purchase the application does not
\* remember (its confirmation would be answered 404), and the amount asked,
\* the stored price and the price the purchase history shows are one.
IntentIsRecorded ==
  \A p \in PurchaseId : intent[p] # Null =>
    /\ purchase[p] # Null
    /\ intent[p] = purchase[p].price
    /\ intent[p] = ShownPrice(p)

\* The webhook acknowledges a confirmation only once the student is enrolled:
\* after a 2xx the gateway stops repeating it and nothing else would enroll.
AckedOnlyIfEnrolled ==
  \A p \in acked :
    /\ Completed(p)
    /\ <<purchase[p].userId, purchase[p].courseId>> \in enrollment

\* A checkout of c by u, past its 409 check
PastCheck(r, u, c) ==
  req[r].pc = "savePurchase" /\ req[r].userId = u /\ req[r].courseId = c

\* Once u has bought c and no checkout of theirs is past its 409 check ...
Settled(u, c) ==
  /\ Bought(u, c)
  /\ \A r \in Request : ~PastCheck(r, u, c)

\* ... that is final: no later step of any request undoes it or stores another
\* purchase of the course, so the 409 check fails only in the race.
BoughtIsFinal ==
  [][\A u \in UserId, c \in CourseId :
       Settled(u, c) => Settled(u, c)' /\ PurchasesOf(u, c)' = PurchasesOf(u, c)]_vars

\* Two versions of one purchase: whose it is, of what and for how much
SameSale(d, e) ==
  /\ d.id = e.id
  /\ d.userId = e.userId
  /\ d.courseId = e.courseId
  /\ d.price = e.price

Stable ==
  /\ enrollment \subseteq enrollment'
  /\ \A c \in CourseId : course[c] # Null => course'[c] = course[c]
  /\ \A p \in PurchaseId :
       /\ intent[p] # Null => intent'[p] = intent[p]
       /\ purchase[p] # Null =>
            /\ purchase'[p] # Null
            /\ SameSale(purchase'[p], purchase[p])
            /\ Completed(p) => purchase'[p] = purchase[p]

\* save() writes back a whole entity read earlier, and createPaymentIntent is
\* called with one.  Still, no interleaving of checkouts and deliveries ever
\* changes whose purchase a row is, of what and for how much, the amount asked
\* for it or the course it names, takes a completed purchase back, moves the
\* time it was confirmed, or removes an enrollment.
NothingIsTakenBack == [][Stable]_vars

\* A student who paid is eventually enrolled, whatever crashes and rejected
\* statements separate the webhook's two writes: the next delivery repairs it.
PaidIsEnrolled ==
  \A p \in PurchaseId :
    paidAt[p] # Null ~>
      /\ Completed(p)
      /\ <<purchase[p].userId, purchase[p].courseId>> \in enrollment

\* The ledger the tables and the gateway stand for, with the theorems about it
Ledger == INSTANCE PurchaseLedger_proofs WITH
  order <- [p \in PurchaseId |->
              IF purchase[p] = Null THEN Null
              ELSE [userId   |-> purchase[p].userId,
                    courseId |-> purchase[p].courseId,
                    price    |-> purchase[p].price]],
  paid <- {p \in PurchaseId : paidAt[p] # Null},
  completed <- {p \in PurchaseId : Completed(p)},
  enrolled <- enrollment

\* Every statement of every handler is one step of the abstract ledger or none:
\* with requests interleaving, deliveries repeated and the process crashing
\* between a purchase's completion and its enrollment, a purchase is opened,
\* paid, completed and turned into an enrollment in this order and for good.
ImplementsLedger == Ledger!LedgerSpec

\* The checkout test "returns an error when user has already bought the course"
\* and the exception "You have already purchased this course": nobody buys a
\* course twice.  The check sees neither a pending purchase nor one completed
\* between the check and the save.
OnePurchasePerCourse ==
  \A u \in UserId, c \in CourseId :
    \A p, q \in PurchaseId : Grants(p, u, c) /\ Grants(q, u, c) => p = q

\* Nobody is past the check of a course with another checkout of it, or with a
\* purchase of it still to be confirmed.
NoRival ==
  \A u \in UserId, c \in CourseId, r \in Request : PastCheck(r, u, c) =>
    /\ \A q \in Request : PastCheck(q, u, c) => q = r
    /\ \A p \in PurchasesOf(u, c) : Completed(p)

\* The webhook test "ignores duplicate confirmations for the same purchase",
\* still a todo: a delivery of a known purchase is not refused unless a
\* statement of its own was rejected.
DuplicateConfirmationIgnored ==
  [][\A r \in Request : Enroll(r) => req'[r].status = 204]_vars

-----------------------------------------------------------------------------
(* The inductive invariant: what the local state of a request knows about  *)
(* the tables between two statements.                                      *)

\* The row an entity held by a request was read from, or written to
IsSnapshot(e) ==
  /\ purchase[e.id] # Null
  /\ SameSale(purchase[e.id], e)

CheckoutKnows(r) ==
  /\ req[r].pc \in {"findPurchases", "savePurchase"} =>
       /\ course[req[r].courseId] # Null
       /\ req[r].price = course[req[r].courseId].price
  /\ req[r].pc = "createIntent" => IsSnapshot(req[r].purchase)

WebhookKnows(r) ==
  /\ req[r].pc = "findPurchase" /\ req[r].id # Null =>
       req[r].timestamp = paidAt[req[r].id]
  /\ req[r].pc \in {"saveCompleted", "enroll"} =>
       /\ IsSnapshot(req[r].purchase)
       /\ req[r].purchase.status = "completed"
       /\ req[r].purchase.confirmedAt = paidAt[req[r].purchase.id]
       /\ paidAt[req[r].purchase.id] # Null
  /\ req[r].pc = "enroll" => Completed(req[r].purchase.id)
  /\ req[r].pc = "done" /\ req[r].confirms # Null /\ req[r].status \in {200, 204} =>
       /\ Completed(req[r].confirms)
       /\ <<purchase[req[r].confirms].userId,
            purchase[req[r].confirms].courseId>> \in enrollment

RowsAgree ==
  \A p \in PurchaseId :
    /\ purchase[p] # Null =>
         /\ purchase[p].id = p
         /\ course[purchase[p].courseId] # Null
         /\ purchase[p].price = ShownPrice(p)
    /\ paidAt[p] # Null => intent[p] # Null

\* What a request holds between two awaits is never contradicted by the tables:
\* the entity it will write back differs from the row at most in status and
\* confirmed_at, a delivery carries the payment of its purchase, and an answer
\* already on its way is still true when it arrives.
RequestsKnow == \A r \in Request : CheckoutKnows(r) /\ WebhookKnows(r)

IInv ==
  /\ TypeOK /\ RowsAgree /\ RequestsKnow
  /\ EnrolledOnlyIfPaid /\ CompletedWhenPaid
  /\ IntentIsRecorded /\ AckedOnlyIfEnrolled

\* A student has at most one purchase of a course, and none when about to store one.
OnePurchase ==
  \A u \in UserId, c \in CourseId :
    /\ \A p, q \in PurchasesOf(u, c) : p = q
    /\ \A r \in Request : PastCheck(r, u, c) => PurchasesOf(u, c) = {}
=============================================================================
