SPECIFICATION Spec
CONSTANTS
  UserId = {u1, u2}
  CourseId = {c1}
  PurchaseId = {p1, p2}
  Request = {r1, r2, r3}
  Price = {m1, m2}
  Timestamp = {t1, t2}
  Null = Null
  MaxFaults = 1
SYMMETRY Symmetry
INVARIANTS
  TypeOK
  EnrolledOnlyIfPaid
  CompletedWhenPaid
  IntentIsRecorded
  AckedOnlyIfEnrolled
  RequestsKnow
PROPERTIES
  BoughtIsFinal
  NothingIsTakenBack
  ImplementsLedger
