SPECIFICATION FairSpec
CONSTANTS
  UserId = {u1}
  CourseId = {c1}
  PurchaseId = {p1, p2}
  Request = {r1, r2}
  Price = {m1}
  Timestamp = {t1}
  Null = Null
  MaxFaults = 2
PROPERTIES
  PaidIsEnrolled
