SPECIFICATION Spec
CONSTANTS
  UserId = {u1}
  CourseId = {c1}
  PurchaseId = {p1}
  Request = {r1}
  Price = {m1}
  Timestamp = {t1}
  Null = Null
  MaxFaults = 0
PROPERTIES
  DuplicateConfirmationIgnored
