SPECIFICATION Spec
CONSTANTS
  UserId = {u1, u2}
  Email = {e1, e2}
  Password = {w1}
  Field = {"name"}
  Value = {v1}
  CourseId = {c1}
  PurchaseId = {p1}
  Price = {m1}
  Timestamp = {t1}
  AccountRequest = {a1, a2}
  ShopRequest = {s1}
  Null = Null
  MaxFaults = 1
SYMMETRY Symmetry
INVARIANTS
  RolesRespected
  AgentsStayOut
