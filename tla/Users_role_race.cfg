SPECIFICATION Spec
CONSTANTS
  UserId = {u1}
  Email = {e1}
  Password = {w1}
  Field = {"name", "biography"}
  Value = {v1}
  Request = {r1, r2}
  Null = Null
  MaxFaults = 0
PROPERTIES
  RoleIsFinal
