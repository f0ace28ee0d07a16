SPECIFICATION Spec
CONSTANTS
  UserId = {u1, u2}
  Email = {e1, e2}
  Password = {w1}
  Field = {"name", "biography"}
  Value = {v1}
  Request = {r1, r2, r3}
  Null = Null
  MaxFaults = 1
SYMMETRY Symmetry
INVARIANTS
  TypeOK
  EmailsUnique
  TokenNamesUser
  SavesKnow
PROPERTIES
  AccountIsStable
  OutdatedByOverlap
  AgentsAreAppointed
  SettledRoleIsFinal
  FreshSavesAreAtomic
