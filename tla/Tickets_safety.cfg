SPECIFICATION Spec
CONSTANTS
  UserId = {a1, a2, u1}
  SupportAgent = {a1, a2}
  TicketId = {k1}
  Content = {x1}
  Request = {r1, r2, r3}
  Null = Null
  MaxReplies = 2
  MaxFaults = 1
SYMMETRY Symmetry
INVARIANTS
  TypeOK
  ClosedByAgent
  SavesKnow
PROPERTIES
  SettledIsFinal
  OutdatedByOverlap
  FreshSavesAreAtomic
