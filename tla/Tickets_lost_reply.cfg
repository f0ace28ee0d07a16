SPECIFICATION Spec
CONSTANTS
  UserId = {a1, u1}
  SupportAgent = {a1}
  TicketId = {k1}
  Content = {x1, x2}
  Request = {r1, r2}
  Null = Null
  MaxReplies = 2
  MaxFaults = 0
PROPERTIES
  RepliesAreKept
