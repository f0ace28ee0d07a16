----------------------------- MODULE MCTickets -----------------------------
EXTENDS Tickets, TLC

\* Agents and other users are interchangeable among themselves only.
Symmetry ==
  Permutations(SupportAgent) \cup Permutations(UserId \ SupportAgent) \cup
  Permutations(TicketId) \cup Permutations(Content) \cup Permutations(Request)
=============================================================================
