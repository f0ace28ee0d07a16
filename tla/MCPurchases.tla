---------------------------- MODULE MCPurchases ----------------------------
EXTENDS Purchases, TLC

\* Ids are interchangeable; no safety property names one of them.
Symmetry ==
  Permutations(UserId) \cup Permutations(CourseId) \cup
  Permutations(PurchaseId) \cup Permutations(Request) \cup
  Permutations(Price) \cup Permutations(Timestamp)
=============================================================================
