------------------------------ MODULE MCEdufy ------------------------------
EXTENDS Edufy, TLC

\* Ids, slots and texts are interchangeable on either side.
Symmetry ==
  Permutations(UserId) \cup Permutations(Email) \cup Permutations(Value) \cup
  Permutations(AccountRequest) \cup Permutations(ShopRequest) \cup
  Permutations(CourseId) \cup Permutations(PurchaseId)
=============================================================================
