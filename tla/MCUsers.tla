------------------------------ MODULE MCUsers ------------------------------
EXTENDS Users, TLC

Symmetry ==
  Permutations(UserId) \cup Permutations(Email) \cup Permutations(Password) \cup
  Permutations(Value) \cup Permutations(Request)
=============================================================================
