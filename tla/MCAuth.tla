------------------------------- MODULE MCAuth -------------------------------
EXTENDS Auth, TLC

AuthSymmetry ==
  Permutations(Account) \cup Permutations(Name) \cup Permutations(Email) \cup Permutations(Password)
=============================================================================
