------------------------- MODULE MCKeyRegistration -------------------------
EXTENDS KeyRegistration, TLC

RegistrationSymmetry == Permutations(Key)
=============================================================================
