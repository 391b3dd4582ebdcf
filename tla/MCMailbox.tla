----------------------------- MODULE MCMailbox -----------------------------
EXTENDS Mailbox, TLC

UserSymmetry == Permutations(User)
=============================================================================
