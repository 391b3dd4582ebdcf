----------------------------- MODULE MCSendLock -----------------------------
EXTENDS SendLock, TLC

SenderSymmetry == Permutations(Sender) \cup Permutations(Backend)
=============================================================================
