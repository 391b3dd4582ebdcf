---------------------------- MODULE MCContracts ----------------------------
EXTENDS Contracts, TLC

ContractsSymmetry == Permutations(Identity) \cup Permutations(Key) \cup Permutations(Hash)
=============================================================================
