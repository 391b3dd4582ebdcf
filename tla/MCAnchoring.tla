---------------------------- MODULE MCAnchoring ----------------------------
EXTENDS Anchoring, TLC

AnchoringSymmetry == Permutations(Hash) \cup Permutations(Identity)
=============================================================================
