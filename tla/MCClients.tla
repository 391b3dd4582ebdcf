------------------------------ MODULE MCClients ------------------------------
EXTENDS Clients, TLC

CONSTANTS c1, c2, p1, p2, t1, t2, m1, m2, browser, machine

MCHome == (c1 :> browser) @@ (c2 :> browser) @@ (p1 :> machine) @@ (p2 :> machine)

ClientSymmetry ==
  Permutations(Key) \cup Permutations({c1, c2}) \cup Permutations({p1, p2})
    \cup Permutations({t1, t2}) \cup Permutations({m1, m2})
=============================================================================
