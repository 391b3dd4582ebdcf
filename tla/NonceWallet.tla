---------------------------- MODULE NonceWallet ----------------------------
(***************************************************************************)
(* What the nonce allocator promises its callers, whatever the RPC         *)
(* endpoint answers: each accepted transaction of the wallet holds a nonce *)
(* of its own until it is dropped from the mempool, and keeps that nonce.  *)
(***************************************************************************)
EXTENDS Integers

CONSTANT Sender

VARIABLE held   \* held[t]: the nonce transaction t occupies, or NoNonce

NoNonce == -1

Init == held = [t \in Sender |-> NoNonce]

\* t's broadcast is accepted, with a nonce nobody occupies.
Issue(t) ==
  /\ held[t] = NoNonce
  /\ held'[t] \in Nat \ {held[u] : u \in Sender}
  /\ held' = [held EXCEPT ![t] = held'[t]]

\* The network drops t.
Lose(t) ==
  /\ held[t] # NoNonce
  /\ held' = [held EXCEPT ![t] = NoNonce]

Next == \E t \in Sender : Issue(t) \/ Lose(t)

Spec == Init /\ [][Next]_held
=============================================================================
