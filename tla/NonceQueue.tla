----------------------------- MODULE NonceQueue -----------------------------
(***************************************************************************)
(* What the contract writers build on: until a transaction is dropped, the *)
(* answer to a broadcast is lost or the process restarts, the wallet's     *)
(* transactions are mined one by one in the order of their broadcasts, and *)
(* each at most once.  Afterwards all that is promised is that what is     *)
(* mined stays mined.                                                      *)
(***************************************************************************)
EXTENDS Sequences, Functions

CONSTANT Sender

VARIABLES
  pool,     \* the broadcast transactions not mined yet, in the order of both
  mined,    \* the transactions mined
  upset     \* whether one of the three has happened

vars == <<pool, mined, upset>>

Init == pool = <<>> /\ mined = {} /\ upset = FALSE

Send(t) ==
  /\ t \notin Range(pool) \cup mined
  /\ pool' = Append(pool, t)
  /\ UNCHANGED mined

Mine ==
  /\ pool # <<>>
  /\ pool' = Tail(pool)
  /\ mined' = mined \cup {Head(pool)}

Upset ==
  /\ upset' = TRUE
  /\ mined \subseteq mined'

Next ==
  \/ ~upset /\ UNCHANGED upset /\ (Mine \/ \E t \in Sender : Send(t))
  \/ Upset

Spec == Init /\ [][Next]_vars
=============================================================================
