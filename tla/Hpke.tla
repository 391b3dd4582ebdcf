-------------------------------- MODULE Hpke --------------------------------
(***************************************************************************)
(* HPKE Mode_Auth as crypto/hpke.py builds it, and as Crypto.cpp and       *)
(* crypto.js repeat it, over symbols: a key pair is a value that stands    *)
(* for both halves, Diffie-Hellman commutes, HKDF is free of collisions,   *)
(* and AES-GCM opens under the key and the associated data it sealed with  *)
(* and under no other.                                                     *)
(***************************************************************************)
CONSTANTS
  NoName,     \* filename = None
  EmptyName,  \* filename = ""
  Failed      \* ValueError: the tag does not verify

Info == "secure-messenger"

\* X25519(a's private half, b's public half), from either side.
DH(a, b) == {a, b}

\* Slip: one Diffie-Hellman output only, as in Mode_Base.
DeriveKeyAndNonce_Base(dh1, dh2, enc, info) == [ikm |-> <<dh1>>, salt |-> enc, info |-> info]

\* The AES key and the nonce are cut from one output of HKDF.
DeriveKeyAndNonce(dh1, dh2, enc, info) == [ikm |-> <<dh1, dh2>>, salt |-> enc, info |-> info]

BuildFileAad(sender, recipient, filename) ==
  [sender |-> sender, recipient |-> recipient,
   filename |-> IF filename = NoName THEN EmptyName ELSE filename]

\* ek is the ephemeral key pair of this call.
Encapsulate(recipient, sender, ek, plaintext, aad) ==
  [key |-> DeriveKeyAndNonce(DH(ek, recipient), DH(sender, recipient), ek, Info),
   aad |-> aad, plaintext |-> plaintext, enc |-> ek]

Decapsulate(recipient, sender, sealed, aad) ==
  IF /\ sealed.key = DeriveKeyAndNonce(DH(recipient, sealed.enc), DH(recipient, sender),
                                       sealed.enc, Info)
     /\ sealed.aad = aad
  THEN sealed.plaintext
  ELSE Failed
=============================================================================
