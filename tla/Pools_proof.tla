---------------------------- MODULE Pools_proof ----------------------------
(***************************************************************************)
(* A sequence without repetitions stays one when a new element is put into *)
(* it or one is taken out: the pool of broadcast transactions of modules   *)
(* Anchoring and KeyRegistration.                                          *)
(***************************************************************************)
EXTENDS Integers, Sequences, SequencesExt, SequenceTheorems, TLAPS

\* Where the elements of a sequence are after an insertion ...
LEMMA InsertedElements ==
  ASSUME NEW S, NEW s \in Seq(S), NEW e \in S, NEW i \in 1 .. Len(s) + 1
  PROVE  /\ InsertAt(s, i, e) \in Seq(S)
         /\ Len(InsertAt(s, i, e)) = Len(s) + 1
         /\ \A k \in 1 .. Len(s) + 1 :
              InsertAt(s, i, e)[k] = IF k < i THEN s[k] ELSE IF k = i THEN e ELSE s[k - 1]
<1> DEFINE a == SubSeq(s, 1, i - 1)
           b == SubSeq(s, i, Len(s))
<1>1. /\ a \in Seq(S) /\ Len(a) = i - 1 /\ \A k \in 1 .. i - 1 : a[k] = s[k]
      /\ b \in Seq(S) /\ Len(b) = Len(s) - i + 1
      /\ \A k \in 1 .. Len(s) - i + 1 : b[k] = s[i + k - 1]
  OBVIOUS
<1> HIDE DEF a, b
<1>2. a \o <<e>> \in Seq(S) /\ Len(a \o <<e>>) = i
      /\ \A k \in 1 .. i : (a \o <<e>>)[k] = IF k < i THEN s[k] ELSE e
  BY <1>1
<1>3. InsertAt(s, i, e) = (a \o <<e>>) \o b
  BY DEF InsertAt, a, b
<1> DEFINE c == a \o <<e>>
<1>4. c \in Seq(S) /\ Len(c) = i /\ \A k \in 1 .. i : c[k] = IF k < i THEN s[k] ELSE e
  BY <1>2
<1>5. InsertAt(s, i, e) = c \o b
  BY <1>3
<1> HIDE DEF c
<1>0. b \in Seq(S) /\ c \in Seq(S)
  BY <1>1, <1>4
<1>6. /\ c \o b \in Seq(S) /\ Len(c \o b) = Len(c) + Len(b)
      /\ \A k \in 1 .. Len(c) + Len(b) :
           (c \o b)[k] = IF k <= Len(c) THEN c[k] ELSE b[k - Len(c)]
  BY <1>0, ConcatProperties
<1>8. Len(c) = i /\ Len(b) = Len(s) - i + 1 /\ Len(c) + Len(b) = Len(s) + 1
  BY <1>1, <1>4
<1>7. ASSUME NEW k \in 1 .. Len(s) + 1
      PROVE  (c \o b)[k] = IF k < i THEN s[k] ELSE IF k = i THEN e ELSE s[k - 1]
  <2>1. CASE k <= i
    BY <1>4, <1>6, <1>8, <2>1
  <2>2. CASE ~(k <= i)
    <3>1. k - i \in 1 .. Len(s) - i + 1
      BY <2>2
    <3>2. b[k - i] = s[i + (k - i) - 1]
      BY <1>1, <3>1
    <3>3. (c \o b)[k] = b[k - i]
      BY <1>6, <1>8, <2>2
    <3>4. k # i /\ ~(k < i) /\ i + (k - i) - 1 = k - 1
      BY <2>2
    <3> QED BY <3>2, <3>3, <3>4
  <2> QED BY <2>1, <2>2
<1> QED BY <1>5, <1>6, <1>7, <1>8

\* (past the last one it is an appendage)
LEMMA InsertedLast ==
  ASSUME NEW S, NEW s \in Seq(S), NEW e \in S
  PROVE  InsertAt(s, Len(s) + 1, e) = Append(s, e)
<1>1. Len(s) \in Nat /\ Len(s) + 1 \in 1 .. Len(s) + 1
  OBVIOUS
<1> DEFINE r == InsertAt(s, Len(s) + 1, e)
           q == Append(s, e)
<1>2. /\ r \in Seq(S) /\ Len(r) = Len(s) + 1
      /\ \A k \in 1 .. Len(s) + 1 :
           r[k] = IF k < Len(s) + 1 THEN s[k] ELSE IF k = Len(s) + 1 THEN e ELSE s[k - 1]
  BY <1>1, InsertedElements
<1>3. /\ q \in Seq(S) /\ Len(q) = Len(s) + 1 /\ q[Len(s) + 1] = e
      /\ \A k \in 1 .. Len(s) : q[k] = s[k]
  OBVIOUS
<1> HIDE DEF r, q
<1>4. ASSUME NEW k \in 1 .. Len(s) + 1
      PROVE  r[k] = q[k]
  <2>1. CASE k = Len(s) + 1
    BY <1>1, <1>2, <1>3, <2>1
  <2>2. CASE k < Len(s) + 1
    BY <1>1, <1>2, <1>3, <2>2
  <2> QED BY <1>1, <2>1, <2>2
<1>5. r = q
  BY <1>2, <1>3, <1>4, SeqEqual
<1> QED BY <1>5 DEF r, q

\* ... and after a removal.
LEMMA RemovedElements ==
  ASSUME NEW S, NEW s \in Seq(S), NEW i \in 1 .. Len(s)
  PROVE  /\ RemoveAt(s, i) \in Seq(S)
         /\ Len(RemoveAt(s, i)) = Len(s) - 1
         /\ \A k \in 1 .. Len(s) - 1 : RemoveAt(s, i)[k] = IF k < i THEN s[k] ELSE s[k + 1]
<1> DEFINE a == SubSeq(s, 1, i - 1)
           b == SubSeq(s, i + 1, Len(s))
<1>1. /\ a \in Seq(S) /\ Len(a) = i - 1 /\ \A k \in 1 .. i - 1 : a[k] = s[k]
      /\ b \in Seq(S) /\ Len(b) = Len(s) - i
      /\ \A k \in 1 .. Len(s) - i : b[k] = s[i + k]
  OBVIOUS
<1>2. RemoveAt(s, i) = a \o b
  BY DEF RemoveAt
<1> HIDE DEF a, b
<1>0. a \in Seq(S) /\ b \in Seq(S)
  BY <1>1
<1>3. /\ a \o b \in Seq(S) /\ Len(a \o b) = Len(a) + Len(b)
      /\ \A k \in 1 .. Len(a) + Len(b) :
           (a \o b)[k] = IF k <= Len(a) THEN a[k] ELSE b[k - Len(a)]
  BY <1>0, ConcatProperties
<1>5. Len(a) = i - 1 /\ Len(b) = Len(s) - i /\ Len(a) + Len(b) = Len(s) - 1
  BY <1>1
<1>4. ASSUME NEW k \in 1 .. Len(s) - 1
      PROVE  (a \o b)[k] = IF k < i THEN s[k] ELSE s[k + 1]
  <2>1. CASE k < i
    BY <1>1, <1>3, <1>5, <2>1
  <2>2. CASE ~(k < i)
    <3>1. k - i + 1 \in 1 .. Len(s) - i
      BY <2>2
    <3>2. b[k - i + 1] = s[i + (k - i + 1)]
      BY <1>1, <3>1
    <3>3. (a \o b)[k] = b[k - (i - 1)]
      BY <1>3, <1>5, <2>2
    <3>4. k - (i - 1) = k - i + 1 /\ i + (k - i + 1) = k + 1
      BY <2>2
    <3> QED BY <2>2, <3>2, <3>3, <3>4
  <2> QED BY <2>1, <2>2
<1> QED BY <1>2, <1>3, <1>4, <1>5

-----------------------------------------------------------------------------
\* What distinctness and range say of positions.
LEMMA Positions ==
  ASSUME NEW S, NEW q \in Seq(S)
  PROVE  /\ IsInjective(q) <=> \A n, m \in 1 .. Len(q) : q[n] = q[m] => n = m
         /\ \A e : e \in Range(q) <=> \E n \in 1 .. Len(q) : q[n] = e
BY DEF IsInjective, Range

LEMMA InsertOne ==
  ASSUME NEW S, NEW q \in Seq(S), IsInjective(q), NEW e \in S, e \notin Range(q),
         NEW i \in 1 .. Len(q) + 1
  PROVE  /\ InsertAt(q, i, e) \in Seq(S) /\ IsInjective(InsertAt(q, i, e))
         /\ Range(InsertAt(q, i, e)) = Range(q) \cup {e}
<1> DEFINE r == InsertAt(q, i, e)
<1>1. /\ r \in Seq(S) /\ Len(r) = Len(q) + 1
      /\ \A k \in 1 .. Len(q) + 1 :
           r[k] = IF k < i THEN q[k] ELSE IF k = i THEN e ELSE q[k - 1]
  <2>1. /\ InsertAt(q, i, e) \in Seq(S)
        /\ Len(InsertAt(q, i, e)) = Len(q) + 1
        /\ \A k \in 1 .. Len(q) + 1 :
             InsertAt(q, i, e)[k] = IF k < i THEN q[k] ELSE IF k = i THEN e ELSE q[k - 1]
    BY InsertedElements
  <2> QED BY <2>1 DEF r
<1> HIDE DEF r
<1> DEFINE At(n) == IF n < i THEN n ELSE n - 1
<1>2. ASSUME NEW n \in 1 .. Len(r)
      PROVE  /\ n \in 1 .. Len(q) + 1
             /\ n = i => r[n] = e
             /\ n # i => At(n) \in 1 .. Len(q) /\ r[n] = q[At(n)]
  BY <1>1
<1>3. /\ \A n, m \in 1 .. Len(q) : q[n] = q[m] => n = m
      /\ \A n \in 1 .. Len(q) : q[n] # e
  BY Positions
<1>4. ASSUME NEW n \in 1 .. Len(r), NEW m \in 1 .. Len(r), r[n] = r[m]
      PROVE  n = m
  <2>1. CASE n = i \/ m = i
    BY <1>2, <1>3, <1>4, <2>1
  <2>2. CASE n # i /\ m # i
    <3>1. At(n) = At(m)
      BY <1>2, <1>3, <1>4, <2>2
    <3> QED BY <1>2, <2>2, <3>1
  <2> QED BY <2>1, <2>2
<1>5. ASSUME NEW b \in Range(r)
      PROVE  b \in Range(q) \cup {e}
  <2>1. PICK n \in 1 .. Len(r) : r[n] = b
    BY <1>1, <1>5, Positions
  <2> HIDE DEF At
  <2>2. b = e \/ \E k \in 1 .. Len(q) : q[k] = b
    BY <1>2, <2>1
  <2> QED BY <2>2, Positions
<1>6. IsInjective(r)
  BY <1>1, <1>4, Positions
<1>7. ASSUME NEW b \in Range(q) \cup {e}
      PROVE  b \in Range(r)
  <2>1. CASE b = e
    <3>1. i \in 1 .. Len(r) /\ r[i] = b
      BY <1>1, <2>1
    <3> QED BY <1>1, <3>1, Positions
  <2>2. CASE b \in Range(q)
    <3>1. PICK n \in 1 .. Len(q) : q[n] = b
      BY <2>2, Positions
    <3>2. CASE n < i
      <4>1. n \in 1 .. Len(r) /\ r[n] = b
        BY <1>1, <3>1, <3>2
      <4> QED BY <1>1, <4>1, Positions
    <3>3. CASE ~(n < i)
      <4>1. n + 1 \in 1 .. Len(r) /\ n + 1 # i /\ ~(n + 1 < i) /\ (n + 1) - 1 = n
        BY <1>1, <3>3
      <4>2. r[n + 1] = q[(n + 1) - 1]
        BY <1>1, <4>1
      <4> QED BY <1>1, <3>1, <4>1, <4>2, Positions
    <3> QED BY <3>2, <3>3
  <2> QED BY <2>1, <2>2
<1> QED BY <1>1, <1>5, <1>6, <1>7 DEF r

LEMMA RemoveOne ==
  ASSUME NEW S, NEW q \in Seq(S), IsInjective(q), NEW i \in 1 .. Len(q)
  PROVE  /\ RemoveAt(q, i) \in Seq(S) /\ IsInjective(RemoveAt(q, i))
         /\ Range(RemoveAt(q, i)) \subseteq Range(q)
<1> DEFINE r == RemoveAt(q, i)
<1>1. /\ r \in Seq(S) /\ Len(r) = Len(q) - 1
      /\ \A k \in 1 .. Len(q) - 1 : r[k] = IF k < i THEN q[k] ELSE q[k + 1]
  BY RemovedElements
<1> HIDE DEF r
<1> DEFINE At(n) == IF n < i THEN n ELSE n + 1
<1>2. ASSUME NEW n \in 1 .. Len(r)
      PROVE  At(n) \in 1 .. Len(q) /\ r[n] = q[At(n)]
  <2>1. Len(q) \in Nat /\ n \in 1 .. Len(q) - 1
    BY <1>1
  <2> QED BY <1>1, <2>1
<1>3. ASSUME NEW n \in 1 .. Len(r), NEW m \in 1 .. Len(r), r[n] = r[m]
      PROVE  n = m
  <2>1. At(n) = At(m)
    BY <1>2, <1>3, Positions
  <2> QED BY <1>1, <2>1
<1>4. IsInjective(r)
  BY <1>1, <1>3, Positions
<1>5. ASSUME NEW b \in Range(r)
      PROVE  b \in Range(q)
  <2>1. PICK n \in 1 .. Len(r) : r[n] = b
    BY <1>1, <1>5, Positions
  <2> HIDE DEF At
  <2>2. \E k \in 1 .. Len(q) : q[k] = b
    BY <1>2, <2>1
  <2> QED BY <2>2, Positions
<1> QED BY <1>1, <1>4, <1>5 DEF r

LEMMA TakeHead ==
  ASSUME NEW S, NEW q \in Seq(S), IsInjective(q), q # <<>>
  PROVE  /\ Head(q) \in S /\ Head(q) \in Range(q)
         /\ Tail(q) \in Seq(S) /\ IsInjective(Tail(q))
         /\ Range(Tail(q)) = Range(q) \ {Head(q)}
<1> DEFINE r == Tail(q)
<1>1. /\ r \in Seq(S) /\ Len(r) = Len(q) - 1 /\ 1 \in 1 .. Len(q)
      /\ Head(q) = q[1] /\ Head(q) \in S
      /\ \A k \in 1 .. Len(q) - 1 : r[k] = q[k + 1]
  BY DEF r
<1> HIDE DEF r
<1>2. ASSUME NEW n \in 1 .. Len(r)
      PROVE  n + 1 \in 1 .. Len(q) /\ n + 1 # 1 /\ r[n] = q[n + 1]
  BY <1>1
<1>3. \A n, m \in 1 .. Len(q) : q[n] = q[m] => n = m
  BY Positions
<1>4. ASSUME NEW n \in 1 .. Len(r), NEW m \in 1 .. Len(r), r[n] = r[m]
      PROVE  n = m
  <2>1. n + 1 = m + 1
    BY <1>2, <1>3, <1>4
  <2> QED BY <1>1, <2>1
<1>5. IsInjective(r)
  BY <1>1, <1>4, Positions
<1>6. ASSUME NEW b \in Range(r)
      PROVE  b \in Range(q) \ {Head(q)}
  <2>1. PICK n \in 1 .. Len(r) : r[n] = b
    BY <1>1, <1>6, Positions
  <2>2. n + 1 \in 1 .. Len(q) /\ q[n + 1] = b /\ b # q[1]
    BY <1>1, <1>2, <1>3, <2>1
  <2> QED BY <1>1, <2>2, Positions
<1>7. Head(q) \in Range(q)
  BY <1>1, Positions
<1>8. ASSUME NEW b \in Range(q) \ {Head(q)}
      PROVE  b \in Range(r)
  <2>1. PICK n \in 1 .. Len(q) : q[n] = b
    BY <1>8, Positions
  <2>2. n - 1 \in 1 .. Len(r) /\ r[n - 1] = q[(n - 1) + 1] /\ (n - 1) + 1 = n
    BY <1>1, <1>8, <2>1
  <2> QED BY <1>1, <2>1, <2>2, Positions
<1> QED BY <1>1, <1>5, <1>6, <1>7, <1>8 DEF r

LEMMA AppendOne ==
  ASSUME NEW S, NEW q \in Seq(S), IsInjective(q), NEW e \in S, e \notin Range(q)
  PROVE  /\ Append(q, e) \in Seq(S) /\ IsInjective(Append(q, e))
         /\ Range(Append(q, e)) = Range(q) \cup {e}
<1>1. /\ Append(q, e) \in Seq(S) /\ Len(Append(q, e)) = Len(q) + 1 /\ Len(q) \in Nat
      /\ \A k \in 1 .. Len(q) : Append(q, e)[k] = q[k]
      /\ Append(q, e)[Len(q) + 1] = e
  OBVIOUS
<1> DEFINE r == Append(q, e)
<1> HIDE DEF r
<1>2. \A n \in 1 .. Len(r) : n \in 1 .. Len(q) \/ n = Len(q) + 1
  BY <1>1 DEF r
<1>3. /\ \A n, m \in 1 .. Len(q) : q[n] = q[m] => n = m
      /\ \A n \in 1 .. Len(q) : q[n] # e
  BY Positions
<1>4. /\ \A k \in 1 .. Len(q) : k \in 1 .. Len(r) /\ r[k] = q[k]
      /\ r[Len(q) + 1] = e /\ Len(q) + 1 \in 1 .. Len(r) /\ r \in Seq(S)
  BY <1>1 DEF r
<1>5. \A n, m \in 1 .. Len(r) : r[n] = r[m] => n = m
  BY <1>2, <1>3, <1>4
<1>6. IsInjective(r)
  BY <1>4, <1>5, Positions
<1>7. ASSUME NEW b
      PROVE  b \in Range(r) <=> b \in Range(q) \cup {e}
  <2>1. b \in Range(r) <=> \E n \in 1 .. Len(r) : r[n] = b
    BY <1>4, Positions
  <2>2. b \in Range(q) <=> \E n \in 1 .. Len(q) : q[n] = b
    BY Positions
  <2> QED BY <1>2, <1>4, <2>1, <2>2
<1> QED BY <1>4, <1>6, <1>7 DEF r
=============================================================================
