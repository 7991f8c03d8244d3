---------------------------- MODULE ProofLemmas ----------------------------
(***************************************************************************)
(* What the proofs need to know of division and of sequences, whichever    *)
(* part of the system they are about.  Integer division by a constant that *)
(* has no value is out of the provers' reach: DivModUnique makes it a      *)
(* matter of multiplication.                                               *)
(***************************************************************************)
EXTENDS Integers, Sequences, SequenceTheorems, TLAPS

\* The quotient and the remainder.
LEMMA DivMod ==
    ASSUME NEW a \in Nat, NEW n \in Nat \ {0}
    PROVE  /\ a \div n \in Nat /\ a % n \in 0..n - 1
           /\ a = n * (a \div n) + (a % n)
OBVIOUS

\* Multiplication is strictly monotonic, and leaves room for a remainder.
LEMMA MulMono ==
    ASSUME NEW n \in Nat, NEW p \in Nat, NEW q \in Nat, p < q
    PROVE  n * p + n <= n * q
<1>1. PICK d \in Nat : q = p + 1 + d
  <2>1. q - p - 1 \in Nat /\ q = p + 1 + (q - p - 1)
    OBVIOUS
  <2> QED
    BY <2>1
<1>2. n * q = n * p + n + n * d
  BY <1>1
<1>3. n * d >= 0
  OBVIOUS
<1>4. n * q \in Int /\ n * p \in Int /\ n * d \in Int
  OBVIOUS
<1> QED
  BY <1>2, <1>3, <1>4

\* The same without a difference.
LEMMA MulMonoWeak ==
    ASSUME NEW n \in Nat, NEW p \in Nat, NEW q \in Nat, p <= q
    PROVE  n * p <= n * q
<1>1. n * p \in Nat /\ n * q \in Nat
  OBVIOUS
<1>2. CASE p < q
  BY <1>1, <1>2, MulMono
<1>3. CASE p = q
  BY <1>1, <1>3
<1> QED
  BY <1>2, <1>3

\* A multiple and a remainder are what division returns.
LEMMA DivModUnique ==
    ASSUME NEW n \in Nat \ {0}, NEW q \in Nat, NEW r \in 0..n - 1
    PROVE  (n * q + r) \div n = q /\ (n * q + r) % n = r
<1> DEFINE a == n * q + r
           p == a \div n
           m == a % n
<1>1. a \in Nat
  OBVIOUS
<1>2. p \in Nat /\ m \in 0..n - 1 /\ a = n * p + m
  BY <1>1, DivMod
<1>3. n * q \in Nat /\ n * p \in Nat
  BY <1>2
<1> HIDE DEF p, m
<1>4. CASE p < q
  <2>1. n * p + n <= n * q
    BY <1>2, <1>4, MulMono
  <2> QED
    BY <2>1, <1>2, <1>3
<1>5. CASE q < p
  <2>1. n * q + n <= n * p
    BY <1>2, <1>5, MulMono
  <2> QED
    BY <2>1, <1>2, <1>3
<1>6. CASE p = q
  BY <1>2, <1>3, <1>6 DEF p, m
<1> QED
  BY <1>2, <1>4, <1>5, <1>6

\* The remainder of a counter that wraps at most once.
LEMMA WrapsOnce ==
    ASSUME NEW n \in Nat \ {0}, NEW x \in 0 .. 2 * n - 1
    PROVE  x % n = IF x < n THEN x ELSE x - n
<1>1. CASE x < n
  <2>1. n * 0 = 0 /\ x \in 0 .. n - 1 /\ 0 \in Nat
    BY <1>1
  <2>2. (n * 0 + x) % n = x
    BY <2>1, DivModUnique
  <2> QED
    BY <2>1, <2>2, <1>1
<1>2. CASE n <= x
  <2> DEFINE r == x - n
  <2>1. n * 1 = n /\ r \in 0 .. n - 1 /\ 1 \in Nat /\ n * 1 + r = x
    BY <1>2
  <2> HIDE DEF r
  <2>2. (n * 1 + r) % n = r
    BY <2>1, DivModUnique
  <2>3. x % n = r
    BY <2>1, <2>2
  <2> QED
    BY <2>3, <1>2 DEF r
<1> QED
  BY <1>1, <1>2

-----------------------------------------------------------------------------
\* A function on 1 .. n is a sequence of length n.
LEMMA FunctionIsSeq ==
    ASSUME NEW S, NEW n \in Nat, NEW s \in [1 .. n -> S]
    PROVE  s \in Seq(S) /\ Len(s) = n
<1>1. s \in Seq(S)
  BY SeqDef
<1>2. Len(s) \in Nat /\ DOMAIN s = 1 .. Len(s)
  BY <1>1, LenProperties
<1>3. 1 .. Len(s) = 1 .. n
  BY <1>2
<1> QED
  BY <1>1, <1>2, <1>3

\* The other way round.
LEMMA SeqIsFunction ==
    ASSUME NEW S, NEW n \in Nat, NEW s \in Seq(S), Len(s) = n
    PROVE  s \in [1 .. n -> S]
BY LenProperties
=============================================================================
