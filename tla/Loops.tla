-------------------------------- MODULE Loops --------------------------------
(***************************************************************************)
(* Induction over the natural numbers, for the loops of the code, which    *)
(* are recursive functions here: what such a function is, and what the     *)
(* concatenation of sequences is, place by place.                          *)
(***************************************************************************)
EXTENDS Integers, SequencesExt, SequenceTheorems, WellFoundedInduction, TLAPS

\* Any set of natural numbers has a least one.
LEMMA Least ==
  ASSUME NEW T, T \subseteq Nat, T # {}
  PROVE  \E x \in T : \A y \in T : x <= y
  <1> DEFINE R == OpToRel(<, Nat)
  <1>1. IsWellFoundedOn(R, Nat)
    BY NatLessThanWellFounded
  <1> HIDE DEF R
  <1>2. \A x, y \in Nat : y < x => <<y, x>> \in R
    BY DEF R, OpToRel
  <1>3. PICK x \in T : \A y \in T : <<y, x>> \notin R
    BY <1>1, WFMin
  <1>4. \A y \in T : ~(y < x)
    BY <1>2, <1>3
  <1>5. \A y \in T : y \in Nat /\ x \in Nat
    OBVIOUS
  <1> QED BY <1>4, <1>5

\* Induction: a set that has 0, and with a number the next, has them all.
LEMMA Induction ==
  ASSUME NEW T, 0 \in T, \A n \in Nat : n \in T => n + 1 \in T
  PROVE  Nat \subseteq T
  <1> DEFINE U == {n \in Nat : n \notin T}
  <1> SUFFICES ASSUME U # {} PROVE FALSE
    OBVIOUS
  <1>1. PICK x \in U : \A y \in U : x <= y
    BY Least
  <1>2. x \in Nat /\ x # 0
    OBVIOUS
  <1>3. x - 1 \in Nat /\ x - 1 \notin U
    BY <1>1, <1>2
  <1> QED BY <1>2, <1>3

\* The same up to a bound.
LEMMA InductionUpTo ==
  ASSUME NEW m \in Nat, NEW T, 0 \in T,
         \A n \in Nat : n \in T /\ n < m => n + 1 \in T
  PROVE  0..m \subseteq T
  <1> DEFINE U == {n \in Nat : n <= m => n \in T}
  <1>1. 0 \in U
    OBVIOUS
  <1>2. \A n \in Nat : n \in U => n + 1 \in U
    OBVIOUS
  <1> HIDE DEF U
  <1>3. Nat \subseteq U
    BY <1>1, <1>2, Induction
  <1> QED BY <1>3 DEF U

\* The prefixes of a concatenation of sequences.
Heads(f, seqs) ==
  /\ DOMAIN f = 0..Len(seqs) /\ f[0] = <<>>
  /\ \A i \in 1..Len(seqs) : f[i] = f[i - 1] \o seqs[i]

\* What FlattenSeq is.
LEMMA FlattenHeads ==
  ASSUME NEW S, NEW seqs \in Seq(Seq(S))
  PROVE  \E f : Heads(f, seqs) /\ FlattenSeq(seqs) = f[Len(seqs)]
                /\ \A i \in 0..Len(seqs) : f[i] \in Seq(S)
  <1> DEFINE N == Len(seqs)
             Is(g, n) == g = [i \in 1..n |-> IF i = 1 THEN seqs[i] ELSE g[i - 1] \o seqs[i]]
             T == {n \in Nat : \E g : Is(g, n)}
  <1>1. N \in Nat /\ \A i \in 1..N : seqs[i] \in Seq(S)
    OBVIOUS
  <1> HIDE DEF Is
  <1>2. \E g : Is(g, 0)
    <2> DEFINE g == [i \in 1..0 |-> 0]
    <2>1. Is(g, 0)
      BY DEF Is
    <2> QED BY <2>1
  <1>3. ASSUME NEW n \in Nat, n < N, NEW g, Is(g, n)
        PROVE  \E h : Is(h, n + 1)
    <2> DEFINE h == [i \in 1..n + 1 |->
                       IF i = 1 THEN seqs[i] ELSE g[i - 1] \o seqs[i]]
    <2>1. \A i \in 1..n : h[i] = g[i]
      <3>1. \A i \in 1..n : i \in 1..n + 1
        OBVIOUS
      <3>2. \A i \in 1..n : g[i] = IF i = 1 THEN seqs[i] ELSE g[i - 1] \o seqs[i]
        BY <1>3 DEF Is
      <3> QED BY <3>1, <3>2
    <2>2. \A i \in 1..n + 1 : i # 1 => i - 1 \in 1..n
      OBVIOUS
    <2>3. Is(h, n + 1)
      BY <2>1, <2>2 DEF Is
    <2> QED BY <2>3
  <1>4. 0..N \subseteq T
    <2>1. 0 \in T
      BY <1>2
    <2>2. \A n \in Nat : n \in T /\ n < N => n + 1 \in T
      BY <1>1, <1>3
    <2> HIDE DEF T
    <2> QED BY <1>1, <2>1, <2>2, InductionUpTo
  <1>5. \E g : Is(g, N)
    BY <1>1, <1>4
  <1> DEFINE flatten == CHOOSE g : Is(g, N)
  <1>6. Is(flatten, N)
    BY <1>5
  <1>7. FlattenSeq(seqs) = IF N = 0 THEN seqs ELSE flatten[N]
    BY DEF FlattenSeq, Is
  <1> HIDE DEF flatten
  <1> DEFINE f == [i \in 0..N |-> IF i = 0 THEN <<>> ELSE flatten[i]]
  <1>8. DOMAIN f = 0..N /\ f[0] = <<>>
    BY <1>1
  <1>9. \A i \in 1..N : f[i] = flatten[i]
    BY <1>1
  <1>10. \A i \in 1..N : flatten[i] = IF i = 1 THEN seqs[i] ELSE flatten[i - 1] \o seqs[i]
    BY <1>6 DEF Is
  <1> HIDE DEF f
  <1>11. \A i \in 1..N : f[i] = f[i - 1] \o seqs[i]
    <2> TAKE i \in 1..N
    <2>1. CASE i = 1
      <3>1. f[i] = seqs[i] /\ f[i - 1] = <<>> /\ seqs[i] \in Seq(S)
        BY <1>1, <1>8, <1>9, <1>10, <2>1
      <3>2. <<>> \o seqs[i] = seqs[i]
        BY <3>1
      <3> QED BY <3>1, <3>2
    <2>2. CASE i # 1
      <3>1. i - 1 \in 1..N
        BY <1>1, <2>2
      <3> QED BY <1>9, <1>10, <2>2, <3>1
    <2> QED BY <2>1, <2>2
  <1> DEFINE V == {n \in Nat : f[n] \in Seq(S)}
  <1>12. 0..N \subseteq V
    <2>1. 0 \in V
      BY <1>8
    <2>2. \A n \in Nat : n \in V /\ n < N => n + 1 \in V
      <3> SUFFICES ASSUME NEW n \in Nat, n \in V, n < N PROVE n + 1 \in V
        OBVIOUS
      <3>1. n + 1 \in 1..N /\ (n + 1) - 1 = n
        BY <1>1
      <3>2. f[n + 1] = f[n] \o seqs[n + 1]
        BY <1>11, <3>1
      <3>3. f[n] \in Seq(S) /\ seqs[n + 1] \in Seq(S)
        BY <1>1, <3>1
      <3>4. f[n] \o seqs[n + 1] \in Seq(S)
        BY <3>3
      <3>5. f[n + 1] \in Seq(S)
        BY <3>2, <3>4, Zenon
      <3> QED BY <3>5
    <2>3. N \in Nat
      BY <1>1
    <2> HIDE DEF V
    <2> QED BY <2>1, <2>2, <2>3, InductionUpTo
  <1>13. FlattenSeq(seqs) = f[N]
    <2>1. CASE N = 0
      BY <1>7, <1>8, <2>1
    <2>2. CASE N # 0
      BY <1>1, <1>7, <1>9, <2>2
    <2> QED BY <2>1, <2>2
  <1> QED BY <1>8, <1>11, <1>12, <1>13 DEF Heads

\* The items of sequences put together.
LEMMA ConcatItems ==
  ASSUME NEW S, NEW a \in Seq(S), NEW b \in Seq(S)
  PROVE  ToSet(a \o b) = ToSet(a) \cup ToSet(b)
  <1> DEFINE c == a \o b
             m == Len(a)
             n == Len(b)
  <1>1. m \in Nat /\ n \in Nat /\ DOMAIN a = 1..m /\ DOMAIN b = 1..n
    BY LenProperties, Zenon
  <1>2. c \in Seq(S) /\ Len(c) = m + n /\ DOMAIN c = 1..m + n
        /\ \A i \in 1..m + n : c[i] = IF i <= m THEN a[i] ELSE b[i - m]
    BY ConcatProperties, LenProperties
  <1> HIDE DEF c, m, n
  <1>3. \A i \in 1..m : i \in 1..m + n /\ c[i] = a[i]
    BY <1>1, <1>2
  <1>4. \A i \in 1..n : m + i \in 1..m + n /\ c[m + i] = b[i]
    BY <1>1, <1>2
  <1>5. \A i \in 1..m + n : (i \in 1..m /\ c[i] = a[i]) \/ (i - m \in 1..n /\ c[i] = b[i - m])
    BY <1>1, <1>2
  <1>6. ToSet(c) = ToSet(a) \cup ToSet(b)
    <2>1. ToSet(a) \subseteq ToSet(c)
      BY <1>1, <1>2, <1>3 DEF ToSet
    <2>2. ToSet(b) \subseteq ToSet(c)
      <3> SUFFICES ASSUME NEW x \in ToSet(b) PROVE x \in ToSet(c)
        OBVIOUS
      <3>1. PICK i \in 1..n : b[i] = x
        BY <1>1 DEF ToSet
      <3>2. m + i \in DOMAIN c /\ c[m + i] = x
        BY <1>2, <1>4, <3>1
      <3> QED BY <3>2 DEF ToSet
    <2>3. ToSet(c) \subseteq ToSet(a) \cup ToSet(b)
      BY <1>1, <1>2, <1>5 DEF ToSet
    <2> QED BY <2>1, <2>2, <2>3
  <1> QED BY <1>6 DEF c

\* What a concatenation of sequences holds is what one of them holds.
LEMMA FlattenItems ==
  ASSUME NEW S, NEW seqs \in Seq(Seq(S))
  PROVE  /\ FlattenSeq(seqs) \in Seq(S)
         /\ ToSet(FlattenSeq(seqs)) = UNION {ToSet(seqs[i]) : i \in 1..Len(seqs)}
  <1> DEFINE N == Len(seqs)
             U(n) == UNION {ToSet(seqs[i]) : i \in 1..n}
  <1>1. PICK f : Heads(f, seqs) /\ FlattenSeq(seqs) = f[N] /\ \A i \in 0..N : f[i] \in Seq(S)
    BY FlattenHeads, Zenon
  <1>2. N \in Nat /\ \A i \in 1..N : seqs[i] \in Seq(S)
    OBVIOUS
  <1>3. f[0] = <<>> /\ \A i \in 1..N : f[i] = f[i - 1] \o seqs[i]
    BY <1>1, Zenon DEF Heads
  <1> DEFINE T == {n \in Nat : ToSet(f[n]) = U(n)}
  <1>4. 0 \in T
    <2>1. ToSet(f[0]) = {}
      BY <1>3 DEF ToSet
    <2>2. U(0) = {}
      OBVIOUS
    <2> QED BY <2>1, <2>2
  <1>5. ASSUME NEW n \in Nat, n \in T, n < N
        PROVE  n + 1 \in T
    <2> DEFINE j == n + 1
    <2>1. j \in 1..N /\ j - 1 = n /\ n \in 0..N /\ 1..j = 1..n \cup {j}
      BY <1>2, <1>5
    <2> HIDE DEF j
    <2>2. f[j] = f[n] \o seqs[j] /\ f[n] \in Seq(S) /\ seqs[j] \in Seq(S)
      BY <1>1, <1>2, <1>3, <2>1
    <2>3. ToSet(f[j]) = ToSet(f[n]) \cup ToSet(seqs[j])
      BY <2>2, ConcatItems
    <2>4. ToSet(f[n]) = U(n)
      BY <1>5
    <2>5. U(j) = U(n) \cup ToSet(seqs[j])
      BY <2>1, Zenon
    <2>6. j \in Nat /\ ToSet(f[j]) = U(j)
      BY <1>2, <2>1, <2>3, <2>4, <2>5
    <2> QED BY <2>6 DEF j
  <1> HIDE DEF U
  <1>6. N \in T
    <2>1. \A n \in Nat : n \in T /\ n < N => n + 1 \in T
      BY <1>5
    <2> HIDE DEF T
    <2>2. 0..N \subseteq T
      BY <1>2, <1>4, <2>1, InductionUpTo
    <2> QED BY <1>2, <2>2
  <1>7. ToSet(f[N]) = U(N) /\ N \in 0..N
    BY <1>2, <1>6
  <1> QED BY <1>1, <1>7 DEF U
==============================================================================
