---------------------------- MODULE ProofLemmas ----------------------------
(***************************************************************************)
(* Facts about naturals and sequences that several proofs rest on.         *)
(***************************************************************************)
EXTENDS Integers, SequencesExt, WellFoundedInduction, SequenceTheorems, TLAPS

\* Every non-empty set of naturals has a least element.
LEMMA Smallest ==
    ASSUME NEW T, T \subseteq Nat, T # {}
    PROVE  \E x \in T : \A y \in T : x <= y
<1> DEFINE R == {ss \in Nat \X Nat : ss[1] < ss[2]}
<1>1. IsWellFoundedOn(R, Nat)
  BY NatLessThanWellFounded DEF OpToRel
<1>2. \E x \in T : \A y \in T : ~(<<y, x>> \in R)
  <2> HIDE DEF R
  <2> QED BY <1>1, WFMin
<1>3. PICK x \in T : \A y \in T : ~(<<y, x>> \in R)
  BY <1>2
<1>4. ASSUME NEW y \in T PROVE x <= y
  <2>1. x \in Nat /\ y \in Nat
    OBVIOUS
  <2>2. ~(y < x)
    BY <1>3, <2>1
  <2> QED BY <2>1, <2>2
<1> QED BY <1>4

\* Every non-empty bounded set of naturals has a greatest element.
LEMMA Largest ==
    ASSUME NEW n \in Nat, NEW T, T \subseteq 0..n, T # {}
    PROVE  \E x \in T : \A y \in T : y <= x
<1> DEFINE D == {n - t : t \in T}
<1>1. D \subseteq Nat /\ D # {}
  <2>1. \A t \in T : n - t \in Nat
    BY \A t \in T : t \in 0..n
  <2> QED BY <2>1
<1>2. PICK x \in D : \A y \in D : x <= y
  <2> HIDE DEF D
  <2> QED BY <1>1, Smallest
<1>3. PICK t \in T : x = n - t
  BY <1>2
<1>4. \A y \in T : y <= t
  BY <1>2, <1>3
<1> QED BY <1>4

\* Induction over 0..n, the property given as the set of numbers that have it.
LEMMA Upwards ==
    ASSUME NEW n \in Nat, NEW J, 0 \in J, \A i \in 1..n : i - 1 \in J => i \in J
    PROVE  0..n \subseteq J
<1> DEFINE Bad == {i \in 0..n : i \notin J}
<1>1. ASSUME Bad # {} PROVE FALSE
  <2>1. Bad \subseteq Nat
    OBVIOUS
  <2>2. PICK i \in Bad : \A j \in Bad : i <= j
    <3> HIDE DEF Bad
    <3> QED BY <1>1, <2>1, Smallest
  <2>3. i \in 1..n /\ i - 1 \in 0..n /\ ~(i <= i - 1)
    BY <2>2
  <2> QED BY <2>2, <2>3
<1> QED BY <1>1

\* Max of a non-empty bounded set of naturals is its greatest element.
LEMMA MaxIsLargest ==
    ASSUME NEW n \in Nat, NEW T, T \subseteq 0..n, T # {}
    PROVE  Max(T) \in T /\ \A y \in T : y <= Max(T)
<1>1. \E x \in T : \A y \in T : x >= y
  <2>1. PICK x \in T : \A y \in T : y <= x
    BY Largest
  <2>2. \A y \in T : x \in Nat /\ y \in Nat
    OBVIOUS
  <2> QED BY <2>1, <2>2
<1>2. Max(T) \in T /\ \A y \in T : Max(T) >= y
  BY <1>1 DEF Max
<1>3. \A y \in T : y \in Nat
  OBVIOUS
<1> QED BY <1>2, <1>3

\* Min of a non-empty set of naturals is its least element.
LEMMA MinIsLeast ==
    ASSUME NEW T, T \subseteq Nat, T # {}
    PROVE  Min(T) \in T /\ \A y \in T : Min(T) <= y
<1>1. \E x \in T : \A y \in T : x =< y
  BY Smallest
<1> QED BY <1>1 DEF Min

\* The first n elements of a sequence.
LEMMA PrefixProperties ==
    ASSUME NEW S, NEW s \in Seq(S), NEW n \in 0..Len(s)
    PROVE  /\ SubSeq(s, 1, n) \in Seq(S)
           /\ Len(SubSeq(s, 1, n)) = n
           /\ \A i \in 1..n : SubSeq(s, 1, n)[i] = s[i]
<1>1. s \in [1..Len(s) -> S] /\ Len(s) \in Nat
  BY LenProperties
<1>2. \A i \in 1..n : s[i] \in S
  BY <1>1
<1>3. /\ SubSeq(s, 1, n) \in Seq(S)
      /\ Len(SubSeq(s, 1, n)) = IF 1 <= n THEN n - 1 + 1 ELSE 0
      /\ \A i \in 1..(n - 1 + 1) : SubSeq(s, 1, n)[i] = s[1 + i - 1]
  BY <1>2, SubSeqProperties
<1> QED BY <1>1, <1>3

\* Dropping the last element of a sequence keeps the others in place.
LEMMA FrontProperties ==
    ASSUME NEW S, NEW s \in Seq(S), s # <<>>
    PROVE  /\ Len(s) \in Nat \ {0}
           /\ Last(s) = s[Len(s)] /\ Last(s) \in S
           /\ Front(s) \in Seq(S)
           /\ Len(Front(s)) = Len(s) - 1
           /\ \A i \in 1..(Len(s) - 1) : Front(s)[i] = s[i]
<1>1. Len(s) \in Nat \ {0} /\ s \in [1..Len(s) -> S]
  BY EmptySeq, LenProperties
<1>2. s[Len(s)] \in S
  BY <1>1
<1>3. Len(s) - 1 \in 0..Len(s)
  BY <1>1
<1> QED BY <1>1, <1>2, <1>3, PrefixProperties DEF Front, Last

\* Replacing the last element of a sequence.
LEMMA ReplaceLastProperties ==
    ASSUME NEW S, NEW s \in Seq(S), s # <<>>, NEW e \in S
    PROVE  /\ Append(Front(s), e) \in Seq(S)
           /\ Len(Append(Front(s), e)) = Len(s)
           /\ \A i \in 1..(Len(s) - 1) : Append(Front(s), e)[i] = s[i]
           /\ Append(Front(s), e)[Len(s)] = e
<1>1. /\ Front(s) \in Seq(S)
      /\ Len(Front(s)) = Len(s) - 1
      /\ Len(s) \in Nat \ {0}
      /\ \A i \in 1..(Len(s) - 1) : Front(s)[i] = s[i]
  BY FrontProperties
<1>2. /\ Append(Front(s), e) \in Seq(S)
      /\ Len(Append(Front(s), e)) = Len(s) - 1 + 1
      /\ \A i \in 1..(Len(s) - 1) : Append(Front(s), e)[i] = Front(s)[i]
      /\ Append(Front(s), e)[Len(s) - 1 + 1] = e
  BY <1>1, AppendProperties
<1>3. Len(s) - 1 + 1 = Len(s)
  BY <1>1
<1> QED BY <1>1, <1>2, <1>3

\* An element inserted behind the first at elements of a sequence.
LEMMA InsertAtProperties ==
    ASSUME NEW S, NEW s \in Seq(S), NEW at \in 0..Len(s), NEW e \in S
    PROVE  LET t == InsertAt(s, at + 1, e)
           IN  /\ t \in Seq(S) /\ Len(t) = Len(s) + 1
               /\ \A i \in 1..(Len(s) + 1) :
                    t[i] = IF i <= at THEN s[i] ELSE IF i = at + 1 THEN e ELSE s[i - 1]
<1> DEFINE n == Len(s)
           head == SubSeq(s, 1, at)
           tail == SubSeq(s, at + 1, n)
           front == head \o <<e>>
<1>1. n \in Nat /\ s \in [1..n -> S]
  BY LenProperties
<1>2. head \in Seq(S) /\ Len(head) = at /\ \A i \in 1..at : head[i] = s[i]
  BY PrefixProperties
<1>3. tail \in Seq(S) /\ Len(tail) = n - at /\ \A i \in 1..(n - at) : tail[i] = s[at + i]
  <2>1. \A i \in (at + 1)..n : s[i] \in S
    BY <1>1
  <2>2. /\ tail \in Seq(S)
        /\ Len(tail) = IF at + 1 <= n THEN n - (at + 1) + 1 ELSE 0
        /\ \A i \in 1..(n - (at + 1) + 1) : tail[i] = s[at + 1 + i - 1]
    BY <1>1, <2>1, SubSeqProperties
  <2> HIDE DEF n, tail
  <2>3. n - (at + 1) + 1 = n - at /\ (at + 1 <= n \/ n - at = 0) /\ \A i \in 1..(n - at) : at + 1 + i - 1 = at + i
    <3>1. at \in 0..n
      BY DEF n
    <3> QED BY <1>1, <3>1
  <2>4. \A i \in 1..(n - at) : tail[i] = s[at + i]
    BY <2>2, <2>3
  <2>5. Len(tail) = n - at
    BY <1>1, <2>2, <2>3
  <2> QED BY <2>2, <2>4, <2>5
<1> HIDE DEF head, tail, n
<1>4. front \in Seq(S) /\ Len(front) = at + 1 /\ \A i \in 1..(at + 1) : front[i] = IF i <= at THEN head[i] ELSE e
  <2>1. <<e>> \in Seq(S) /\ Len(<<e>>) = 1 /\ <<e>>[1] = e
    OBVIOUS
  <2>2. /\ front \in Seq(S) /\ Len(front) = Len(head) + Len(<<e>>)
        /\ \A i \in 1..(Len(head) + Len(<<e>>)) : front[i] = IF i <= Len(head) THEN head[i] ELSE <<e>>[i - Len(head)]
    BY <1>2, <2>1, ConcatProperties
  <2> QED BY <1>1, <1>2, <2>1, <2>2
<1> HIDE DEF front
<1> DEFINE t == front \o tail
<1>5. /\ t \in Seq(S) /\ Len(t) = Len(front) + Len(tail)
      /\ \A i \in 1..(Len(front) + Len(tail)) : t[i] = IF i <= Len(front) THEN front[i] ELSE tail[i - Len(front)]
  BY <1>3, <1>4, ConcatProperties
<1>6. InsertAt(s, at + 1, e) = t
  <2>1. (at + 1) - 1 = at
    OBVIOUS
  <2>2. InsertAt(s, at + 1, e) = SubSeq(s, 1, (at + 1) - 1) \o <<e>> \o SubSeq(s, at + 1, Len(s))
    BY DEF InsertAt
  <2> QED BY <2>1, <2>2 DEF front, head, tail, n
<1> HIDE DEF t
<1>7. at \in 0..n
  BY DEF n
<1>8. Len(t) = n + 1
  BY <1>1, <1>3, <1>4, <1>5, <1>7
<1>9. ASSUME NEW i \in 1..(n + 1)
      PROVE  t[i] = IF i <= at THEN s[i] ELSE IF i = at + 1 THEN e ELSE s[i - 1]
  <2>1. i \in 1..(Len(front) + Len(tail))
    BY <1>1, <1>3, <1>4, <1>7
  <2>2. CASE i <= at + 1
    <3>1. t[i] = IF i <= at THEN head[i] ELSE e
      BY <1>1, <1>4, <1>5, <1>7, <2>1, <2>2
    <3> QED BY <1>1, <1>2, <1>7, <2>2, <3>1
  <2>3. CASE ~(i <= at + 1)
    <3>1. t[i] = tail[i - (at + 1)] /\ i - (at + 1) \in 1..(n - at)
      BY <1>1, <1>4, <1>5, <1>7, <2>1, <2>3
    <3>2. at + (i - (at + 1)) = i - 1
      BY <1>1, <1>7
    <3> QED BY <1>1, <1>3, <1>7, <2>3, <3>1, <3>2
  <2> QED BY <2>2, <2>3
<1> QED BY <1>5, <1>6, <1>8, <1>9 DEF n

-----------------------------------------------------------------------------
\* A recursive function over 0..n is defined where every step stays in a set.
IsRecursion(f, n, base, step) == f[0] = base /\ \A k \in 1..n : f[k] = step[<<k, f[k - 1]>>]

LEMMA RecursionExists ==
    ASSUME NEW n \in Nat, NEW S, NEW base \in S, NEW step \in [(1..n) \X S -> S]
    PROVE  \E f \in [0..n -> S] : IsRecursion(f, n, base, step)
<1> DEFINE P(k) == \E f \in [0..k -> S] : IsRecursion(f, k, base, step)
           Bad == {k \in 0..n : ~P(k)}
<1>1. ASSUME Bad # {} PROVE FALSE
  <2>1. PICK k \in Bad : \A j \in Bad : k <= j
    <3>1. Bad \subseteq Nat
      OBVIOUS
    <3> HIDE DEF Bad
    <3> QED BY <1>1, <3>1, Smallest
  <2>2. k # 0
    <3>1. [i \in 0..0 |-> base] \in [0..0 -> S] /\ IsRecursion([i \in 0..0 |-> base], 0, base, step)
      BY DEF IsRecursion
    <3>2. P(0)
      BY <3>1
    <3> QED BY <2>1, <3>2
  <2>3. k \in 1..n /\ k - 1 \in 0..n
    BY <2>1, <2>2
  <2>4. P(k - 1)
    BY <2>1, <2>3
  <2>5. PICK f \in [0..(k - 1) -> S] : IsRecursion(f, k - 1, base, step)
    BY <2>4
  <2> DEFINE g == [i \in 0..k |-> IF i = k THEN step[<<k, f[k - 1]>>] ELSE f[i]]
  <2>6. f[k - 1] \in S /\ step[<<k, f[k - 1]>>] \in S
    BY <2>3
  <2>7. g \in [0..k -> S]
    BY <2>3, <2>6
  <2>8. \A i \in 0..(k - 1) : g[i] = f[i]
    BY <2>3
  <2>9. g[k] = step[<<k, f[k - 1]>>]
    BY <2>3
  <2> HIDE DEF g
  <2>10. IsRecursion(g, k, base, step)
    <3>1. g[0] = base
      BY <2>3, <2>5, <2>8 DEF IsRecursion
    <3>2. ASSUME NEW i \in 1..k PROVE g[i] = step[<<i, g[i - 1]>>]
      <4>1. CASE i = k
        BY <2>3, <2>8, <2>9, <4>1
      <4>2. CASE i # k
        BY <2>3, <2>5, <2>8, <4>2 DEF IsRecursion
      <4> QED BY <4>1, <4>2
    <3> QED BY <3>1, <3>2 DEF IsRecursion
  <2>11. P(k)
    BY <2>7, <2>10
  <2> QED BY <2>1, <2>11
<1>2. n \in 0..n
  OBVIOUS
<1>3. P(n)
  BY <1>1, <1>2
<1> QED BY <1>3

-----------------------------------------------------------------------------
\* What FlattenSeq has joined after each of its sequences.
IsJoining(F, seqs) ==
    /\ F[0] = <<>>
    /\ \A i \in 1..Len(seqs) : F[i] = F[i - 1] \o seqs[i]
    /\ FlattenSeq(seqs) = F[Len(seqs)]

Joining(seqs) == CHOOSE F : IsJoining(F, seqs)

Flatten(seqs) ==
    LET flatten[i \in 1..Len(seqs)] == IF i = 1 THEN seqs[i] ELSE flatten[i - 1] \o seqs[i]
    IN  flatten

\* That function is defined for as many sequences as there are.
LEMMA FlattenExists ==
    ASSUME NEW seqs, NEW n \in Nat \ {0}
    PROVE  \E f : f = [i \in 1..n |-> IF i = 1 THEN seqs[i] ELSE f[i - 1] \o seqs[i]]
<1> DEFINE Step(s, i) == s \o seqs[i]
           P(k) == \E f : f = [i \in 1..k |-> IF i = 1 THEN seqs[i] ELSE Step(f[i - 1], i)]
           Bad == {k \in Nat \ {0} : ~P(k)}
<1>1. SUFFICES ASSUME Bad # {} PROVE FALSE
  BY DEF P
<1>2. PICK k \in Bad : \A j \in Bad : k <= j
  <2>1. Bad \subseteq Nat
    OBVIOUS
  <2> HIDE DEF Bad
  <2> QED BY <1>1, <2>1, Smallest
<1>3. k # 1
  <2>1. [i \in 1..1 |-> seqs[i]] = [i \in 1..1 |-> IF i = 1 THEN seqs[i] ELSE Step([j \in 1..1 |-> seqs[j]][i - 1], i)]
    <3> HIDE DEF Step
    <3> QED OBVIOUS
  <2> QED BY <2>1, <1>2
<1>4. P(k - 1)
  <2> HIDE DEF P
  <2> QED BY <1>2, <1>3
<1>5. PICK f : f = [i \in 1..(k - 1) |-> IF i = 1 THEN seqs[i] ELSE Step(f[i - 1], i)]
  BY <1>4
<1> DEFINE g == [i \in 1..k |-> IF i = 1 THEN seqs[i] ELSE Step(f[i - 1], i)]
<1> HIDE DEF Step
<1>6. \A i \in 1..k : i # 1 => g[i - 1] = f[i - 1]
  BY <1>2, <1>3, <1>5
<1>7. g = [i \in 1..k |-> IF i = 1 THEN seqs[i] ELSE Step(g[i - 1], i)]
  BY <1>6
<1>8. P(k)
  BY <1>7
<1> QED BY <1>2, <1>8

\* So FlattenSeq is one join per sequence.
LEMMA FlattenJoins ==
    ASSUME NEW S, NEW seqs \in Seq(Seq(S))
    PROVE  /\ IsJoining(Joining(seqs), seqs)
           /\ \A i \in 0..Len(seqs) : Joining(seqs)[i] \in Seq(S)
<1>1. Len(seqs) \in Nat /\ \A i \in 1..Len(seqs) : seqs[i] \in Seq(S)
  BY LenProperties, ElementOfSeq
<1>2. \E F : IsJoining(F, seqs)
  <2>1. CASE Len(seqs) = 0
    <3>1. FlattenSeq(seqs) = <<>>
      BY <2>1, EmptySeq DEF FlattenSeq
    <3>2. IsJoining([i \in 0..0 |-> <<>>], seqs)
      BY <2>1, <3>1 DEF IsJoining
    <3> QED BY <3>2
  <2>2. CASE Len(seqs) # 0
    <3>1. \E f : f = [i \in 1..Len(seqs) |-> IF i = 1 THEN seqs[i] ELSE f[i - 1] \o seqs[i]]
      <4>1. Len(seqs) \in Nat \ {0}
        BY <1>1, <2>2
      <4> QED BY <4>1, FlattenExists, Zenon
    <3>2. Flatten(seqs) = [i \in 1..Len(seqs) |-> IF i = 1 THEN seqs[i] ELSE Flatten(seqs)[i - 1] \o seqs[i]]
      BY <3>1, Zenon DEF Flatten
    <3>3. FlattenSeq(seqs) = Flatten(seqs)[Len(seqs)]
      BY <2>2 DEF FlattenSeq, Flatten
    <3> DEFINE f == Flatten(seqs)
               F == [i \in 0..Len(seqs) |-> IF i = 0 THEN <<>> ELSE f[i]]
    <3> HIDE DEF f
    <3>4. f = [i \in 1..Len(seqs) |-> IF i = 1 THEN seqs[i] ELSE f[i - 1] \o seqs[i]]
      BY <3>2 DEF f
    <3>5. ASSUME NEW i \in 1..Len(seqs) PROVE F[i] = F[i - 1] \o seqs[i]
      <4>1. CASE i = 1
        <5>1. F[i] = seqs[1] /\ F[i - 1] = <<>>
          BY <3>4, <4>1, <1>1
        <5> QED BY <5>1, <4>1, <1>1, ConcatEmptySeq
      <4>2. CASE i # 1
        <5>1. i - 1 \in 1..Len(seqs) /\ i - 1 \in 0..Len(seqs) /\ i \in 0..Len(seqs) /\ i # 0 /\ i - 1 # 0
          BY <4>2, <1>1
        <5>2. F[i] = f[i] /\ F[i - 1] = f[i - 1]
          BY <5>1
        <5>3. f[i] = f[i - 1] \o seqs[i]
          BY <3>4, <4>2
        <5> QED BY <5>2, <5>3
      <4> QED BY <4>1, <4>2
    <3>6. F[0] = <<>> /\ F[Len(seqs)] = f[Len(seqs)]
      BY <1>1, <2>2
    <3> HIDE DEF F
    <3>7. IsJoining(F, seqs)
      BY <3>3, <3>5, <3>6 DEF IsJoining, f
    <3> QED BY <3>7
  <2> QED BY <2>1, <2>2
<1>3. IsJoining(Joining(seqs), seqs)
  BY <1>2 DEF Joining
<1> DEFINE J(i) == Joining(seqs)[i]
           Bad == {k \in 0..Len(seqs) : J(k) \notin Seq(S)}
<1>4. J(0) = <<>> /\ \A i \in 1..Len(seqs) : J(i) = J(i - 1) \o seqs[i]
  BY <1>3 DEF IsJoining
<1> HIDE DEF J
<1>5. ASSUME Bad # {} PROVE FALSE
  <2>1. PICK k \in Bad : \A j \in Bad : k <= j
    <3>1. Bad \subseteq Nat
      BY <1>1
    <3> HIDE DEF Bad
    <3> QED BY <1>5, <3>1, Smallest
  <2>2. k # 0
    BY <1>4, <2>1, EmptySeq
  <2>3. k \in 1..Len(seqs) /\ k - 1 \in 0..Len(seqs) /\ J(k - 1) \in Seq(S)
    BY <1>1, <2>1, <2>2
  <2>4. J(k - 1) \o seqs[k] \in Seq(S)
    BY <1>1, <2>3, ConcatProperties
  <2> QED BY <1>4, <2>1, <2>3, <2>4
<1> QED BY <1>3, <1>5 DEF J

\* FlattenSeq piece by piece: each sequence is found in the joined one, behind those
\* before it, and nothing else is.
PiecesOf(joined, seqs, off, n) ==
    /\ \A u \in 1..n : off[u] \in Nat /\ off[u] + Len(seqs[u]) <= Len(joined)
    /\ \A u \in 1..n : \A i \in 1..Len(seqs[u]) : joined[off[u] + i] = seqs[u][i]
    /\ \A j \in 1..Len(joined) : \E u \in 1..n : \E i \in 1..Len(seqs[u]) : j = off[u] + i
    /\ \A u, v \in 1..n : u < v => off[u] + Len(seqs[u]) <= off[v]

LEMMA FlattenPieces ==
    ASSUME NEW S, NEW seqs \in Seq(Seq(S))
    PROVE  /\ FlattenSeq(seqs) \in Seq(S)
           /\ \E off : PiecesOf(FlattenSeq(seqs), seqs, off, Len(seqs))
<1> DEFINE F(i) == Joining(seqs)[i]
           off == [u \in 1..Len(seqs) |-> Len(F(u - 1))]
           Bad == {i \in 0..Len(seqs) : ~PiecesOf(F(i), seqs, off, i)}
<1>1. /\ F(0) = <<>> /\ FlattenSeq(seqs) = F(Len(seqs))
      /\ \A i \in 1..Len(seqs) : F(i) = F(i - 1) \o seqs[i]
      /\ \A i \in 0..Len(seqs) : F(i) \in Seq(S)
  BY FlattenJoins DEF IsJoining
<1>2. Len(seqs) \in Nat /\ \A i \in 1..Len(seqs) : seqs[i] \in Seq(S) /\ Len(seqs[i]) \in Nat
  BY LenProperties, ElementOfSeq
<1> HIDE DEF F
<1>3. \A i \in 0..Len(seqs) : Len(F(i)) \in Nat
  BY <1>1, LenProperties
<1>4. ASSUME Bad # {} PROVE FALSE
  <2>1. PICK i \in Bad : \A j \in Bad : i <= j
    <3>1. Bad \subseteq Nat
      BY <1>2
    <3> HIDE DEF Bad
    <3> QED BY <1>4, <3>1, Smallest
  <2>2. i # 0
    <3>1. Len(F(0)) = 0
      BY <1>1
    <3>2. PiecesOf(F(0), seqs, off, 0)
      BY <3>1 DEF PiecesOf
    <3> QED BY <2>1, <3>2
  <2>3. i \in 1..Len(seqs) /\ i - 1 \in 0..Len(seqs) /\ i \in Nat
    BY <1>2, <2>1, <2>2
  <2>4. PiecesOf(F(i - 1), seqs, off, i - 1)
    <3>1. ~(i <= i - 1)
      BY <2>3
    <3>2. i - 1 \notin Bad
      BY <2>1, <3>1
    <3> QED BY <2>3, <3>2
  <2> DEFINE f == F(i - 1)
             a == seqs[i]
  <2>5. f \in Seq(S) /\ a \in Seq(S) /\ F(i) = f \o a /\ Len(f) \in Nat /\ Len(a) \in Nat /\ off[i] = Len(f)
    BY <1>1, <1>2, <1>3, <2>3
  <2> HIDE DEF f, a
  <2>6. /\ Len(F(i)) = Len(f) + Len(a)
        /\ \A p \in 1..(Len(f) + Len(a)) : F(i)[p] = IF p <= Len(f) THEN f[p] ELSE a[p - Len(f)]
    BY <2>5, ConcatProperties
  <2>7. PiecesOf(f, seqs, off, i - 1)
    BY <2>4 DEF f
  <2> HIDE DEF off
  <2>8. ASSUME NEW u \in 1..i
        PROVE  /\ off[u] \in Nat /\ off[u] + Len(seqs[u]) <= Len(F(i))
               /\ \A x \in 1..Len(seqs[u]) : F(i)[off[u] + x] = seqs[u][x]
               /\ \A v \in 1..i : u < v => off[u] + Len(seqs[u]) <= off[v]
    <3>1. Len(seqs[u]) \in Nat
      BY <1>2, <2>3
    <3>2. CASE u = i
      <4>1. seqs[u] = a
        BY <3>2 DEF a
      <4>2. \A x \in 1..Len(a) : Len(f) + x \in 1..(Len(f) + Len(a)) /\ ~(Len(f) + x <= Len(f)) /\ Len(f) + x - Len(f) = x
        BY <2>5
      <4>3. \A x \in 1..Len(a) : F(i)[Len(f) + x] = a[x]
        BY <2>6, <4>2
      <4>4. \A v \in 1..i : ~(u < v)
        BY <2>3, <3>2
      <4>5. off[u] = Len(f) /\ Len(f) + Len(a) <= Len(F(i))
        BY <2>5, <2>6, <3>2
      <4>6. off[u] \in Nat /\ off[u] + Len(seqs[u]) <= Len(F(i))
        BY <2>5, <4>1, <4>5
      <4>7. \A x \in 1..Len(seqs[u]) : F(i)[off[u] + x] = seqs[u][x]
        BY <4>1, <4>3, <4>5
      <4> QED BY <4>4, <4>6, <4>7
    <3>3. CASE u # i
      <4>1. u \in 1..(i - 1)
        BY <2>3, <3>3
      <4>2. /\ off[u] \in Nat /\ off[u] + Len(seqs[u]) <= Len(f)
            /\ \A x \in 1..Len(seqs[u]) : f[off[u] + x] = seqs[u][x]
            /\ \A v \in 1..(i - 1) : u < v => off[u] + Len(seqs[u]) <= off[v]
        BY <2>7, <4>1 DEF PiecesOf
      <4> DEFINE m == Len(seqs[u])
                 o == off[u]
      <4>3. \A x \in 1..Len(seqs[u]) : off[u] + x \in 1..(Len(f) + Len(a)) /\ off[u] + x <= Len(f)
        <5>1. m \in Nat /\ o \in Nat /\ o + m <= Len(f)
          BY <3>1, <4>2
        <5> HIDE DEF m, o
        <5>2. \A x \in 1..m : o + x \in 1..(Len(f) + Len(a)) /\ o + x <= Len(f)
          BY <2>5, <5>1
        <5> QED BY <5>2 DEF m, o
      <4>4. \A v \in 1..i : u < v => off[u] + Len(seqs[u]) <= off[v]
        BY <2>3, <2>5, <4>2
      <4>5. off[u] \in Nat /\ off[u] + Len(seqs[u]) <= Len(F(i))
        BY <2>5, <2>6, <3>1, <4>2
      <4>6. \A x \in 1..Len(seqs[u]) : F(i)[off[u] + x] = seqs[u][x]
        BY <2>6, <4>2, <4>3
      <4> QED BY <4>4, <4>5, <4>6
    <3> QED BY <3>2, <3>3
  <2>9. ASSUME NEW p \in 1..Len(F(i)) PROVE \E u \in 1..i : \E x \in 1..Len(seqs[u]) : p = off[u] + x
    <3>1. p \in 1..(Len(f) + Len(a))
      BY <2>6
    <3>2. CASE p <= Len(f)
      <4>1. p \in 1..Len(f)
        BY <2>5, <3>1, <3>2
      <4>2. PICK u \in 1..(i - 1) : \E x \in 1..Len(seqs[u]) : p = off[u] + x
        BY <2>7, <4>1 DEF PiecesOf
      <4>3. u \in 1..i
        BY <2>3
      <4> QED BY <4>2, <4>3
    <3>3. CASE ~(p <= Len(f))
      <4>1. p - Len(f) \in 1..Len(a) /\ p = Len(f) + (p - Len(f))
        BY <2>5, <3>1, <3>3
      <4>2. i \in 1..i
        BY <2>3
      <4> QED BY <2>5, <4>1, <4>2 DEF a
    <3> QED BY <3>2, <3>3
  <2>10. PiecesOf(F(i), seqs, off, i)
    BY <2>8, <2>9 DEF PiecesOf
  <2> QED BY <2>1, <2>10 DEF off
<1>5. PiecesOf(F(Len(seqs)), seqs, off, Len(seqs))
  <2>1. Len(seqs) \in 0..Len(seqs)
    BY <1>2
  <2> QED BY <1>4, <2>1
<1> HIDE DEF off
<1>6. F(Len(seqs)) \in Seq(S)
  BY <1>1, <1>2
<1> QED BY <1>1, <1>5, <1>6

\* Sequences of the same lengths are joined alike: what comes from one place of one of
\* them comes from that place of the other.
SameLengths(A, B) == Len(A) = Len(B) /\ \A k \in 1..Len(A) : Len(A[k]) = Len(B[k])
JoinedAlike(A, B) ==
    /\ Len(FlattenSeq(A)) = Len(FlattenSeq(B))
    /\ \A p \in 1..Len(FlattenSeq(A)) : \E k \in 1..Len(A) : \E j \in 1..Len(A[k]) :
        FlattenSeq(A)[p] = A[k][j] /\ FlattenSeq(B)[p] = B[k][j]

LEMMA FlattenAlike ==
    ASSUME NEW S, NEW T, NEW A \in Seq(Seq(S)), NEW B \in Seq(Seq(T)), SameLengths(A, B)
    PROVE  FlattenSeq(A) \in Seq(S) /\ FlattenSeq(B) \in Seq(T) /\ JoinedAlike(A, B)
<1> DEFINE F(i) == Joining(A)[i]
           G(i) == Joining(B)[i]
           Alike(i) == /\ Len(F(i)) = Len(G(i))
                       /\ \A p \in 1..Len(F(i)) : \E k \in 1..i : \E j \in 1..Len(A[k]) :
                            F(i)[p] = A[k][j] /\ G(i)[p] = B[k][j]
           Bad == {i \in 0..Len(A) : ~Alike(i)}
<1>1. /\ F(0) = <<>> /\ FlattenSeq(A) = F(Len(A))
      /\ \A i \in 1..Len(A) : F(i) = F(i - 1) \o A[i]
      /\ \A i \in 0..Len(A) : F(i) \in Seq(S)
  BY FlattenJoins DEF IsJoining
<1>2. /\ G(0) = <<>> /\ FlattenSeq(B) = G(Len(A))
      /\ \A i \in 1..Len(A) : G(i) = G(i - 1) \o B[i]
      /\ \A i \in 0..Len(A) : G(i) \in Seq(T)
  BY FlattenJoins DEF IsJoining, SameLengths
<1>3. /\ Len(A) \in Nat /\ Len(A) = Len(B)
      /\ \A i \in 1..Len(A) : A[i] \in Seq(S) /\ B[i] \in Seq(T) /\ Len(A[i]) = Len(B[i])
  BY LenProperties, ElementOfSeq DEF SameLengths
<1> HIDE DEF F, G
<1>4. ASSUME Bad # {} PROVE FALSE
  <2>1. PICK i \in Bad : \A j \in Bad : i <= j
    <3>1. Bad \subseteq Nat
      BY <1>3
    <3> HIDE DEF Bad
    <3> QED BY <1>4, <3>1, Smallest
  <2>2. i # 0
    <3>1. Alike(0)
      BY <1>1, <1>2
    <3> QED BY <2>1, <3>1
  <2>3. i \in 1..Len(A) /\ i - 1 \in 0..Len(A)
    BY <1>3, <2>1, <2>2
  <2>4. Alike(i - 1)
    <3>1. i \in Nat /\ ~(i <= i - 1)
      BY <1>3, <2>3
    <3>2. i - 1 \notin Bad
      BY <2>1, <3>1
    <3> QED BY <2>3, <3>2
  <2> DEFINE f == F(i - 1)
             g == G(i - 1)
  <2>5. f \in Seq(S) /\ g \in Seq(T) /\ A[i] \in Seq(S) /\ B[i] \in Seq(T) /\ Len(A[i]) = Len(B[i])
    BY <1>1, <1>2, <1>3, <2>3
  <2>6. F(i) = f \o A[i] /\ G(i) = g \o B[i]
    BY <1>1, <1>2, <2>3
  <2> HIDE DEF f, g
  <2>7. /\ Len(F(i)) = Len(f) + Len(A[i]) /\ Len(G(i)) = Len(g) + Len(B[i])
        /\ Len(f) \in Nat /\ Len(g) \in Nat /\ Len(A[i]) \in Nat
        /\ \A p \in 1..(Len(f) + Len(A[i])) :
             F(i)[p] = IF p <= Len(f) THEN f[p] ELSE A[i][p - Len(f)]
        /\ \A p \in 1..(Len(g) + Len(B[i])) :
             G(i)[p] = IF p <= Len(g) THEN g[p] ELSE B[i][p - Len(g)]
    <3>1. /\ Len(f \o A[i]) = Len(f) + Len(A[i])
          /\ \A p \in 1..(Len(f) + Len(A[i])) :
               (f \o A[i])[p] = IF p <= Len(f) THEN f[p] ELSE A[i][p - Len(f)]
      <4> DEFINE a == A[i]
      <4>1. f \in Seq(S) /\ a \in Seq(S)
        BY <2>5
      <4> HIDE DEF a
      <4>2. /\ Len(f \o a) = Len(f) + Len(a)
            /\ \A p \in 1..(Len(f) + Len(a)) : (f \o a)[p] = IF p <= Len(f) THEN f[p] ELSE a[p - Len(f)]
        BY <4>1, ConcatProperties
      <4> QED BY <4>2 DEF a
    <3>2. /\ Len(g \o B[i]) = Len(g) + Len(B[i])
          /\ \A p \in 1..(Len(g) + Len(B[i])) :
               (g \o B[i])[p] = IF p <= Len(g) THEN g[p] ELSE B[i][p - Len(g)]
      BY <2>5, ConcatProperties
    <3>3. Len(f) \in Nat /\ Len(g) \in Nat /\ Len(A[i]) \in Nat
      BY <2>5, LenProperties
    <3> QED BY <2>6, <3>1, <3>2, <3>3
  <2>8. Len(f) = Len(g)
    BY <2>4 DEF f, g
  <2>9. ASSUME NEW p \in 1..Len(F(i))
        PROVE  \E k \in 1..i : \E j \in 1..Len(A[k]) : F(i)[p] = A[k][j] /\ G(i)[p] = B[k][j]
    <3>1. p \in 1..(Len(f) + Len(A[i])) /\ p \in 1..(Len(g) + Len(B[i]))
      BY <2>5, <2>7, <2>8
    <3>2. CASE p <= Len(f)
      <4>1. F(i)[p] = f[p] /\ G(i)[p] = g[p] /\ p \in 1..Len(f)
        BY <2>7, <2>8, <3>1, <3>2
      <4>2. PICK k \in 1..(i - 1) : \E j \in 1..Len(A[k]) : f[p] = A[k][j] /\ g[p] = B[k][j]
        BY <2>4, <4>1 DEF f, g
      <4>3. k \in 1..i
        BY <2>3
      <4> QED BY <4>1, <4>2, <4>3
    <3>3. CASE ~(p <= Len(f))
      <4>1. /\ F(i)[p] = A[i][p - Len(f)] /\ G(i)[p] = B[i][p - Len(f)]
            /\ p - Len(f) \in 1..Len(A[i])
        BY <2>5, <2>7, <2>8, <3>1, <3>3
      <4>2. i \in 1..i
        BY <1>3, <2>3
      <4> QED BY <4>1, <4>2
    <3> QED BY <3>2, <3>3
  <2>10. Alike(i)
    BY <2>5, <2>7, <2>8, <2>9
  <2> QED BY <2>1, <2>10
<1>5. Alike(Len(A))
  <2>1. Len(A) \in 0..Len(A)
    BY <1>3
  <2> HIDE DEF Alike
  <2> QED BY <1>4, <2>1
<1> QED BY <1>1, <1>2, <1>3, <1>5 DEF JoinedAlike

\* A function on 1..n is a sequence.
IsList(s, n) == s = [k \in 1..n |-> s[k]]

LEMMA ListIsSeq ==
    ASSUME NEW n \in Nat, NEW s, IsList(s, n), NEW S, \A k \in 1..n : s[k] \in S
    PROVE  s \in Seq(S) /\ Len(s) = n
<1>1. s \in [1..n -> S]
  BY DEF IsList
<1>2. s \in Seq(S)
  BY <1>1, SeqDef
<1>3. DOMAIN s = 1..n /\ DOMAIN s = 1..Len(s) /\ Len(s) \in Nat
  BY <1>1, <1>2, LenProperties
<1> QED BY <1>2, <1>3

\* n sequences of those lengths, and all that is in them.
AreLists(A, n, len) == IsList(A, n) /\ \A k \in 1..n : IsList(A[k], len[k])
Pooled(A, n) == UNION {ToSet(A[k]) : k \in 1..n}

LEMMA ListsAreSeqs ==
    ASSUME NEW n \in Nat, NEW A, NEW len \in [1..n -> Nat], AreLists(A, n, len)
    PROVE  /\ A \in Seq(Seq(Pooled(A, n))) /\ Len(A) = n
           /\ \A k \in 1..n : Len(A[k]) = len[k]
<1> DEFINE S == Pooled(A, n)
<1>1. ASSUME NEW k \in 1..n PROVE A[k] \in Seq(S) /\ Len(A[k]) = len[k]
  <2> DEFINE a == A[k]
             m == len[k]
  <2>1. m \in Nat /\ IsList(a, m)
    BY DEF AreLists
  <2>2. ToSet(a) \subseteq S
    BY DEF Pooled
  <2> HIDE DEF a, m, S
  <2>3. \A j \in 1..m : a[j] \in ToSet(a)
    BY <2>1 DEF IsList, ToSet
  <2>4. \A j \in 1..m : a[j] \in S
    BY <2>2, <2>3
  <2>5. a \in Seq(S) /\ Len(a) = m
    BY <2>1, <2>4, ListIsSeq
  <2> QED BY <2>5 DEF a, m
<1> HIDE DEF S
<1>2. A \in Seq(Seq(S)) /\ Len(A) = n
  <2>1. \A k \in 1..n : A[k] \in Seq(S)
    BY <1>1
  <2>2. IsList(A, n)
    BY DEF AreLists
  <2> QED BY <2>1, <2>2, ListIsSeq
<1> QED BY <1>1, <1>2 DEF S

\* The same of sequences that are known by what they list.
JoinedAs(A, B, n, len, m) ==
    /\ IsList(FlattenSeq(A), m) /\ IsList(FlattenSeq(B), m) /\ Len(FlattenSeq(A)) = m
    /\ FlattenSeq(A) \in Seq(Pooled(A, n))
    /\ \A p \in 1..m : \E k \in 1..n : \E j \in 1..len[k] :
        FlattenSeq(A)[p] = A[k][j] /\ FlattenSeq(B)[p] = B[k][j]

LEMMA ListsJoinAlike ==
    ASSUME NEW n \in Nat, NEW A, NEW B, NEW len \in [1..n -> Nat], AreLists(A, n, len), AreLists(B, n, len)
    PROVE  \E m \in Nat : JoinedAs(A, B, n, len, m)
<1> DEFINE S == Pooled(A, n)
           T == Pooled(B, n)
           a == FlattenSeq(A)
           b == FlattenSeq(B)
<1>1. /\ A \in Seq(Seq(S)) /\ Len(A) = n
      /\ \A k \in 1..n : Len(A[k]) = len[k]
  BY ListsAreSeqs
<1>2. /\ B \in Seq(Seq(T)) /\ Len(B) = n
      /\ \A k \in 1..n : Len(B[k]) = len[k]
  BY ListsAreSeqs
<1> HIDE DEF S, T
<1>3. SameLengths(A, B)
  BY <1>1, <1>2 DEF SameLengths
<1>4. a \in Seq(S) /\ b \in Seq(T) /\ JoinedAlike(A, B)
  BY <1>1, <1>2, <1>3, FlattenAlike
<1>5. /\ Len(a) = Len(b)
      /\ \A p \in 1..Len(a) : \E k \in 1..n : \E j \in 1..len[k] : a[p] = A[k][j] /\ b[p] = B[k][j]
  <2>1. \A p \in 1..Len(a) : \E k \in 1..Len(A) : \E j \in 1..Len(A[k]) : a[p] = A[k][j] /\ b[p] = B[k][j]
    BY <1>4 DEF JoinedAlike
  <2>2. Len(a) = Len(b)
    BY <1>4 DEF JoinedAlike
  <2> HIDE DEF a, b
  <2>3. ASSUME NEW p \in 1..Len(a)
        PROVE  \E k \in 1..n : \E j \in 1..len[k] : a[p] = A[k][j] /\ b[p] = B[k][j]
    <3>1. PICK k \in 1..Len(A) : \E j \in 1..Len(A[k]) : a[p] = A[k][j] /\ b[p] = B[k][j]
      BY <2>1
    <3>2. k \in 1..n /\ Len(A[k]) = len[k]
      BY <1>1
    <3> QED BY <3>1, <3>2
  <2> QED BY <2>2, <2>3
<1> HIDE DEF a, b
<1>6. Len(a) \in Nat /\ IsList(a, Len(a)) /\ IsList(b, Len(a))
  BY <1>4, <1>5, LenProperties DEF IsList
<1> QED BY <1>4, <1>5, <1>6 DEF a, b, S, JoinedAs

=============================================================================
