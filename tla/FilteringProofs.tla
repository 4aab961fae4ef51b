-------------------------- MODULE FilteringProofs --------------------------
(***************************************************************************)
(* What Filter returns, for every sequence.  The proofs are by induction   *)
(* on the length: a set of natural numbers that is not empty has a least   *)
(* element, so a set with 0 and with every successor has them all.         *)
(***************************************************************************)
EXTENDS Filtering, WellFoundedInduction, SequenceTheorems, TLAPS

-----------------------------------------------------------------------------
(* Induction.                                                              *)

\* The pairs of the library's order on the natural numbers.
LEMMA LessThanPair ==
    ASSUME NEW T \in SUBSET Nat, NEW x \in T, NEW y \in T
    PROVE  <<y, x>> \in OpToRel(<, Nat) <=> y < x
<1>1. <<y, x>> \in Nat \X Nat
  OBVIOUS
<1>2. <<y, x>>[1] = y /\ <<y, x>>[2] = x
  OBVIOUS
<1>3. QED
  BY <1>1, <1>2, Zenon DEF OpToRel

\* A set of natural numbers that is not empty has a least element.
LEMMA NatLeast ==
    ASSUME NEW T \in SUBSET Nat, T # {}
    PROVE  \E m \in T : \A k \in T : m <= k
<1>1. PICK m \in T : \A k \in T : ~(<<k, m>> \in OpToRel(<, Nat))
  BY NatLessThanWellFounded, WFMin
<1>2. \A k \in T : ~(k < m)
  BY <1>1, LessThanPair
<1>3. \A k \in T : m <= k
  BY <1>2
<1>4. QED
  BY <1>3

\* Induction on the natural numbers, for a set instead of a predicate.
LEMMA NatSetInduction ==
    ASSUME NEW P \in SUBSET Nat, 0 \in P, \A n \in P : n + 1 \in P
    PROVE  \A n \in Nat : n \in P
<1> DEFINE T == Nat \ P
<1>1. SUFFICES ASSUME T # {}
               PROVE  FALSE
  OBVIOUS
<1>2. PICK m \in T : \A k \in T : m <= k
  BY <1>1, NatLeast
<1>3. m \in Nat /\ m # 0 /\ m \notin P
  BY <1>2
<1>4. m - 1 \in Nat /\ ~(m <= m - 1) /\ (m - 1) + 1 = m
  BY <1>3
<1>5. m - 1 \in P
  BY <1>2, <1>4
<1>6. QED
  BY <1>3, <1>4, <1>5

\* The numbers up to a successor.
LEMMA UpToSuccessor ==
    ASSUME NEW n \in Nat, NEW i \in 1..(n + 1)
    PROVE  i \in 1..n \/ i = n + 1
OBVIOUS

\* A sequence that is not empty is its beginning and its last element.
LEMMA FrontAndLast ==
    ASSUME NEW S, NEW s \in Seq(S), s # <<>>
    PROVE  \E front \in Seq(S), e \in S : /\ s = Append(front, e)
                                          /\ Len(front) + 1 = Len(s)
                                          /\ e = s[Len(s)]
                                          /\ front = SubSeq(s, 1, Len(s) - 1)
<1> DEFINE n == Len(s) - 1
           front == SubSeq(s, 1, n)
           e == s[Len(s)]
<1>1. /\ n \in Nat /\ n + 1 = Len(s) /\ n = Len(s) - 1
      /\ e \in S /\ e = s[n + 1]
  BY EmptySeq, ElementOfSeq
<1>2. /\ front \in Seq(S) /\ Len(front) = n
      /\ \A i \in 1..n : front[i] = s[i]
  <2>1. \A i \in 1..n : s[i] \in S
    BY <1>1
  <2>2. QED
    BY <1>1, <2>1, SubSeqProperties
<1>6. front = SubSeq(s, 1, Len(s) - 1) /\ e = s[Len(s)]
  OBVIOUS
<1> HIDE DEF front, n, e
<1>3. /\ Append(front, e) \in Seq(S)
      /\ Len(Append(front, e)) = n + 1
      /\ \A i \in 1..n : Append(front, e)[i] = front[i]
      /\ Append(front, e)[n + 1] = e
  <2>1. e \in S /\ front \in Seq(S) /\ Len(front) = n
    BY <1>1, <1>2
  <2>2. QED
    BY <2>1, AppendProperties
<1>4. ASSUME NEW i \in 1..Len(s)
      PROVE  Append(front, e)[i] = s[i]
  <2>1. i \in 1..(n + 1)
    BY <1>1, <1>4
  <2>2. i \in 1..n \/ i = n + 1
    BY <1>1, <2>1, UpToSuccessor
  <2>3. QED
    BY <1>1, <1>2, <1>3, <2>2
<1>5. Append(front, e) = s
  BY <1>1, <1>3, <1>4, SeqEqual
<1>7. QED
  BY <1>1, <1>2, <1>5, <1>6

\* Induction on the length of a sequence: what holds of the empty sequence
\* and is kept by Append holds of every sequence.
LEMMA SeqSetInduction ==
    ASSUME NEW S, NEW P, <<>> \in P,
           \A s \in Seq(S) : \A e \in S : s \in P => Append(s, e) \in P
    PROVE  \A s \in Seq(S) : s \in P
<1> DEFINE N == {n \in Nat : \A s \in Seq(S) : Len(s) = n => s \in P}
<1>1. 0 \in N
  BY EmptySeq
<1>2. ASSUME NEW n \in N
      PROVE  n + 1 \in N
  <2>1. ASSUME NEW s \in Seq(S), Len(s) = n + 1
        PROVE  s \in P
    <3>1. n \in Nat /\ \A t \in Seq(S) : Len(t) = n => t \in P
      BY <1>2
    <3>2. s # <<>>
      BY <2>1, <3>1, EmptySeq
    <3>3. PICK front \in Seq(S), e \in S : /\ s = Append(front, e)
                                           /\ Len(front) + 1 = Len(s)
      BY <3>2, FrontAndLast
    <3>4. Len(front) = n
      BY <2>1, <3>1, <3>3, LenProperties
    <3>5. QED
      BY <3>1, <3>3, <3>4
  <2>2. QED
    BY <1>2, <2>1
<1> HIDE DEF N
<1>3. \A n \in Nat : n \in N
  <2>1. N \in SUBSET Nat
    BY DEF N
  <2>2. QED
    BY <1>1, <1>2, <2>1, NatSetInduction
<1>4. QED
  BY <1>3, LenProperties DEF N

-----------------------------------------------------------------------------
(* The loop of Filter.                                                     *)

\* f is what the loop has kept after each of the first n elements of s.
KeepsUpTo(f, s, T, n) ==
    f = [i \in 0..n |->
            IF i = 0 THEN <<>>
            ELSE IF s[i] \in T THEN Append(f[i - 1], s[i]) ELSE f[i - 1]]

Loop(s, T) == CHOOSE f : KeepsUpTo(f, s, T, Len(s))

\* Filter returns what the loop has kept after the last element.
LEMMA FilterIsLoop ==
    ASSUME NEW s, NEW T
    PROVE  Filter(s, T) = Loop(s, T)[Len(s)]
BY DEF Filter, Loop, KeepsUpTo

\* The loop can be run as far as one wants.
LEMMA LoopExists ==
    ASSUME NEW s, NEW T, NEW n \in Nat
    PROVE  \E f : KeepsUpTo(f, s, T, n)
<1> DEFINE N == {m \in Nat : \E f : KeepsUpTo(f, s, T, m)}
<1>1. 0 \in N
  <2>1. KeepsUpTo([i \in 0..0 |-> <<>>], s, T, 0)
    BY DEF KeepsUpTo
  <2>2. QED
    BY <2>1
<1>2. ASSUME NEW m \in N
      PROVE  m + 1 \in N
  <2>1. m \in Nat
    BY <1>2
  <2>2. PICK f : KeepsUpTo(f, s, T, m)
    BY <1>2
  <2> DEFINE next == IF s[m + 1] \in T THEN Append(f[m], s[m + 1]) ELSE f[m]
             g == [i \in 0..(m + 1) |-> IF i = m + 1 THEN next ELSE f[i]]
  <2>3. ASSUME NEW i \in 0..(m + 1)
        PROVE  g[i] = IF i = 0 THEN <<>>
                      ELSE IF s[i] \in T THEN Append(g[i - 1], s[i])
                                          ELSE g[i - 1]
    <3>1. CASE i = m + 1
      <4>1. i # 0 /\ i - 1 = m /\ m \in 0..(m + 1) /\ m # m + 1
        BY <2>1, <3>1
      <4>2. g[i - 1] = f[m] /\ g[i] = next
        BY <3>1, <4>1
      <4>3. QED
        BY <3>1, <4>1, <4>2
    <3>2. CASE i # m + 1
      <4>1. i \in 0..m
        BY <2>1, <2>3, <3>2
      <4>2. f[i] = IF i = 0 THEN <<>>
                   ELSE IF s[i] \in T THEN Append(f[i - 1], s[i])
                                       ELSE f[i - 1]
        BY <2>2, <4>1 DEF KeepsUpTo
      <4>3. g[i] = f[i]
        BY <3>2
      <4>4. i # 0 => g[i - 1] = f[i - 1]
        <5>1. i # 0 => i - 1 \in 0..(m + 1) /\ i - 1 # m + 1
          BY <2>1, <4>1
        <5>2. QED
          BY <5>1
      <4>5. QED
        BY <4>2, <4>3, <4>4
    <3>3. QED
      BY <3>1, <3>2
  <2>4. KeepsUpTo(g, s, T, m + 1)
    BY <2>3 DEF KeepsUpTo
  <2>5. QED
    BY <2>1, <2>4
<1> HIDE DEF N
<1>3. n \in N
  <2>1. N \in SUBSET Nat
    BY DEF N
  <2>2. QED
    BY <1>1, <1>2, <2>1, NatSetInduction
<1>4. QED
  BY <1>3 DEF N

\* Each round of the loop keeps its element or not.
LEMMA LoopRounds ==
    ASSUME NEW S, NEW s \in Seq(S), NEW T
    PROVE  /\ Loop(s, T)[0] = <<>>
           /\ \A i \in 1..Len(s) :
                Loop(s, T)[i] = IF s[i] \in T
                                THEN Append(Loop(s, T)[i - 1], s[i])
                                ELSE Loop(s, T)[i - 1]
<1> DEFINE f == Loop(s, T)
<1>1. KeepsUpTo(f, s, T, Len(s))
  <2>1. \E g : KeepsUpTo(g, s, T, Len(s))
    BY LoopExists, LenProperties
  <2>2. QED
    BY <2>1 DEF Loop
<1> HIDE DEF f
<1>2. Len(s) \in Nat
  OBVIOUS
<1>3. \A i \in 0..Len(s) :
        f[i] = IF i = 0 THEN <<>>
               ELSE IF s[i] \in T THEN Append(f[i - 1], s[i]) ELSE f[i - 1]
  BY <1>1 DEF KeepsUpTo
<1>4. f[0] = <<>>
  BY <1>2, <1>3
<1>5. \A i \in 1..Len(s) : f[i] = IF s[i] \in T
                                  THEN Append(f[i - 1], s[i]) ELSE f[i - 1]
  BY <1>2, <1>3
<1>6. QED
  BY <1>4, <1>5 DEF f

\* Nothing is kept before the first round.
LEMMA LoopStart ==
    ASSUME NEW S, NEW s \in Seq(S), NEW T
    PROVE  Loop(s, T)[0] = <<>>
BY LoopRounds

\* An element more at the end does not change the rounds before it.
LEMMA LoopOfAppend ==
    ASSUME NEW S, NEW s \in Seq(S), NEW e \in S, NEW T, NEW n \in 0..Len(s)
    PROVE  Loop(Append(s, e), T)[n] = Loop(s, T)[n]
<1> DEFINE f == Loop(s, T)
           g == Loop(Append(s, e), T)
           N == {m \in Nat : m <= Len(s) => g[m] = f[m]}
<1>1. /\ Append(s, e) \in Seq(S)
      /\ Len(Append(s, e)) = Len(s) + 1
      /\ \A i \in 1..Len(s) : Append(s, e)[i] = s[i]
      /\ Len(s) \in Nat
  BY AppendProperties
<1>2. /\ f[0] = <<>> /\ g[0] = <<>>
      /\ \A i \in 1..Len(s) :
            f[i] = IF s[i] \in T THEN Append(f[i - 1], s[i]) ELSE f[i - 1]
      /\ \A i \in 1..Len(s) :
            g[i] = IF s[i] \in T THEN Append(g[i - 1], s[i]) ELSE g[i - 1]
  <2>1. \A i \in 1..Len(s) : i \in 1..Len(Append(s, e))
    BY <1>1
  <2>2. /\ g[0] = <<>>
        /\ \A i \in 1..Len(Append(s, e)) :
                g[i] = IF Append(s, e)[i] \in T
                       THEN Append(g[i - 1], Append(s, e)[i]) ELSE g[i - 1]
    <3> DEFINE t == Append(s, e)
    <3>1. t \in Seq(S)
      BY <1>1
    <3> HIDE DEF t
    <3>2. /\ Loop(t, T)[0] = <<>>
          /\ \A i \in 1..Len(t) :
                Loop(t, T)[i] = IF t[i] \in T THEN Append(Loop(t, T)[i - 1], t[i])
                                              ELSE Loop(t, T)[i - 1]
      BY <3>1, LoopRounds
    <3>3. QED
      BY <3>2 DEF t
  <2>3. /\ f[0] = <<>>
        /\ \A i \in 1..Len(s) :
                f[i] = IF s[i] \in T
                       THEN Append(f[i - 1], s[i]) ELSE f[i - 1]
    BY LoopRounds
  <2> HIDE DEF f, g
  <2>4. QED
    BY <1>1, <2>1, <2>2, <2>3
<1> HIDE DEF f, g
<1>3. 0 \in N
  BY <1>2
<1>4. ASSUME NEW m \in N
      PROVE  m + 1 \in N
  <2>1. m \in Nat
    BY <1>4
  <2>2. ASSUME m + 1 <= Len(s)
        PROVE  g[m + 1] = f[m + 1]
    <3>1. m + 1 \in 1..Len(s) /\ (m + 1) - 1 = m /\ m <= Len(s)
      BY <1>1, <2>1, <2>2
    <3>2. g[m] = f[m]
      BY <1>4, <3>1
    <3>3. QED
      BY <1>2, <3>1, <3>2
  <2>3. QED
    BY <2>1, <2>2
<1> HIDE DEF N
<1>5. n \in N
  <2>1. N \in SUBSET Nat
    BY DEF N
  <2>2. n \in Nat
    OBVIOUS
  <2>3. QED
    BY <1>3, <1>4, <2>1, <2>2, NatSetInduction
<1>6. n <= Len(s)
  BY <1>1
<1>7. QED
  BY <1>5, <1>6 DEF N, f, g

-----------------------------------------------------------------------------
(* What Filter returns.                                                    *)

\* Nothing is kept of nothing.
LEMMA FilterEmpty ==
    ASSUME NEW T
    PROVE  Filter(<<>>, T) = <<>>
<1> DEFINE none == <<>>
           nothing == {}
<1>1. none \in Seq(nothing) /\ Len(none) = 0
  BY EmptySeq
<1> HIDE DEF none, nothing
<1>2. Loop(none, T)[0] = <<>>
  BY <1>1, LoopStart
<1>3. Filter(none, T) = <<>>
  BY <1>1, <1>2, FilterIsLoop
<1>4. QED
  BY <1>3 DEF none

\* One element more at the end is kept at the end, or not.
LEMMA FilterAppend ==
    ASSUME NEW S, NEW s \in Seq(S), NEW e \in S, NEW T
    PROVE  Filter(Append(s, e), T) = IF e \in T THEN Append(Filter(s, T), e)
                                                ELSE Filter(s, T)
<1> DEFINE t == Append(s, e)
<1>1. /\ t \in Seq(S)
      /\ Len(t) = Len(s) + 1
      /\ t[Len(s) + 1] = e
      /\ Len(s) \in Nat
  BY AppendProperties
<1>2. Loop(t, T)[Len(s)] = Loop(s, T)[Len(s)]
  BY <1>1, LoopOfAppend
<1> HIDE DEF t
<1>3. Loop(t, T)[Len(t)] = IF t[Len(t)] \in T
                           THEN Append(Loop(t, T)[Len(t) - 1], t[Len(t)])
                           ELSE Loop(t, T)[Len(t) - 1]
  <2>1. Len(t) \in 1..Len(t)
    BY <1>1
  <2>2. QED
    BY <1>1, <2>1, LoopRounds
<1>4. Len(t) - 1 = Len(s) /\ t[Len(t)] = e
  BY <1>1
<1>5. Filter(t, T) = Loop(t, T)[Len(t)] /\ Filter(s, T) = Loop(s, T)[Len(s)]
  BY FilterIsLoop
<1>6. QED
  BY <1>2, <1>3, <1>4, <1>5 DEF t

\* One element more, at the end.
LEMMA RangeOfAppend ==
    ASSUME NEW S, NEW s \in Seq(S), NEW e \in S
    PROVE  Range(Append(s, e)) = Range(s) \cup {e}
<1> DEFINE u == Append(s, e)
           n == Len(s)
<1>1. /\ u \in Seq(S) /\ Len(u) = n + 1 /\ n \in Nat
      /\ \A i \in 1..n : u[i] = s[i]
      /\ u[n + 1] = e
      /\ DOMAIN u = 1..(n + 1) /\ DOMAIN s = 1..n
  BY AppendProperties
<1> HIDE DEF u, n
<1>2. ASSUME NEW i \in DOMAIN u
      PROVE  u[i] \in Range(s) \cup {e}
  <2>1. i \in 1..n \/ i = n + 1
    BY <1>1, <1>2, UpToSuccessor
  <2>2. QED
    BY <1>1, <2>1 DEF Range
<1>3. ASSUME NEW i \in DOMAIN s
      PROVE  s[i] \in Range(u)
  <2>1. i \in DOMAIN u /\ u[i] = s[i]
    BY <1>1, <1>3
  <2>2. QED
    BY <2>1 DEF Range
<1>4. e \in Range(u)
  <2>1. n + 1 \in DOMAIN u
    BY <1>1
  <2>2. QED
    BY <1>1, <2>1 DEF Range
<1>5. Range(u) = Range(s) \cup {e}
  BY <1>2, <1>3, <1>4 DEF Range
<1>6. QED
  BY <1>5 DEF u

\* What is kept are elements of the sequence that are in the set.
LEMMA FilterType ==
    ASSUME NEW S, NEW T, NEW s \in Seq(S)
    PROVE  Filter(s, T) \in Seq(S \cap T)
<1> DEFINE P == {t \in Seq(S) : Filter(t, T) \in Seq(S \cap T)}
<1>1. <<>> \in P
  BY FilterEmpty, EmptySeq
<1>2. ASSUME NEW t \in Seq(S), NEW e \in S, t \in P
      PROVE  Append(t, e) \in P
  <2> DEFINE r == Filter(t, T)
  <2>1. r \in Seq(S \cap T)
    BY <1>2
  <2>2. Filter(Append(t, e), T) = IF e \in T THEN Append(r, e) ELSE r
    BY <1>2, FilterAppend
  <2> HIDE DEF r
  <2>3. Append(t, e) \in Seq(S)
    BY <1>2, AppendProperties
  <2>4. CASE e \in T
    <3>1. Append(r, e) \in Seq(S \cap T)
      BY <2>1, <2>4, AppendProperties
    <3>2. QED
      BY <2>1, <2>2, <2>3, <2>4, <3>1
  <2>5. CASE e \notin T
    BY <2>1, <2>2, <2>3, <2>5
  <2>6. QED
    BY <2>4, <2>5
<1> HIDE DEF P
<1>3. s \in P
  BY <1>1, <1>2, SeqSetInduction
<1>4. QED
  BY <1>3 DEF P

\* Where everything is in the set, everything is kept.
LEMMA FilterAll ==
    ASSUME NEW S, NEW T, S \subseteq T, NEW s \in Seq(S)
    PROVE  Filter(s, T) = s
<1> DEFINE P == {t \in Seq(S) : Filter(t, T) = t}
<1>1. <<>> \in P
  BY FilterEmpty
<1>2. ASSUME NEW t \in Seq(S), NEW e \in S, t \in P
      PROVE  Append(t, e) \in P
  <2>1. Filter(Append(t, e), T) = Append(t, e)
    BY <1>2, FilterAppend
  <2>2. QED
    BY <2>1, AppendProperties
<1> HIDE DEF P
<1>3. s \in P
  BY <1>1, <1>2, SeqSetInduction
<1>4. QED
  BY <1>3 DEF P

\* What is kept are the elements that are in the set, all of them.
LEMMA FilterRange ==
    ASSUME NEW S, NEW T, NEW s \in Seq(S)
    PROVE  Range(Filter(s, T)) = Range(s) \cap T
<1> DEFINE P == {t \in Seq(S) : Range(Filter(t, T)) = Range(t) \cap T}
<1>1. <<>> \in P
  BY FilterEmpty, EmptySeq DEF Range
<1>2. ASSUME NEW t \in Seq(S), NEW e \in S, t \in P
      PROVE  Append(t, e) \in P
  <2> DEFINE r == Filter(t, T)
  <2>1. r \in Seq(S \cap T) /\ Range(r) = Range(t) \cap T
    BY <1>2, FilterType
  <2>2. Filter(Append(t, e), T) = IF e \in T THEN Append(r, e) ELSE r
    BY <1>2, FilterAppend
  <2> HIDE DEF r
  <2>3. /\ Append(t, e) \in Seq(S)
        /\ Range(Append(t, e)) = Range(t) \cup {e}
    BY <1>2, RangeOfAppend, AppendProperties
  <2>4. CASE e \in T
    <3>1. Range(Append(r, e)) = Range(r) \cup {e}
      BY <1>2, <2>1, <2>4, RangeOfAppend
    <3>2. QED
      BY <2>1, <2>2, <2>3, <2>4, <3>1
  <2>5. CASE e \notin T
    BY <2>1, <2>2, <2>3, <2>5
  <2>6. QED
    BY <2>4, <2>5
<1> HIDE DEF P
<1>3. s \in P
  BY <1>1, <1>2, SeqSetInduction
<1>4. QED
  BY <1>3 DEF P

\* Each element of s is related to every later one.
Ordered(s, R) ==
    \A i, j \in DOMAIN s : i < j => <<s[i], s[j]>> \in R

\* An ordered sequence stays ordered by one more element that all the others
\* are related to, and only by one.
LEMMA OrderedAppend ==
    ASSUME NEW S, NEW s \in Seq(S), NEW e \in S, NEW R
    PROVE  Ordered(Append(s, e), R) <=>
            Ordered(s, R) /\ \A x \in Range(s) : <<x, e>> \in R
<1> DEFINE u == Append(s, e)
           n == Len(s)
<1>1. /\ u \in Seq(S) /\ Len(u) = n + 1 /\ n \in Nat
      /\ \A i \in 1..n : u[i] = s[i]
      /\ u[n + 1] = e
      /\ DOMAIN u = 1..(n + 1) /\ DOMAIN s = 1..n
  BY AppendProperties
<1>2. Range(s) = {s[i] : i \in 1..n}
  BY <1>1 DEF Range
<1> HIDE DEF u, n
<1>3. ASSUME Ordered(u, R)
      PROVE  Ordered(s, R) /\ \A x \in Range(s) : <<x, e>> \in R
  <2>1. ASSUME NEW i \in DOMAIN s, NEW j \in DOMAIN s, i < j
        PROVE  <<s[i], s[j]>> \in R
    <3>1. i \in DOMAIN u /\ j \in DOMAIN u /\ u[i] = s[i] /\ u[j] = s[j]
      BY <1>1, <2>1
    <3>2. QED
      BY <1>3, <2>1, <3>1 DEF Ordered
  <2>2. ASSUME NEW i \in 1..n
        PROVE  <<s[i], e>> \in R
    <3>1. i \in DOMAIN u /\ n + 1 \in DOMAIN u /\ i < n + 1
      BY <1>1, <2>2
    <3>2. QED
      BY <1>1, <1>3, <2>2, <3>1 DEF Ordered
  <2>3. QED
    BY <1>2, <2>1, <2>2 DEF Ordered
<1>4. ASSUME Ordered(s, R), \A x \in Range(s) : <<x, e>> \in R
      PROVE  Ordered(u, R)
  <2>1. ASSUME NEW i \in 1..(n + 1), NEW j \in 1..(n + 1), i < j
        PROVE  <<u[i], u[j]>> \in R
    <3>1. i \in 1..n
      BY <1>1, <2>1
    <3>2. CASE j = n + 1
      BY <1>1, <1>2, <1>4, <3>1, <3>2
    <3>3. CASE j \in 1..n
      BY <1>1, <1>4, <2>1, <3>1, <3>3 DEF Ordered
    <3>4. QED
      BY <1>1, <2>1, <3>2, <3>3, UpToSuccessor
  <2>2. QED
    BY <1>1, <2>1 DEF Ordered
<1>5. QED
  BY <1>3, <1>4 DEF u

\* Filter keeps the order.
LEMMA FilterOrdered ==
    ASSUME NEW S, NEW T, NEW R, NEW s \in Seq(S), Ordered(s, R)
    PROVE  Ordered(Filter(s, T), R)
<1> DEFINE P == {t \in Seq(S) : Ordered(t, R) => Ordered(Filter(t, T), R)}
<1>1. <<>> \in P
  <2>1. Ordered(<<>>, R)
    BY DEF Ordered
  <2>2. Ordered(Filter(<<>>, T), R)
    BY <2>1, FilterEmpty
  <2>3. QED
    BY <2>2, EmptySeq
<1>2. ASSUME NEW t \in Seq(S), NEW e \in S, t \in P
      PROVE  Append(t, e) \in P
  <2> DEFINE r == Filter(t, T)
  <2>1. /\ r \in Seq(S \cap T) /\ Range(r) = Range(t) \cap T
        /\ Ordered(t, R) => Ordered(r, R)
    BY <1>2, FilterType, FilterRange
  <2>2. Filter(Append(t, e), T) = IF e \in T THEN Append(r, e) ELSE r
    BY <1>2, FilterAppend
  <2> HIDE DEF r
  <2>3. Append(t, e) \in Seq(S)
    BY <1>2, AppendProperties
  <2>4. Ordered(Append(t, e), R) =>
            Ordered(t, R) /\ \A x \in Range(t) : <<x, e>> \in R
    BY <1>2, OrderedAppend
  <2>5. r \in Seq(S)
    BY <2>1, SeqMonotonic
  <2>6. Ordered(Append(r, e), R) <=>
            Ordered(r, R) /\ \A x \in Range(r) : <<x, e>> \in R
    BY <1>2, <2>5, OrderedAppend
  <2>7. QED
    BY <2>1, <2>2, <2>3, <2>4, <2>6
<1> HIDE DEF P
<1>3. s \in P
  BY <1>1, <1>2, SeqSetInduction
<1>4. QED
  BY <1>3 DEF P

=============================================================================
