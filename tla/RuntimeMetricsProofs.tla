-------------------------- MODULE RuntimeMetricsProofs --------------------------
(***************************************************************************)
(* Proofs about the metrics of the server, for any number of processes,    *)
(* records and retention threads, and any sizes of lines, file and window. *)
(***************************************************************************)
EXTENDS RuntimeMetrics, SequenceTheorems, FiniteSetTheorems, WellFoundedInduction, TLAPS

--------------------------------------------------------------------------------
(***************************************************************************)
(* Induction up to a number, for a set: what is in the set from 0 on.      *)
(***************************************************************************)
Less == {ss \in Nat \X Nat : ss[1] < ss[2]}

LEMMA LessIsWellFounded == IsWellFoundedOn(Less, Nat)
    BY NatLessThanWellFounded DEF OpToRel, Less

\* A set of numbers that is not empty has a least member.
LEMMA Least ==
    ASSUME NEW S \in SUBSET Nat, S # {}
    PROVE  \E n \in S : \A m \in S : n <= m
<1>1. PICK n \in S : \A m \in S : ~ (<<m, n>> \in Less)
    BY WFMin, LessIsWellFounded
<1>2. ASSUME NEW m \in S
      PROVE  n <= m
  <2>1. m \in Nat /\ n \in Nat /\ ~ (<<m, n>> \in Less)
    BY <1>1
  <2>2. m < n => <<m, n>> \in Less
    BY <2>1 DEF Less
  <2> QED
    BY <2>1, <2>2
<1> QED
    BY <1>2

LEMMA InductionUpTo ==
    ASSUME NEW N \in Nat, NEW T, 0 \in T, \A n \in 0..N : n \in T /\ n < N => n + 1 \in T
    PROVE  \A n \in 0..N : n \in T
<1> DEFINE C == {n \in 0..N : n \notin T}
<1> SUFFICES ASSUME C # {} PROVE FALSE
    OBVIOUS
<1>1. PICK n \in C : \A m \in C : n <= m
  <2>1. C \in SUBSET Nat
    OBVIOUS
  <2> HIDE DEF C
  <2> QED
    BY <2>1, Least
<1>2. n \in Nat /\ n # 0 /\ n - 1 \in 0..N /\ n - 1 < N /\ n - 1 + 1 = n
    OBVIOUS
<1>3. n - 1 \in C
    BY <1>2
<1> QED
    BY <1>1, <1>2, <1>3

--------------------------------------------------------------------------------
(***************************************************************************)
(* What a file takes, and which of its lines parse                        *)
(***************************************************************************)
\* Parts of lines.
Part == {Torn, Broken}

Token == Records \cup {LineFeed} \cup Part

WeightOf(t) == IF t \in Records THEN Weight[t] ELSE 0

LEMMA WeightFacts == \A t : WeightOf(t) \in Nat
    BY RuntimeMetricsAssumption DEF WeightOf

SumUpTo(f, g, n) == g = [i \in 0..n |-> IF i = 0 THEN 0 ELSE g[i - 1] + WeightOf(f[i])]

ReadUpTo(f, g, n) ==
    g = [i \in 0..n |-> IF i = 0 THEN <<>>
                        ELSE IF Parses(f, i) THEN Append(g[i - 1], f[i]) ELSE g[i - 1]]

LEMMA SumExists ==
    ASSUME NEW f, NEW N \in Nat
    PROVE  \E g : SumUpTo(f, g, N)
<1> DEFINE T == {n \in 0..N : \E g : SumUpTo(f, g, n)}
<1>1. 0 \in T
  <2>1. SumUpTo(f, [i \in 0..0 |-> 0], 0)
    BY DEF SumUpTo
  <2> QED
    BY <2>1
<1>2. ASSUME NEW n \in 0..N, n \in T, n < N
      PROVE  n + 1 \in T
  <2>1. PICK g : SumUpTo(f, g, n)
    BY <1>2
  <2> DEFINE h == [i \in 0..(n + 1) |-> IF i <= n THEN g[i] ELSE g[n] + WeightOf(f[n + 1])]
  <2>2. \A i \in 0..(n + 1) : h[i] = IF i = 0 THEN 0 ELSE h[i - 1] + WeightOf(f[i])
    <3> SUFFICES ASSUME NEW i \in 0..(n + 1)
                 PROVE  h[i] = IF i = 0 THEN 0 ELSE h[i - 1] + WeightOf(f[i])
      OBVIOUS
    <3>1. CASE i <= n
      <4>1. i \in 0..n /\ h[i] = g[i]
        BY <3>1
      <4>2. g[i] = IF i = 0 THEN 0 ELSE g[i - 1] + WeightOf(f[i])
        BY <4>1, <2>1 DEF SumUpTo
      <4>3. i # 0 => h[i - 1] = g[i - 1]
        BY <3>1
      <4> QED
        BY <4>1, <4>2, <4>3
    <3>2. CASE i = n + 1
      BY <3>2
    <3> QED
      BY <3>1, <3>2
  <2>3. SumUpTo(f, h, n + 1)
    BY <2>2 DEF SumUpTo
  <2> HIDE DEF h
  <2> QED
    BY <1>2, <2>3
<1> HIDE DEF T
<1>3. N \in T
    BY <1>1, <1>2, InductionUpTo
<1> QED
    BY <1>3 DEF T

LEMMA ReadExists ==
    ASSUME NEW f, NEW N \in Nat
    PROVE  \E g : ReadUpTo(f, g, N)
<1> DEFINE T == {n \in 0..N : \E g : ReadUpTo(f, g, n)}
<1>1. 0 \in T
  <2>1. ReadUpTo(f, [i \in 0..0 |-> <<>>], 0)
    BY DEF ReadUpTo
  <2> QED
    BY <2>1
<1>2. ASSUME NEW n \in 0..N, n \in T, n < N
      PROVE  n + 1 \in T
  <2>1. PICK g : ReadUpTo(f, g, n)
    BY <1>2
  <2> DEFINE step(k, i) == IF Parses(f, i) THEN Append(k, f[i]) ELSE k
             h == [i \in 0..(n + 1) |-> IF i <= n THEN g[i] ELSE step(g[n], n + 1)]
  <2> HIDE DEF step
  <2>2. \A i \in 0..(n + 1) : h[i] = IF i = 0 THEN <<>> ELSE step(h[i - 1], i)
    <3> SUFFICES ASSUME NEW i \in 0..(n + 1)
                 PROVE  h[i] = IF i = 0 THEN <<>> ELSE step(h[i - 1], i)
      OBVIOUS
    <3>1. CASE i <= n
      <4>1. i \in 0..n /\ h[i] = g[i]
        BY <3>1
      <4>2. g[i] = IF i = 0 THEN <<>> ELSE step(g[i - 1], i)
        BY <4>1, <2>1 DEF ReadUpTo, step
      <4>3. i # 0 => h[i - 1] = g[i - 1]
        BY <3>1
      <4> QED
        BY <4>1, <4>2, <4>3
    <3>2. CASE i = n + 1
      BY <3>2
    <3> QED
      BY <3>1, <3>2
  <2>3. ReadUpTo(f, h, n + 1)
    BY <2>2 DEF ReadUpTo, step
  <2> HIDE DEF h
  <2> QED
    BY <1>2, <2>3
<1> HIDE DEF T
<1>3. N \in T
    BY <1>1, <1>2, InductionUpTo
<1> QED
    BY <1>3 DEF T

LEMMA SizeUnfolds ==
    ASSUME NEW f, Len(f) \in Nat
    PROVE  \E g : SumUpTo(f, g, Len(f)) /\ Size(f) = g[Len(f)]
<1> DEFINE g == CHOOSE h : SumUpTo(f, h, Len(f))
<1>1. SumUpTo(f, g, Len(f))
    BY SumExists
<1>2. Size(f) = g[Len(f)]
    BY DEF Size, SumUpTo, WeightOf
<1> QED
    BY <1>1, <1>2

LEMMA WholeUnfolds ==
    ASSUME NEW f, Len(f) \in Nat
    PROVE  \E g : ReadUpTo(f, g, Len(f)) /\ Whole(f) = g[Len(f)]
<1> DEFINE g == CHOOSE h : ReadUpTo(f, h, Len(f))
<1>1. ReadUpTo(f, g, Len(f))
    BY ReadExists
<1>2. Whole(f) = g[Len(f)]
    BY DEF Whole, ReadUpTo
<1> QED
    BY <1>1, <1>2

LEMMA SizeFacts ==
    ASSUME NEW f \in Seq(Token), NEW t \in Token
    PROVE  /\ Size(f) \in Nat
           /\ Size(<<>>) = 0
           /\ Size(Append(f, t)) = Size(f) + WeightOf(t)
<1>n. PICK N : N = Len(f)
    OBVIOUS
<1>a. PICK a : a = Append(f, t)
    OBVIOUS
<1>0. N \in Nat /\ Len(a) \in Nat /\ Len(a) = N + 1
    BY <1>n, <1>a
<1>1. (\A i \in 1..N : a[i] = f[i]) /\ a[N + 1] = t
    BY <1>n, <1>a
<1>2. PICK g : SumUpTo(f, g, N) /\ Size(f) = g[N]
    BY <1>n, <1>0, SizeUnfolds
<1>3. PICK h : SumUpTo(a, h, N + 1) /\ Size(a) = h[N + 1]
  <2>1. \E h : SumUpTo(a, h, Len(a)) /\ Size(a) = h[Len(a)]
    BY <1>0, SizeUnfolds
  <2> QED
    BY <1>0, <2>1
<1>4. /\ \A i \in 0..N : g[i] = IF i = 0 THEN 0 ELSE g[i - 1] + WeightOf(f[i])
      /\ \A i \in 0..(N + 1) : h[i] = IF i = 0 THEN 0 ELSE h[i - 1] + WeightOf(a[i])
    BY <1>2, <1>3 DEF SumUpTo
<1> DEFINE T == {n \in 0..N : g[n] \in Nat /\ h[n] = g[n]}
<1>5. 0 \in T
    BY <1>0, <1>1, <1>4
<1>6. ASSUME NEW n \in 0..N, n \in T, n < N
      PROVE  n + 1 \in T
  <2>1. n + 1 \in 1..N /\ n + 1 - 1 = n /\ n + 1 \in 0..(N + 1)
    BY <1>0, <1>1, <1>6
  <2>2. g[n + 1] = g[n] + WeightOf(f[n + 1]) /\ h[n + 1] = h[n] + WeightOf(f[n + 1])
    BY <1>0, <1>1, <1>4, <2>1
  <2> QED
    BY <1>6, <2>1, <2>2, WeightFacts
<1> HIDE DEF T
<1>7. N \in T
    BY <1>0, <1>5, <1>6, InductionUpTo
<1>8. g[N] \in Nat /\ h[N] = g[N]
    BY <1>7 DEF T
<1>9. h[N + 1] = h[N] + WeightOf(t)
    BY <1>0, <1>1, <1>4
<1>10. Size(<<>>) = 0
  <2>1. PICK e : SumUpTo(<<>>, e, 0) /\ Size(<<>>) = e[0]
    <3>1. Len(<<>>) = 0
      OBVIOUS
    <3> QED
      BY <3>1, SizeUnfolds
  <2>2. e[0] = 0
    BY <2>1 DEF SumUpTo
  <2> QED
    BY <2>1, <2>2
<1> QED
    BY <1>a, <1>2, <1>3, <1>8, <1>9, <1>10

\* Whether a line parses depends on what is next to it.
LEMMA ParsesNext ==
    ASSUME NEW f \in Seq(Token), NEW t \in Token, NEW i \in DOMAIN f,
           t = LineFeed \/ f[Len(f)] = LineFeed
    PROVE  Parses(Append(f, t), i) <=> Parses(f, i)
<1>1. PICK a : a = Append(f, t)
    OBVIOUS
<1>2. /\ Len(f) \in Nat /\ Len(a) = Len(f) + 1 /\ a[Len(f) + 1] = t
      /\ \A j \in 1..Len(f) : a[j] = f[j]
      /\ i \in 1..Len(f) /\ (i # 1 => i - 1 \in 1..Len(f)) /\ (i # Len(f) => i + 1 \in 1..Len(f))
    BY <1>1
<1>3. LineFeed \notin Records
    BY RuntimeMetricsAssumption
<1>4. a[i] = f[i] /\ (i # 1 => a[i - 1] = f[i - 1]) /\ (i # Len(f) => a[i + 1] = f[i + 1])
    BY <1>2
<1>5. CASE i = Len(f)
    BY <1>1, <1>2, <1>3, <1>4, <1>5 DEF Parses
<1>6. CASE i # Len(f)
    BY <1>1, <1>2, <1>4, <1>6 DEF Parses
<1> QED
    BY <1>5, <1>6

LEMMA WholeFacts ==
    ASSUME NEW f \in Seq(Token), NEW t \in Token
    PROVE  /\ Whole(f) \in Seq(Records)
           /\ Whole(<<>>) = <<>>
           /\ t = LineFeed => Whole(Append(f, t)) = Whole(f)
           /\ t \in Records /\ (f = <<>> \/ f[Len(f)] = LineFeed)
                => Whole(Append(f, t)) = Append(Whole(f), t)
<1>n. PICK N : N = Len(f)
    OBVIOUS
<1>a. PICK a : a = Append(f, t)
    OBVIOUS
<1>0. N \in Nat /\ Len(a) \in Nat /\ Len(a) = N + 1
    BY <1>n, <1>a
<1>1. (\A i \in 1..N : a[i] = f[i]) /\ a[N + 1] = t
    BY <1>n, <1>a
<1>2. PICK g : ReadUpTo(f, g, N) /\ Whole(f) = g[N]
    BY <1>n, <1>0, WholeUnfolds
<1>3. PICK h : ReadUpTo(a, h, N + 1) /\ Whole(a) = h[N + 1]
  <2>1. \E h : ReadUpTo(a, h, Len(a)) /\ Whole(a) = h[Len(a)]
    BY <1>0, WholeUnfolds
  <2> QED
    BY <1>0, <2>1
<1>4. \A i \in 1..N : t = LineFeed \/ f[N] = LineFeed => (Parses(a, i) <=> Parses(f, i))
    BY <1>n, <1>a, <1>0, ParsesNext
<1>5. \A i \in 1..N : Parses(f, i) => f[i] \in Records
    BY DEF Parses
<1>6. /\ t = LineFeed => ~ Parses(a, N + 1)
      /\ t \in Records /\ (N = 0 \/ f[N] = LineFeed) => Parses(a, N + 1)
    BY <1>0, <1>1, RuntimeMetricsAssumption DEF Parses
<1>7. f = <<>> => N = 0
    BY <1>n
<1>8. /\ \A i \in 0..N : g[i] = IF i = 0 THEN <<>>
                                ELSE IF Parses(f, i) THEN Append(g[i - 1], f[i]) ELSE g[i - 1]
      /\ \A i \in 0..(N + 1) : h[i] = IF i = 0 THEN <<>>
                                      ELSE IF Parses(a, i) THEN Append(h[i - 1], a[i])
                                           ELSE h[i - 1]
    BY <1>2, <1>3, Zenon DEF ReadUpTo
<1> DEFINE T == {n \in 0..N : /\ g[n] \in Seq(Records)
                              /\ N = 0 \/ t = LineFeed \/ f[N] = LineFeed => h[n] = g[n]}
<1>9. 0 \in T
  <2>1. 0 \in 0..N /\ 0 \in 0..(N + 1)
    BY <1>0, <1>1
  <2>2. g[0] = <<>> /\ h[0] = <<>>
    BY <1>8, <2>1
  <2>3. <<>> \in Seq(Records)
    OBVIOUS
  <2> QED
    BY <2>1, <2>2, <2>3
<1>10. ASSUME NEW n \in 0..N, n \in T, n < N
       PROVE  n + 1 \in T
  <2>1. n + 1 \in 1..N /\ n + 1 - 1 = n /\ n + 1 \in 0..(N + 1) /\ n + 1 \in 0..N /\ n + 1 # 0
    BY <1>0, <1>1, <1>10
  <2>2. g[n + 1] = IF Parses(f, n + 1) THEN Append(g[n], f[n + 1]) ELSE g[n]
    BY <1>8, <2>1
  <2>3. h[n + 1] = IF Parses(a, n + 1) THEN Append(h[n], f[n + 1]) ELSE h[n]
    BY <1>0, <1>1, <1>8, <2>1
  <2>4. g[n + 1] \in Seq(Records)
    BY <1>5, <1>10, <2>1, <2>2
  <2>5. ASSUME N = 0 \/ t = LineFeed \/ f[N] = LineFeed
        PROVE  h[n + 1] = g[n + 1]
    BY <1>0, <1>1, <1>4, <1>10, <2>1, <2>2, <2>3, <2>5
  <2> QED
    BY <2>1, <2>4, <2>5
<1> HIDE DEF T
<1>11. N \in T
    BY <1>0, <1>9, <1>10, InductionUpTo
<1>12. g[N] \in Seq(Records) /\ (N = 0 \/ t = LineFeed \/ f[N] = LineFeed => h[N] = g[N])
    BY <1>0, <1>11 DEF T
<1>13. h[N + 1] = IF Parses(a, N + 1) THEN Append(h[N], t) ELSE h[N]
  <2>1. N + 1 \in 0..(N + 1) /\ N + 1 # 0 /\ N + 1 - 1 = N
    BY <1>0, <1>1
  <2> QED
    BY <1>0, <1>1, <1>8, <2>1
<1>14. Whole(<<>>) = <<>>
  <2>1. PICK e : ReadUpTo(<<>>, e, 0) /\ Whole(<<>>) = e[0]
    <3>1. Len(<<>>) = 0
      OBVIOUS
    <3> QED
      BY <3>1, WholeUnfolds
  <2>2. e[0] = <<>>
    BY <2>1 DEF ReadUpTo
  <2> QED
    BY <2>1, <2>2
<1>15. t = LineFeed => Whole(a) = Whole(f)
    BY <1>2, <1>3, <1>6, <1>12, <1>13
<1>16. ASSUME t \in Records, f = <<>> \/ f[N] = LineFeed
       PROVE  Whole(a) = Append(Whole(f), t)
    BY <1>2, <1>3, <1>6, <1>7, <1>12, <1>13, <1>16
<1> QED
    BY <1>n, <1>a, <1>2, <1>12, <1>14, <1>15, <1>16

\* Lines that are written in one piece are read as they were, and take as much.
LEMMA LinesFacts ==
    ASSUME NEW k \in Seq(Records)
    PROVE  /\ Lines(k) \in Seq(Token) /\ Len(Lines(k)) = 2 * Len(k)
           /\ Lines(k) = <<>> \/ Lines(k)[Len(Lines(k))] = LineFeed
           /\ Size(Lines(k)) = Size(k)
           /\ Whole(Lines(k)) = k
<1>n. PICK N : N = Len(k)
    OBVIOUS
<1>f. PICK f : f = Lines(k)
    OBVIOUS
<1>0. N \in Nat
    BY <1>n
<1>1. \A n \in 1..N : k[n] \in Records
    BY <1>n
<1>2. f = [i \in 1..(2 * N) |-> IF i % 2 = 0 THEN LineFeed ELSE k[(i + 1) \div 2]]
    BY <1>n, <1>f DEF Lines
<1>3. \A i \in 1..(2 * N) : i % 2 # 0 => (i + 1) \div 2 \in 1..N
    BY <1>0, <1>1
<1>4. f \in Seq(Token) /\ Len(f) = 2 * N
  <2>1. \A i \in 1..(2 * N) : f[i] \in Token
    BY <1>0, <1>1, <1>2, <1>3 DEF Token
  <2>2. 2 * N \in Nat /\ DOMAIN f = 1..(2 * N)
    BY <1>0, <1>1, <1>2
  <2>3. f = [i \in 1..(2 * N) |-> f[i]]
    BY <1>2
  <2>4. f \in [1..(2 * N) -> Token]
    BY <2>1, <2>3
  <2> QED
    BY <2>2, <2>4, SeqDef, LenProperties
<1>5. \A n \in 1..N : /\ 2 * n \in 1..(2 * N) /\ 2 * n - 1 \in 1..(2 * N)
                      /\ f[2 * n] = LineFeed /\ f[2 * n - 1] = k[n]
  <2> SUFFICES ASSUME NEW n \in 1..N
               PROVE  /\ 2 * n \in 1..(2 * N) /\ 2 * n - 1 \in 1..(2 * N)
                      /\ f[2 * n] = LineFeed /\ f[2 * n - 1] = k[n]
    OBVIOUS
  <2>1. /\ 2 * n \in 1..(2 * N) /\ 2 * n - 1 \in 1..(2 * N)
        /\ (2 * n) % 2 = 0 /\ (2 * n - 1) % 2 # 0 /\ (2 * n - 1 + 1) \div 2 = n
    BY <1>0, <1>1
  <2> QED
    BY <1>2, <2>1
<1>6. LineFeed \notin Records
    BY RuntimeMetricsAssumption
<1>7. \A n \in 1..N : Parses(f, 2 * n - 1) /\ ~ Parses(f, 2 * n)
  <2> SUFFICES ASSUME NEW n \in 1..N
               PROVE  Parses(f, 2 * n - 1) /\ ~ Parses(f, 2 * n)
    OBVIOUS
  <2>1. ~ Parses(f, 2 * n)
    BY <1>5, <1>6 DEF Parses
  <2>2. 2 * n - 1 = 1 \/ f[2 * n - 1 - 1] = LineFeed
    <3>1. CASE n = 1
      BY <3>1
    <3>2. CASE n # 1
      <4>1. n - 1 \in 1..N /\ 2 * n - 1 - 1 = 2 * (n - 1)
        BY <1>0, <1>1, <3>2
      <4> QED
        BY <1>5, <4>1
    <3> QED
      BY <3>1, <3>2
  <2>3. 2 * n - 1 + 1 = 2 * n /\ f[2 * n] = LineFeed
    BY <1>0, <1>5
  <2> QED
    BY <1>0, <1>1, <1>5, <2>1, <2>2, <2>3 DEF Parses
<1>8. f = <<>> \/ f[Len(f)] = LineFeed
  <2>1. CASE N = 0
    BY <1>4, <2>1, EmptySeq
  <2>2. CASE N # 0
    <3>1. N \in 1..N
      BY <1>0, <2>2
    <3>2. f[2 * N] = LineFeed
      BY <1>5, <3>1
    <3> QED
      BY <1>4, <3>2
  <2> QED
    BY <2>1, <2>2
<1>9. Size(f) = Size(k)
  <2>1. PICK g : SumUpTo(k, g, N) /\ Size(k) = g[N]
    BY <1>n, <1>0, SizeUnfolds
  <2>2. PICK h : SumUpTo(f, h, 2 * N) /\ Size(f) = h[2 * N]
    <3>1. Len(f) \in Nat
      BY <1>0, <1>4
    <3>2. \E h : SumUpTo(f, h, Len(f)) /\ Size(f) = h[Len(f)]
      BY <3>1, SizeUnfolds
    <3> QED
      BY <1>4, <3>2
  <2>3. /\ \A i \in 0..N : g[i] = IF i = 0 THEN 0 ELSE g[i - 1] + WeightOf(k[i])
        /\ \A i \in 0..(2 * N) : h[i] = IF i = 0 THEN 0 ELSE h[i - 1] + WeightOf(f[i])
    BY <2>1, <2>2 DEF SumUpTo
  <2> DEFINE T == {n \in 0..N : h[2 * n] = g[n] /\ g[n] \in Nat}
  <2>4. 0 \in T
    BY <1>0, <1>1, <2>3
  <2>5. ASSUME NEW n \in 0..N, n \in T, n < N
        PROVE  n + 1 \in T
    <3>1. n + 1 \in 1..N /\ n + 1 \in 0..N /\ n + 1 # 0 /\ n + 1 - 1 = n
      BY <1>0, <1>1, <2>5
    <3>2. /\ 2 * (n + 1) \in 0..(2 * N) /\ 2 * (n + 1) # 0
          /\ 2 * (n + 1) - 1 \in 0..(2 * N) /\ 2 * (n + 1) - 1 # 0
          /\ 2 * (n + 1) - 1 - 1 = 2 * n
      BY <1>0, <1>1, <3>1
    <3>3. h[2 * (n + 1)] = h[2 * (n + 1) - 1] + WeightOf(LineFeed)
      BY <1>5, <2>3, <3>1, <3>2
    <3>4. h[2 * (n + 1) - 1] = h[2 * n] + WeightOf(k[n + 1])
      BY <1>5, <2>3, <3>1, <3>2
    <3>5. g[n + 1] = g[n] + WeightOf(k[n + 1])
      BY <2>3, <3>1
    <3>6. WeightOf(LineFeed) = 0 /\ WeightOf(k[n + 1]) \in Nat
      BY <1>6, WeightFacts DEF WeightOf
    <3> QED
      BY <2>5, <3>1, <3>3, <3>4, <3>5, <3>6
  <2> HIDE DEF T
  <2>6. \A n \in 0..N : n \in T /\ n < N => n + 1 \in T
    BY <2>5
  <2>7. \A n \in 0..N : n \in T
    BY <1>0, <2>4, <2>6, InductionUpTo
  <2>8. N \in T
    BY <1>0, <2>7
  <2> QED
    BY <2>1, <2>2, <2>8 DEF T
<1>10. Whole(f) = k
  <2>1. PICK h : ReadUpTo(f, h, 2 * N) /\ Whole(f) = h[2 * N]
    <3>1. Len(f) \in Nat
      BY <1>0, <1>4
    <3>2. \E h : ReadUpTo(f, h, Len(f)) /\ Whole(f) = h[Len(f)]
      BY <3>1, WholeUnfolds
    <3> QED
      BY <1>4, <3>2
  <2>2. \A i \in 0..(2 * N) : h[i] = IF i = 0 THEN <<>>
                                     ELSE IF Parses(f, i) THEN Append(h[i - 1], f[i])
                                          ELSE h[i - 1]
    BY <2>1, Zenon DEF ReadUpTo
  <2> DEFINE T == {n \in 0..N : h[2 * n] = SubSeq(k, 1, n)}
  <2>3. 0 \in T
    <3>1. 2 * 0 = 0 /\ 0 \in 0..(2 * N) /\ 0 \in 0..N
      BY <1>0, <1>1
    <3>2. h[2 * 0] = <<>>
      BY <2>2, <3>1
    <3>3. SubSeq(k, 1, 0) = <<>>
      OBVIOUS
    <3> QED
      BY <3>1, <3>2, <3>3
  <2>4. ASSUME NEW n \in 0..N, n \in T, n < N
        PROVE  n + 1 \in T
    <3>1. n + 1 \in 1..N /\ n + 1 \in 0..N
      BY <1>0, <1>1, <2>4
    <3>2. /\ 2 * (n + 1) \in 0..(2 * N) /\ 2 * (n + 1) # 0
          /\ 2 * (n + 1) - 1 \in 0..(2 * N) /\ 2 * (n + 1) - 1 # 0
          /\ 2 * (n + 1) - 1 - 1 = 2 * n
      BY <1>0, <1>1, <3>1
    <3>3. h[2 * (n + 1)] = h[2 * (n + 1) - 1]
      BY <1>7, <2>2, <3>1, <3>2
    <3>4. h[2 * (n + 1) - 1] = Append(h[2 * n], k[n + 1])
      BY <1>5, <1>7, <2>2, <3>1, <3>2
    <3>5. Append(SubSeq(k, 1, n), k[n + 1]) = SubSeq(k, 1, n + 1)
      BY <1>n, <1>0, <3>1
    <3> QED
      BY <2>4, <3>1, <3>3, <3>4, <3>5
  <2> HIDE DEF T
  <2>5. \A n \in 0..N : n \in T /\ n < N => n + 1 \in T
    BY <2>4
  <2>6. \A n \in 0..N : n \in T
    BY <1>0, <2>3, <2>5, InductionUpTo
  <2>7. N \in T
    BY <1>0, <2>6
  <2>8. SubSeq(k, 1, N) = k
    BY <1>n
  <2> QED
    BY <2>1, <2>7, <2>8 DEF T
<1> QED
    BY <1>n, <1>f, <1>4, <1>8, <1>9, <1>10

\* The last records of a sequence.
LEMMA FromFacts ==
    ASSUME NEW k \in Seq(Records), NEW i \in 1..(Len(k) + 1)
    PROVE  /\ From(k, i) \in Seq(Records)
           /\ Len(From(k, i)) = Len(k) - i + 1
           /\ \A j \in 1..Len(From(k, i)) : From(k, i)[j] = k[i + j - 1]
<1>1. PICK N : N = Len(k)
    OBVIOUS
<1>2. N \in Nat /\ i \in 1..(N + 1) /\ \A j \in 1..N : k[j] \in Records
    BY <1>1
<1>3. PICK h : h = From(k, i)
    OBVIOUS
<1>4. h = SubSeq(k, i, N)
    BY <1>1, <1>3 DEF From
<1>5. Len(h) = N - i + 1 /\ \A j \in 1..(N - i + 1) : h[j] = k[i + j - 1]
    BY <1>2, <1>4, <1>1
<1>6. h \in Seq(Records)
    BY <1>1, <1>2, <1>4
<1> QED
    BY <1>1, <1>3, <1>5, <1>6

LEMMA FromFirst ==
    ASSUME NEW k \in Seq(Records)
    PROVE  From(k, 1) = k
    BY DEF From

LEMMA FromFrom ==
    ASSUME NEW k \in Seq(Records), NEW i \in 1..(Len(k) + 1), NEW j \in 1..(Len(From(k, i)) + 1)
    PROVE  /\ i + j - 1 \in 1..(Len(k) + 1)
           /\ From(From(k, i), j) = From(k, i + j - 1)
<1>1. PICK N : N = Len(k)
    OBVIOUS
<1>2. PICK h : h = From(k, i)
    OBVIOUS
<1>3. /\ h \in Seq(Records) /\ Len(h) = N - i + 1
      /\ \A n \in 1..Len(h) : h[n] = k[i + n - 1]
    BY <1>1, <1>2, FromFacts
<1>4. N \in Nat /\ i \in 1..(N + 1) /\ j \in 1..(N - i + 2) /\ i + j - 1 \in 1..(N + 1)
    BY <1>1, <1>2, <1>3
<1>5. PICK a : a = From(h, j)
    OBVIOUS
<1>6. PICK b : b = From(k, i + j - 1)
    OBVIOUS
<1>7. /\ a \in Seq(Records) /\ Len(a) = N - i - j + 2
      /\ \A n \in 1..Len(a) : a[n] = h[j + n - 1]
  <2>1. j \in 1..(Len(h) + 1)
    BY <1>3, <1>4
  <2>2. /\ a \in Seq(Records) /\ Len(a) = Len(h) - j + 1
        /\ \A n \in 1..Len(a) : a[n] = h[j + n - 1]
    BY <1>3, <1>5, <2>1, FromFacts
  <2> QED
    BY <1>3, <1>4, <2>2, SMTT(30)
<1>8. /\ b \in Seq(Records) /\ Len(b) = N - i - j + 2
      /\ \A n \in 1..Len(b) : b[n] = k[i + j - 1 + n - 1]
  <2>1. i + j - 1 \in 1..(Len(k) + 1)
    BY <1>1, <1>4
  <2>2. /\ b \in Seq(Records) /\ Len(b) = Len(k) - (i + j - 1) + 1
        /\ \A n \in 1..Len(b) : b[n] = k[i + j - 1 + n - 1]
    BY <1>6, <2>1, FromFacts
  <2> QED
    BY <1>1, <1>4, <2>2
<1>9. \A n \in 1..Len(a) : a[n] = b[n]
  <2> SUFFICES ASSUME NEW n \in 1..Len(a)
               PROVE  a[n] = b[n]
    OBVIOUS
  <2>1. j + n - 1 \in 1..Len(h) /\ i + (j + n - 1) - 1 = i + j - 1 + n - 1 /\ n \in 1..Len(b)
    BY <1>3, <1>4, <1>7, <1>8
  <2> QED
    BY <1>3, <1>7, <1>8, <2>1
<1>10. a = b
    BY <1>7, <1>8, <1>9, SeqEqual
<1> QED
    BY <1>1, <1>2, <1>4, <1>5, <1>6, <1>10

LEMMA FromAppend ==
    ASSUME NEW k \in Seq(Records), NEW r \in Records, NEW i \in 1..(Len(k) + 1)
    PROVE  From(Append(k, r), i) = Append(From(k, i), r)
<1>1. PICK N : N = Len(k)
    OBVIOUS
<1>2. PICK h : h = Append(k, r)
    OBVIOUS
<1>3. /\ N \in Nat /\ i \in 1..(N + 1) /\ h \in Seq(Records) /\ Len(h) = N + 1
      /\ h[N + 1] = r /\ \A n \in 1..N : h[n] = k[n]
    BY <1>1, <1>2
<1>4. PICK f : f = From(k, i)
    OBVIOUS
<1>5. /\ f \in Seq(Records) /\ Len(f) = N - i + 1
      /\ \A n \in 1..Len(f) : f[n] = k[i + n - 1]
    BY <1>1, <1>4, FromFacts
<1>6. PICK a : a = From(h, i)
    OBVIOUS
<1>7. /\ a \in Seq(Records) /\ Len(a) = N - i + 2
      /\ \A n \in 1..Len(a) : a[n] = h[i + n - 1]
  <2>1. i \in 1..(Len(h) + 1)
    BY <1>3
  <2>2. /\ a \in Seq(Records) /\ Len(a) = Len(h) - i + 1
        /\ \A n \in 1..Len(a) : a[n] = h[i + n - 1]
    BY <1>3, <1>6, <2>1, FromFacts
  <2> QED
    BY <1>3, <2>2
<1>8. PICK b : b = Append(f, r)
    OBVIOUS
<1>9. /\ b \in Seq(Records) /\ Len(b) = N - i + 2
      /\ b[N - i + 2] = r /\ \A n \in 1..(N - i + 1) : b[n] = f[n]
  <2>1. /\ b \in Seq(Records) /\ Len(b) = Len(f) + 1
        /\ b[Len(f) + 1] = r /\ \A n \in 1..Len(f) : b[n] = f[n]
    BY <1>5, <1>8
  <2>2. Len(f) + 1 = N - i + 2
    BY <1>3, <1>5
  <2> QED
    BY <1>5, <2>1, <2>2
<1>10. \A n \in 1..Len(a) : a[n] = b[n]
  <2> SUFFICES ASSUME NEW n \in 1..Len(a)
               PROVE  a[n] = b[n]
    OBVIOUS
  <2>1. CASE n = N - i + 2
    BY <1>3, <1>7, <1>9, <2>1
  <2>2. CASE n # N - i + 2
    <3>1. n \in 1..(N - i + 1) /\ i + n - 1 \in 1..N /\ n \in 1..Len(f)
      BY <1>3, <1>5, <1>7, <2>2
    <3> QED
      BY <1>3, <1>5, <1>7, <1>9, <3>1
  <2> QED
    BY <2>1, <2>2
<1>11. a = b
    BY <1>7, <1>9, <1>10, SeqEqual
<1> QED
    BY <1>2, <1>4, <1>6, <1>8, <1>11

\* What is kept are the last ones, with the first of which it fits and with one more not.
LEMMA KeptFacts ==
    ASSUME NEW k \in Seq(Records), k # <<>>
    PROVE  \E i \in 1..Len(k) :
             /\ Kept(k) = From(k, i)
             /\ i = 1 \/ Size(From(k, i - 1)) > MaxBytes
             /\ i = Len(k) \/ Size(Kept(k)) <= MaxBytes
<1>1. PICK N : N = Len(k)
    OBVIOUS
<1>2. N \in Nat \ {0}
    BY <1>1, EmptySeq
<1> DEFINE fits == {i \in DOMAIN k : i = Len(k) \/ Size(From(k, i)) <= MaxBytes}
<1>3. fits = {i \in 1..N : i = N \/ Size(From(k, i)) <= MaxBytes}
    BY <1>1
<1>4. Kept(k) = From(k, Min(fits))
    BY DEF Kept
<1> HIDE DEF fits
<1>5. fits \in SUBSET Nat /\ N \in fits
    BY <1>2, <1>3
<1>6. PICK n \in fits : \A m \in fits : n <= m
    BY <1>5, Least
<1>7. Min(fits) \in fits /\ \A m \in fits : Min(fits) <= m
    BY <1>6 DEF Min
<1>8. PICK i : i = Min(fits)
    OBVIOUS
<1>9. i \in 1..N /\ (i = N \/ Size(From(k, i)) <= MaxBytes)
    BY <1>3, <1>7, <1>8
<1>10. ASSUME i # 1
       PROVE  Size(From(k, i - 1)) > MaxBytes
  <2>1. i - 1 \in 1..N /\ i - 1 # N /\ ~ (i <= i - 1)
    BY <1>2, <1>9, <1>10
  <2>2. i - 1 \notin fits
    BY <1>7, <1>8, <2>1
  <2>3. ~ (Size(From(k, i - 1)) <= MaxBytes)
    BY <1>3, <2>1, <2>2
  <2>4. Size(From(k, i - 1)) \in Nat /\ MaxBytes \in Nat
    <3>1. i - 1 \in 1..(Len(k) + 1)
      BY <1>1, <1>2, <2>1
    <3>2. From(k, i - 1) \in Seq(Records)
      BY <3>1, FromFacts
    <3>3. From(k, i - 1) \in Seq(Token) /\ LineFeed \in Token
      BY <3>2 DEF Token
    <3> QED
      BY <3>3, SizeFacts, RuntimeMetricsAssumption
  <2> QED
    BY <2>3, <2>4
<1> QED
    BY <1>1, <1>4, <1>8, <1>9, <1>10

--------------------------------------------------------------------------------
(***************************************************************************)
(* The window: what ends with what                                         *)
(***************************************************************************)
\* The records k are the last ones of m.
Ends(k, m) ==
    /\ Len(k) <= Len(m)
    /\ \A j \in 1..Len(k) : k[j] = m[Len(m) - Len(k) + j]

LEMMA EndsIsSuffix ==
    ASSUME NEW k \in Seq(Records), NEW m \in Seq(Records), Ends(k, m)
    PROVE  IsSuffix(k, m)
<1>1. PICK K : K = Len(k)
    OBVIOUS
<1>2. PICK M : M = Len(m)
    OBVIOUS
<1>3. K \in Nat /\ M \in Nat /\ K <= M /\ \A j \in 1..K : k[j] = m[M - K + j]
    BY <1>1, <1>2 DEF Ends
<1>4. PICK a : a = Reverse(k)
    OBVIOUS
<1>5. PICK b : b = Reverse(m)
    OBVIOUS
<1>6. a = [i \in 1..K |-> k[K - i + 1]] /\ b = [i \in 1..M |-> m[M - i + 1]]
    BY <1>1, <1>2, <1>4, <1>5 DEF Reverse
<1>7. (\A j \in 1..K : k[j] \in Records) /\ (\A j \in 1..M : m[j] \in Records)
    BY <1>1, <1>2
<1>8. a \in Seq(Records) /\ Len(a) = K
  <2>1. \A i \in 1..K : K - i + 1 \in 1..K
    BY <1>3
  <2>2. \A i \in 1..K : k[K - i + 1] \in Records
    BY <1>7, <2>1
  <2>3. a \in [1..K -> Records]
    BY <1>6, <2>2
  <2>4. a \in Seq(Records)
    BY <1>3, <2>3, SeqDef
  <2>5. Len(a) = K
    BY <1>3, <2>3, <2>4, LenProperties
  <2> QED
    BY <2>4, <2>5
<1>9. b \in Seq(Records) /\ Len(b) = M
  <2>1. \A i \in 1..M : M - i + 1 \in 1..M
    BY <1>3
  <2>2. \A i \in 1..M : m[M - i + 1] \in Records
    BY <1>7, <2>1
  <2>3. b \in [1..M -> Records]
    BY <1>6, <2>2
  <2>4. b \in Seq(Records)
    BY <1>3, <2>3, SeqDef
  <2>5. Len(b) = M
    BY <1>3, <2>3, <2>4, LenProperties
  <2> QED
    BY <2>4, <2>5
<1>10. \A i \in 1..K : a[i] = b[i]
  <2> SUFFICES ASSUME NEW i \in 1..K
               PROVE  a[i] = b[i]
    OBVIOUS
  <2>1. K - i + 1 \in 1..K /\ M - K + (K - i + 1) = M - i + 1 /\ i \in 1..M
    BY <1>3
  <2> QED
    BY <1>3, <1>6, <2>1
<1>11. SubSeq(a, 1, K) = SubSeq(b, 1, K)
  <2>1. PICK p : p = SubSeq(a, 1, K)
    OBVIOUS
  <2>2. PICK q : q = SubSeq(b, 1, K)
    OBVIOUS
  <2>3. p \in Seq(Records) /\ Len(p) = K /\ \A i \in 1..K : p[i] = a[i]
    BY <1>3, <1>8, <2>1
  <2>4. q \in Seq(Records) /\ Len(q) = K /\ \A i \in 1..K : q[i] = b[i]
    BY <1>3, <1>9, <2>2
  <2>5. p = q
    BY <1>3, <1>10, <2>3, <2>4, SeqEqual
  <2> QED
    BY <2>1, <2>2, <2>5
<1> QED
    BY <1>3, <1>4, <1>5, <1>8, <1>9, <1>11 DEF IsSuffix, IsPrefix

LEMMA EndsItself ==
    ASSUME NEW k \in Seq(Records)
    PROVE  Ends(k, k)
<1>1. Len(k) \in Nat
    OBVIOUS
<1>2. \A j \in 1..Len(k) : Len(k) - Len(k) + j = j
    BY <1>1
<1> QED
    BY <1>1, <1>2 DEF Ends

LEMMA EndsTransitive ==
    ASSUME NEW k \in Seq(Records), NEW l \in Seq(Records), NEW m \in Seq(Records),
           Ends(k, l), Ends(l, m)
    PROVE  Ends(k, m)
<1>1. PICK K : K = Len(k)
    OBVIOUS
<1>2. PICK L : L = Len(l)
    OBVIOUS
<1>3. PICK M : M = Len(m)
    OBVIOUS
<1>4. K \in Nat /\ L \in Nat /\ M \in Nat /\ K <= L /\ L <= M
    BY <1>1, <1>2, <1>3 DEF Ends
<1>5. (\A j \in 1..K : k[j] = l[L - K + j]) /\ (\A j \in 1..L : l[j] = m[M - L + j])
    BY <1>1, <1>2, <1>3 DEF Ends
<1>6. \A j \in 1..K : k[j] = m[M - K + j]
  <2> SUFFICES ASSUME NEW j \in 1..K
               PROVE  k[j] = m[M - K + j]
    OBVIOUS
  <2>1. L - K + j \in 1..L /\ M - L + (L - K + j) = M - K + j
    BY <1>4
  <2> QED
    BY <1>5, <2>1
<1> QED
    BY <1>1, <1>3, <1>4, <1>6 DEF Ends

LEMMA FromEnds ==
    ASSUME NEW k \in Seq(Records), NEW i \in 1..(Len(k) + 1)
    PROVE  Ends(From(k, i), k)
<1>1. PICK N : N = Len(k)
    OBVIOUS
<1>2. PICK h : h = From(k, i)
    OBVIOUS
<1>3. /\ Len(h) = N - i + 1
      /\ \A j \in 1..Len(h) : h[j] = k[i + j - 1]
    BY <1>1, <1>2, FromFacts
<1>4. N \in Nat /\ i \in 1..(N + 1)
    BY <1>1
<1>5. \A j \in 1..Len(h) : N - Len(h) + j = i + j - 1
    BY <1>3, <1>4
<1>6. Len(h) <= N
    BY <1>3, <1>4
<1> QED
    BY <1>1, <1>2, <1>3, <1>5, <1>6 DEF Ends

LEMMA LatestFacts ==
    ASSUME NEW k \in Seq(Records)
    PROVE  /\ Latest(k, Window) \in Seq(Records)
           /\ Ends(Latest(k, Window), k)
           /\ Len(Latest(k, Window)) = IF Len(k) > Window THEN Window ELSE Len(k)
<1>1. Window \in Nat \ {0} /\ Len(k) \in Nat
    BY RuntimeMetricsAssumption
<1>2. CASE Len(k) > Window
  <2>1. PICK i : i = Len(k) - Window + 1
    OBVIOUS
  <2>2. i \in 1..(Len(k) + 1) /\ Len(k) - i + 1 = Window
    BY <1>1, <1>2, <2>1
  <2>3. Latest(k, Window) = From(k, i)
    BY <1>2, <2>1 DEF Latest
  <2> QED
    BY <1>2, <2>2, <2>3, FromFacts, FromEnds
<1>3. CASE ~ (Len(k) > Window)
    BY <1>3, EndsItself DEF Latest
<1> QED
    BY <1>2, <1>3

\* A window ends with the window of less.
LEMMA LatestEnds ==
    ASSUME NEW k \in Seq(Records), NEW l \in Seq(Records), Ends(k, l)
    PROVE  Ends(Latest(k, Window), Latest(l, Window))
<1>1. PICK a : a = Latest(k, Window)
    OBVIOUS
<1>2. PICK b : b = Latest(l, Window)
    OBVIOUS
<1>3. /\ a \in Seq(Records) /\ Ends(a, k)
      /\ Len(a) = IF Len(k) > Window THEN Window ELSE Len(k)
    BY <1>1, LatestFacts
<1>4. /\ b \in Seq(Records) /\ Ends(b, l)
      /\ Len(b) = IF Len(l) > Window THEN Window ELSE Len(l)
    BY <1>2, LatestFacts
<1>5. PICK L : L = Len(l)
    OBVIOUS
<1>6. /\ Window \in Nat \ {0} /\ Len(k) \in Nat /\ L \in Nat /\ Len(k) <= L
      /\ Len(a) \in Nat /\ Len(b) \in Nat
    BY <1>3, <1>4, <1>5, RuntimeMetricsAssumption DEF Ends
<1>7. Len(a) <= Len(b) /\ Len(b) <= L
    BY <1>3, <1>4, <1>5, <1>6
<1>8. Ends(a, l)
    BY <1>3, EndsTransitive
<1>9. (\A j \in 1..Len(a) : a[j] = l[L - Len(a) + j])
      /\ (\A j \in 1..Len(b) : b[j] = l[L - Len(b) + j])
    BY <1>4, <1>5, <1>8 DEF Ends
<1>10. \A j \in 1..Len(a) : a[j] = b[Len(b) - Len(a) + j]
  <2> SUFFICES ASSUME NEW j \in 1..Len(a)
               PROVE  a[j] = b[Len(b) - Len(a) + j]
    OBVIOUS
  <2>1. PICK i : i = Len(b) - Len(a) + j
    OBVIOUS
  <2>2. i \in 1..Len(b) /\ L - Len(b) + i = L - Len(a) + j
    BY <1>6, <1>7, <2>1
  <2> QED
    BY <1>9, <2>1, <2>2
<1> QED
    BY <1>1, <1>2, <1>7, <1>10 DEF Ends

\* A record is appended to what is kept and to the window.
LEMMA EndsAppend ==
    ASSUME NEW k \in Seq(Records), NEW m \in Seq(Records), NEW r \in Records,
           Ends(Latest(k, Window), m)
    PROVE  Ends(Latest(Append(k, r), Window), Latest(Append(m, r), Window))
<1>1. PICK a : a = Latest(k, Window)
    OBVIOUS
<1>2. /\ a \in Seq(Records) /\ Ends(a, k) /\ Ends(a, m)
      /\ Len(a) = IF Len(k) > Window THEN Window ELSE Len(k)
    BY <1>1, LatestFacts
<1>3. PICK ar : ar = Append(a, r)
    OBVIOUS
<1>4. PICK kr : kr = Append(k, r)
    OBVIOUS
<1>5. PICK mr : mr = Append(m, r)
    OBVIOUS
<1>6. ar \in Seq(Records) /\ kr \in Seq(Records) /\ mr \in Seq(Records)
    BY <1>2, <1>3, <1>4, <1>5
<1>7. ASSUME NEW l \in Seq(Records), Ends(a, l), NEW lr, lr = Append(l, r)
      PROVE  Ends(ar, lr)
  <2>1. PICK A : A = Len(a)
    OBVIOUS
  <2>2. PICK L : L = Len(l)
    OBVIOUS
  <2>3. A \in Nat /\ L \in Nat /\ A <= L /\ \A j \in 1..A : a[j] = l[L - A + j]
    <3>1. Len(a) \in Nat /\ Len(l) \in Nat
      BY <1>2
    <3>2. Len(a) <= Len(l) /\ \A j \in 1..Len(a) : a[j] = l[Len(l) - Len(a) + j]
      BY <1>7, Zenon DEF Ends
    <3> QED
      BY <2>1, <2>2, <3>1, <3>2
  <2>4. Len(ar) = A + 1 /\ ar[A + 1] = r /\ \A j \in 1..A : ar[j] = a[j]
    BY <1>2, <1>3, <2>1
  <2>5. Len(lr) = L + 1 /\ lr[L + 1] = r /\ \A j \in 1..L : lr[j] = l[j]
    BY <1>7, <2>2
  <2>6. \A j \in 1..(A + 1) : ar[j] = lr[L + 1 - (A + 1) + j]
    <3> SUFFICES ASSUME NEW j \in 1..(A + 1)
                 PROVE  ar[j] = lr[L + 1 - (A + 1) + j]
      OBVIOUS
    <3>1. CASE j = A + 1
      <4>1. L + 1 - (A + 1) + j = L + 1
        BY <2>3, <3>1
      <4> QED
        BY <2>4, <2>5, <3>1, <4>1
    <3>2. CASE j # A + 1
      <4>1. j \in 1..A /\ L - A + j \in 1..L /\ L + 1 - (A + 1) + j = L - A + j
        BY <2>3, <3>2
      <4> QED
        BY <2>3, <2>4, <2>5, <4>1
    <3> QED
      BY <3>1, <3>2
  <2> QED
    BY <2>3, <2>4, <2>5, <2>6 DEF Ends
<1>8. Ends(ar, kr) /\ Ends(ar, mr)
    BY <1>2, <1>4, <1>5, <1>7
<1>9. Latest(kr, Window) = Latest(ar, Window)
  <2>1. PICK p : p = Latest(kr, Window)
    OBVIOUS
  <2>2. PICK q : q = Latest(ar, Window)
    OBVIOUS
  <2>3. Len(kr) = Len(k) + 1 /\ Len(ar) = Len(a) + 1 /\ Len(k) \in Nat /\ Window \in Nat \ {0}
    BY <1>2, <1>3, <1>4, RuntimeMetricsAssumption
  <2>4. p \in Seq(Records) /\ Len(p) = IF Len(kr) > Window THEN Window ELSE Len(kr)
    BY <1>6, <2>1, LatestFacts
  <2>5. q \in Seq(Records) /\ Len(q) = IF Len(ar) > Window THEN Window ELSE Len(ar)
    BY <1>6, <2>2, LatestFacts
  <2>6. Len(p) = Len(q)
    BY <1>2, <2>3, <2>4, <2>5
  <2>7. Ends(q, p)
    BY <1>6, <1>8, <2>1, <2>2, LatestEnds
  <2>8. \A j \in 1..Len(q) : q[j] = p[j]
    <3>1. Len(p) \in Nat /\ \A j \in 1..Len(q) : q[j] = p[Len(p) - Len(q) + j]
      BY <2>4, <2>7 DEF Ends
    <3>2. \A j \in 1..Len(q) : Len(p) - Len(q) + j = j
      BY <2>6, <3>1
    <3> QED
      BY <3>1, <3>2
  <2>9. p = q
    BY <2>4, <2>5, <2>6, <2>8, SeqEqual
  <2> QED
    BY <2>1, <2>2, <2>9
<1>10. Ends(Latest(ar, Window), Latest(mr, Window))
    BY <1>6, <1>8, LatestEnds
<1> QED
    BY <1>4, <1>5, <1>9, <1>10

--------------------------------------------------------------------------------
(***************************************************************************)
(* The invariant                                                           *)
(***************************************************************************)
ServerType ==
    [up: BOOLEAN, memory: Seq(Records), append: {"idle", "line", "feed", "check"},
     record: 0..MaxRecords, keeper: {"idle", "load", "read", "truncate", "fill"},
     seen: Seq(Records), over: BOOLEAN, waiting: Nat, sole: BOOLEAN]

\* Nothing but records, line feeds and parts of records is in the file, and a server is
\* always somewhere in one of the two threads that are at it.
TypeOK ==
    /\ file \in Seq(Token)
    /\ server \in [Servers -> ServerType]
    /\ next \in Nat \ {0}
    /\ log \in Seq(Records)
    /\ cuts \in Nat
    /\ raced \in BOOLEAN /\ ignored \in BOOLEAN

\* Who appends, is up and nothing else of that server is at the file; a retention thread
\* rewrites only what was too large.
StepsFit(r) ==
    /\ r.append # "idle" => r.up /\ r.keeper = "idle" /\ r.record \in Records
    /\ ~ r.up => r.append = "idle" /\ r.waiting = 0
    /\ r.keeper = "load" => ~ r.up
    /\ r.keeper = "read" => r.up
    /\ r.keeper \in {"read", "truncate", "fill"} => r.over

StepsInv == \A s \in Servers : StepsFit(server[s])

\* While nobody meets another, what is about to be written is what was in the file.
RewriteInv ==
    ~ raced =>
      /\ \A s, t \in Servers :
           /\ server[s].keeper \in {"truncate", "fill"}
           /\ server[t].keeper \in {"truncate", "fill"}
           => s = t
      /\ \A s \in Servers :
           /\ server[s].keeper = "truncate" => server[s].seen = Whole(file)
           /\ server[s].keeper = "fill" => file = <<>>

\* While no line was cut, the next line begins at its beginning.
EndInv ==
    cuts = 0 /\ ~ raced =>
      \/ file = <<>>
      \/ file[Len(file)] = LineFeed
      \/ \E s \in Servers : server[s].append = "feed"

\* The latest records of a log, of which none is missing that would have fitted.
Recent(l, k) ==
    \E i \in 1..(Len(l) + 1) :
      /\ k = From(l, i)
      /\ i = 1 \/ (l # <<>> /\ i <= Len(l) /\ Size(From(l, i - 1)) > MaxBytes)

RecentInv ==
    cuts = 0 /\ ~ raced =>
      /\ ~ Rewriting => Recent(log, Whole(file))
      /\ \A s \in Servers : server[s].keeper = "fill" => Recent(log, server[s].seen)

Busy(r) ==
    \/ r.waiting > 0
    \/ r.append # "idle"
    \/ r.keeper # "idle" /\ r.over

\* Also a server that is not up yet looks after the file.
BusyInv ==
    TooLarge /\ Len(Whole(file)) > 1 /\ ~ ignored /\ ~ raced =>
        \E s \in Servers : Busy(server[s])

\* What the window of a server that is alone ends with, before, while and after a record
\* is appended, and while the file is rewritten.
WindowFits(f, r) ==
    /\ r.append \in {"idle", "line"} /\ r.keeper # "fill" =>
         Ends(Latest(Whole(f), Window), r.memory)
    /\ r.append \in {"feed", "check"} =>
         Ends(Latest(Whole(f), Window), Latest(Append(r.memory, r.record), Window))
    /\ r.keeper = "fill" => Ends(Latest(r.seen, Window), r.memory)

WindowInv ==
    \A s \in Servers : server[s].sole =>
      /\ \A t \in Servers \ {s} : server[t] = Down
      /\ server[s].up /\ cuts = 0 /\ ~ raced => WindowFits(file, server[s])

IInv ==
    /\ TypeOK /\ StepsInv /\ RewriteInv /\ EndInv
    /\ RecentInv /\ BusyInv /\ WindowInv

--------------------------------------------------------------------------------
(***************************************************************************)
(* What the steps do with a server                                         *)
(***************************************************************************)
LEMMA DownFacts ==
    /\ Down \in ServerType
    /\ ~ Down.up /\ Down.append = "idle" /\ Down.keeper = "idle" /\ Down.waiting = 0
    /\ ~ Down.sole /\ ~ Down.over
<1>1. 0 \in 0..MaxRecords /\ <<>> \in Seq(Records)
    BY RuntimeMetricsAssumption
<1> QED
    BY <1>1 DEF Down, ServerType

\* Only the server s moves.
Moved(s) ==
    /\ server' \in [Servers -> ServerType]
    /\ \A t \in Servers \ {s} : server'[t] = server[t]

LEMMA MovesAlone ==
    ASSUME server \in [Servers -> ServerType], NEW s \in Servers, NEW q \in ServerType,
           server' = [server EXCEPT ![s] = q]
    PROVE  Moved(s) /\ server'[s] = q
    BY DEF Moved

LEMMA RecordMoves ==
    ASSUME TypeOK, NEW s \in Servers, Record(s)
    PROVE  /\ Moved(s)
           /\ server'[s].append = "line" /\ server'[s].record \in Records
           /\ server'[s].up = server[s].up /\ server'[s].memory = server[s].memory
           /\ server'[s].keeper = server[s].keeper /\ server'[s].seen = server[s].seen
           /\ server'[s].over = server[s].over /\ server'[s].waiting = server[s].waiting
           /\ server'[s].sole = server[s].sole
<1>1. PICK r : r = server[s]
    OBVIOUS
<1>2. PICK q : q = [r EXCEPT !.append = "line", !.record = next]
    OBVIOUS
<1>3. r \in ServerType /\ next \in Records /\ next \in 0..MaxRecords
    BY <1>1, RuntimeMetricsAssumption DEF TypeOK, Record, Records
<1>4. server' = [server EXCEPT ![s] = q]
    BY <1>1, <1>2 DEF TypeOK, Record
<1>5. q \in ServerType
    BY <1>2, <1>3 DEF ServerType
<1>6. Moved(s) /\ server'[s] = q
    BY <1>4, <1>5, MovesAlone DEF TypeOK
<1>7. /\ q.append = "line" /\ q.record = next /\ q.up = r.up /\ q.memory = r.memory
      /\ q.keeper = r.keeper /\ q.seen = r.seen /\ q.over = r.over /\ q.waiting = r.waiting
      /\ q.sole = r.sole
    BY <1>2, <1>3 DEF ServerType
<1> QED
    BY <1>1, <1>3, <1>6, <1>7

LEMMA WriteLineMoves ==
    ASSUME TypeOK, NEW s \in Servers, WriteLine(s)
    PROVE  /\ Moved(s) /\ server'[s].append = "feed" /\ server'[s].up = server[s].up
           /\ server'[s].memory = server[s].memory /\ server'[s].record = server[s].record
           /\ server'[s].keeper = server[s].keeper /\ server'[s].seen = server[s].seen
           /\ server'[s].over = server[s].over /\ server'[s].waiting = server[s].waiting
           /\ server'[s].sole = server[s].sole
<1>1. PICK r : r = server[s]
    OBVIOUS
<1>2. PICK q : q = [r EXCEPT !.append = "feed"]
    OBVIOUS
<1>3. r \in ServerType
    BY <1>1 DEF TypeOK, WriteLine
<1>4. server' = [server EXCEPT ![s] = q]
    BY <1>1, <1>2 DEF TypeOK, WriteLine
<1>5. q \in ServerType
    BY <1>2, <1>3 DEF ServerType
<1>6. Moved(s) /\ server'[s] = q
    BY <1>4, <1>5, MovesAlone DEF TypeOK
<1>7. /\ q.append = "feed" /\ q.up = r.up /\ q.memory = r.memory /\ q.record = r.record
      /\ q.keeper = r.keeper /\ q.seen = r.seen /\ q.over = r.over
      /\ q.waiting = r.waiting /\ q.sole = r.sole
    BY <1>2, <1>3 DEF ServerType
<1> QED
    BY <1>1, <1>3, <1>6, <1>7

LEMMA WriteFeedMoves ==
    ASSUME TypeOK, NEW s \in Servers, WriteFeed(s)
    PROVE  /\ Moved(s) /\ server'[s].append = "check" /\ server'[s].up = server[s].up
           /\ server'[s].memory = server[s].memory /\ server'[s].record = server[s].record
           /\ server'[s].keeper = server[s].keeper /\ server'[s].seen = server[s].seen
           /\ server'[s].over = server[s].over /\ server'[s].waiting = server[s].waiting
           /\ server'[s].sole = server[s].sole
<1>1. PICK r : r = server[s]
    OBVIOUS
<1>2. PICK q : q = [r EXCEPT !.append = "check"]
    OBVIOUS
<1>3. r \in ServerType
    BY <1>1 DEF TypeOK, WriteFeed
<1>4. server' = [server EXCEPT ![s] = q]
    BY <1>1, <1>2 DEF TypeOK, WriteFeed
<1>5. q \in ServerType
    BY <1>2, <1>3 DEF ServerType
<1>6. Moved(s) /\ server'[s] = q
    BY <1>4, <1>5, MovesAlone DEF TypeOK
<1>7. /\ q.append = "check" /\ q.up = r.up /\ q.memory = r.memory /\ q.record = r.record
      /\ q.keeper = r.keeper /\ q.seen = r.seen /\ q.over = r.over
      /\ q.waiting = r.waiting /\ q.sole = r.sole
    BY <1>2, <1>3 DEF ServerType
<1> QED
    BY <1>1, <1>3, <1>6, <1>7

LEMMA TruncateMoves ==
    ASSUME TypeOK, NEW s \in Servers, Truncate(s)
    PROVE  /\ Moved(s) /\ server'[s].keeper = "fill" /\ server'[s].up = server[s].up
           /\ server'[s].memory = server[s].memory /\ server'[s].append = server[s].append
           /\ server'[s].record = server[s].record /\ server'[s].seen = server[s].seen
           /\ server'[s].over = server[s].over /\ server'[s].waiting = server[s].waiting
           /\ server'[s].sole = server[s].sole
<1>1. PICK r : r = server[s]
    OBVIOUS
<1>2. PICK q : q = [r EXCEPT !.keeper = "fill"]
    OBVIOUS
<1>3. r \in ServerType
    BY <1>1 DEF TypeOK, Truncate
<1>4. server' = [server EXCEPT ![s] = q]
    BY <1>1, <1>2 DEF TypeOK, Truncate
<1>5. q \in ServerType
    BY <1>2, <1>3 DEF ServerType
<1>6. Moved(s) /\ server'[s] = q
    BY <1>4, <1>5, MovesAlone DEF TypeOK
<1>7. /\ q.keeper = "fill" /\ q.up = r.up /\ q.memory = r.memory /\ q.append = r.append
      /\ q.record = r.record /\ q.seen = r.seen /\ q.over = r.over
      /\ q.waiting = r.waiting /\ q.sole = r.sole
    BY <1>2, <1>3 DEF ServerType
<1> QED
    BY <1>1, <1>3, <1>6, <1>7

LEMMA MeasureMoves ==
    ASSUME TypeOK, NEW s \in Servers, Measure(s)
    PROVE  /\ Moved(s)
           /\ server'[s].over = TooLarge /\ server'[s].waiting = server[s].waiting - 1
           /\ server'[s].keeper = IF TooLarge THEN "read" ELSE "idle"
           /\ server'[s].up = server[s].up /\ server'[s].memory = server[s].memory
           /\ server'[s].append = server[s].append /\ server'[s].record = server[s].record
           /\ server'[s].seen = server[s].seen /\ server'[s].sole = server[s].sole
<1>1. PICK r : r = server[s]
    OBVIOUS
<1>2. PICK n : n = r.waiting - 1
    OBVIOUS
<1>3. PICK k : k = IF TooLarge THEN "read" ELSE "idle"
    OBVIOUS
<1>4. PICK q : q = [r EXCEPT !.waiting = n, !.over = TooLarge, !.keeper = k]
    OBVIOUS
<1>5. r \in ServerType /\ n \in Nat /\ TooLarge \in BOOLEAN /\ k \in {"read", "idle"}
  <2>1. r \in ServerType /\ r.waiting > 0
    BY <1>1 DEF TypeOK, Measure
  <2>2. r.waiting \in Nat
    BY <2>1 DEF ServerType
  <2> QED
    BY <1>2, <1>3, <2>1, <2>2 DEF TooLarge
<1>6. server' = [server EXCEPT ![s] = q]
    BY <1>1, <1>2, <1>3, <1>4, Zenon DEF Measure
<1> HIDE DEF TooLarge
<1>7. q \in ServerType
    BY <1>4, <1>5 DEF ServerType
<1>8. Moved(s) /\ server'[s] = q
    BY <1>6, <1>7, MovesAlone DEF TypeOK
<1>9. /\ q.waiting = n /\ q.over = TooLarge /\ q.keeper = k /\ q.up = r.up
      /\ q.memory = r.memory /\ q.append = r.append /\ q.record = r.record
      /\ q.seen = r.seen /\ q.sole = r.sole
    BY <1>4, <1>5 DEF ServerType
<1> QED
    BY <1>1, <1>2, <1>3, <1>8, <1>9

LEMMA ExitMoves ==
    ASSUME TypeOK, NEW s \in Servers, Exit(s)
    PROVE  Moved(s) /\ server'[s] = Down
    BY DownFacts, MovesAlone DEF TypeOK, Exit

LEMMA StartMoves ==
    ASSUME TypeOK, NEW s \in Servers, Start(s)
    PROVE  /\ server' \in [Servers -> ServerType]
           /\ server'[s].up = FALSE /\ server'[s].append = "idle" /\ server'[s].keeper = "load"
           /\ server'[s].over = TooLarge /\ server'[s].waiting = 0
           /\ server'[s].sole => \A t \in Servers : server[t] = Down
           /\ \A t \in Servers \ {s} :
                /\ server[t] = Down => server'[t] = Down
                /\ ~ server'[t].sole
                /\ server'[t].up = server[t].up /\ server'[t].append = server[t].append
                /\ server'[t].record = server[t].record /\ server'[t].keeper = server[t].keeper
                /\ server'[t].seen = server[t].seen /\ server'[t].over = server[t].over
                /\ server'[t].waiting = server[t].waiting
<1>1. PICK c : c = (\A t \in Servers : server[t] = Down)
    OBVIOUS
<1>2. PICK q : q = [Down EXCEPT !.keeper = "load", !.over = TooLarge, !.sole = c]
    OBVIOUS
<1>3. c \in BOOLEAN /\ TooLarge \in BOOLEAN
    BY <1>1 DEF TooLarge
<1> HIDE DEF TooLarge
<1>4. q \in ServerType
    BY <1>2, <1>3, DownFacts DEF ServerType
<1>5. /\ q.up = FALSE /\ q.append = "idle" /\ q.keeper = "load" /\ q.over = TooLarge
      /\ q.waiting = 0 /\ q.sole = c
    BY <1>2, <1>3, DownFacts DEF ServerType
<1>6. server' = [t \in Servers |-> IF t = s THEN q ELSE [server[t] EXCEPT !.sole = FALSE]]
    BY <1>1, <1>2, Zenon DEF Start
<1>7. ASSUME NEW t \in Servers \ {s}
      PROVE  /\ server'[t] \in ServerType
             /\ server[t] = Down => server'[t] = Down
             /\ ~ server'[t].sole
             /\ server'[t].up = server[t].up /\ server'[t].append = server[t].append
             /\ server'[t].record = server[t].record /\ server'[t].keeper = server[t].keeper
             /\ server'[t].seen = server[t].seen /\ server'[t].over = server[t].over
             /\ server'[t].waiting = server[t].waiting
  <2>1. PICK r : r = server[t]
    OBVIOUS
  <2>2. PICK p : p = [r EXCEPT !.sole = FALSE]
    OBVIOUS
  <2>3. r \in ServerType
    BY <2>1 DEF TypeOK
  <2>4. p \in ServerType
    BY <2>2, <2>3 DEF ServerType
  <2>5. server'[t] = p
    BY <1>6, <2>1, <2>2
  <2>6. /\ p.sole = FALSE /\ p.up = r.up /\ p.append = r.append /\ p.record = r.record
        /\ p.keeper = r.keeper /\ p.seen = r.seen /\ p.over = r.over /\ p.waiting = r.waiting
    BY <2>2, <2>3 DEF ServerType
  <2>7. r = Down => p = Down
    <3>1. ASSUME r = Down
          PROVE  p = r
      <4>1. r.sole = FALSE /\ p.memory = r.memory
        BY <2>2, <2>3, <3>1, DownFacts DEF ServerType
      <4> QED
        BY <2>3, <2>4, <2>6, <4>1 DEF ServerType
    <3> QED
      BY <3>1
  <2> QED
    BY <2>1, <2>4, <2>5, <2>6, <2>7
<1>8. server'[s] = q
    BY <1>6
<1>9. server' \in [Servers -> ServerType]
  <2>1. \A t \in Servers : server'[t] \in ServerType
    BY <1>4, <1>7, <1>8
  <2> QED
    BY <1>6, <2>1
<1> QED
    BY <1>1, <1>5, <1>7, <1>8, <1>9

LEMMA RememberedFields ==
    ASSUME TypeOK, StepsInv, NEW s \in Servers, server[s].append # "idle"
    PROVE  /\ Remembered(s) \in ServerType
           /\ Remembered(s).append = "idle"
           /\ Remembered(s).memory = Latest(Append(server[s].memory, server[s].record), Window)
           /\ Remembered(s).up = server[s].up /\ Remembered(s).keeper = server[s].keeper
           /\ Remembered(s).seen = server[s].seen /\ Remembered(s).over = server[s].over
           /\ Remembered(s).waiting = server[s].waiting /\ Remembered(s).sole = server[s].sole
<1>1. PICK r : r = server[s]
    OBVIOUS
<1>2. PICK m : m = Latest(Append(r.memory, r.record), Window)
    OBVIOUS
<1>3. PICK q : q = [r EXCEPT !.append = "idle", !.record = 0, !.memory = m]
    OBVIOUS
<1>4. r \in ServerType /\ r.record \in Records
    BY <1>1 DEF TypeOK, StepsInv, StepsFit
<1>5. m \in Seq(Records)
  <2>1. r.memory \in Seq(Records)
    BY <1>4 DEF ServerType
  <2>2. Append(r.memory, r.record) \in Seq(Records)
    BY <1>4, <2>1
  <2> QED
    BY <1>2, <2>2, LatestFacts
<1>6. 0 \in 0..MaxRecords
    BY RuntimeMetricsAssumption
<1>7. q \in ServerType
    BY <1>3, <1>4, <1>5, <1>6 DEF ServerType
<1>8. /\ q.append = "idle" /\ q.memory = m /\ q.up = r.up /\ q.keeper = r.keeper
      /\ q.seen = r.seen /\ q.over = r.over /\ q.waiting = r.waiting /\ q.sole = r.sole
    BY <1>3, <1>4 DEF ServerType
<1>9. Remembered(s) = q
    BY <1>1, <1>2, <1>3, Zenon DEF Remembered
<1> QED
    BY <1>1, <1>2, <1>7, <1>8, <1>9

LEMMA AppendFailsMoves ==
    ASSUME TypeOK, StepsInv, NEW s \in Servers, AppendFails(s)
    PROVE  /\ Moved(s)
           /\ server'[s].append = "idle" /\ ~ server'[s].sole
           /\ server'[s].up = server[s].up /\ server'[s].keeper = server[s].keeper
           /\ server'[s].seen = server[s].seen /\ server'[s].over = server[s].over
           /\ server'[s].waiting = server[s].waiting
<1>1. PICK r : r = Remembered(s)
    OBVIOUS
<1>2. PICK q : q = [r EXCEPT !.sole = FALSE]
    OBVIOUS
<1>3. server' = [server EXCEPT ![s] = q] /\ server[s].append # "idle"
    BY <1>1, <1>2 DEF AppendFails
<1>4. /\ r \in ServerType /\ r.append = "idle"
      /\ r.up = server[s].up /\ r.keeper = server[s].keeper
      /\ r.seen = server[s].seen /\ r.over = server[s].over /\ r.waiting = server[s].waiting
    BY <1>1, <1>3, RememberedFields
<1>5. q \in ServerType
    BY <1>2, <1>4 DEF ServerType
<1>6. /\ q.append = r.append /\ q.sole = FALSE /\ q.up = r.up /\ q.keeper = r.keeper
      /\ q.seen = r.seen /\ q.over = r.over /\ q.waiting = r.waiting
    BY <1>2, <1>4 DEF ServerType
<1>7. Moved(s) /\ server'[s] = q
    BY <1>3, <1>5, MovesAlone DEF TypeOK
<1> QED
    BY <1>4, <1>6, <1>7

LEMMA FinishMoves ==
    ASSUME TypeOK, StepsInv, NEW s \in Servers, Finish(s)
    PROVE  /\ Moved(s)
           /\ server'[s].append = "idle" /\ server'[s].sole = server[s].sole
           /\ server'[s].memory = Latest(Append(server[s].memory, server[s].record), Window)
           /\ server'[s].up = server[s].up /\ server'[s].keeper = server[s].keeper
           /\ server'[s].seen = server[s].seen /\ server'[s].over = server[s].over
           /\ server'[s].waiting >= server[s].waiting
           /\ TooLarge => ignored' \/ server'[s].waiting > 0
<1>1. PICK r : r = Remembered(s)
    OBVIOUS
<1>2. PICK thread \in BOOLEAN :
        /\ server' = [server EXCEPT ![s] =
             [Remembered(s) EXCEPT !.waiting = IF thread THEN @ + 1 ELSE @]]
        /\ ignored' = (TooLarge /\ ~ thread)
    BY DEF Finish
<1>3. PICK n : n = IF thread THEN r.waiting + 1 ELSE r.waiting
    OBVIOUS
<1>4. PICK q : q = [r EXCEPT !.waiting = n]
    OBVIOUS
<1>5. server' = [server EXCEPT ![s] = q]
    BY <1>1, <1>2, <1>3, <1>4, Zenon
<1>6. server[s].append # "idle"
    BY DEF Finish
<1>7. /\ r \in ServerType /\ r.append = "idle"
      /\ r.memory = Latest(Append(server[s].memory, server[s].record), Window)
      /\ r.up = server[s].up /\ r.keeper = server[s].keeper /\ r.sole = server[s].sole
      /\ r.seen = server[s].seen /\ r.over = server[s].over /\ r.waiting = server[s].waiting
    BY <1>1, <1>6, RememberedFields
<1>8. n \in Nat /\ n >= r.waiting /\ (thread => n > 0)
  <2>1. r.waiting \in Nat
    BY <1>7 DEF ServerType
  <2> QED
    BY <1>3, <2>1
<1>9. q \in ServerType
    BY <1>4, <1>7, <1>8 DEF ServerType
<1>10. /\ q.append = r.append /\ q.sole = r.sole /\ q.memory = r.memory /\ q.up = r.up
       /\ q.keeper = r.keeper /\ q.seen = r.seen /\ q.over = r.over /\ q.waiting = n
    BY <1>4, <1>7 DEF ServerType
<1>11. Moved(s) /\ server'[s] = q
    BY <1>5, <1>9, MovesAlone DEF TypeOK
<1>12. TooLarge => ignored' \/ thread
    BY <1>2
<1> QED
    BY <1>7, <1>8, <1>10, <1>11, <1>12

\* Who was at the file has done so, and fills its window if it had none.
LEMMA DoneFields ==
    ASSUME TypeOK, StepsInv, NEW s \in Servers, server[s].keeper # "idle",
           NEW k \in Seq(Records)
    PROVE  /\ Done(s, k) \in ServerType
           /\ Done(s, k).up = TRUE /\ Done(s, k).append = "idle" /\ Done(s, k).keeper = "idle"
           /\ Done(s, k).waiting = server[s].waiting /\ Done(s, k).sole = server[s].sole
           /\ Done(s, k).memory = IF server[s].up THEN server[s].memory ELSE Latest(k, Window)
<1>1. PICK r : r = server[s]
    OBVIOUS
<1>2. r \in ServerType /\ r.append = "idle" /\ (~ r.up => r.waiting = 0)
    BY <1>1 DEF TypeOK, StepsInv, StepsFit
<1>3. CASE r.up
  <2>1. PICK q : q = [r EXCEPT !.keeper = "idle", !.seen = <<>>, !.over = FALSE]
    OBVIOUS
  <2>2. Done(s, k) = q
    BY <1>1, <1>3, <2>1, Zenon DEF Done
  <2>3. <<>> \in Seq(Records)
    OBVIOUS
  <2>4. q \in ServerType
    BY <1>2, <2>1, <2>3 DEF ServerType
  <2>5. /\ q.up = r.up /\ q.append = r.append /\ q.keeper = "idle" /\ q.waiting = r.waiting
        /\ q.sole = r.sole /\ q.memory = r.memory
    BY <1>2, <2>1 DEF ServerType
  <2> QED
    BY <1>1, <1>2, <1>3, <2>2, <2>4, <2>5 DEF ServerType
<1>4. CASE ~ r.up
  <2>1. PICK m : m = Latest(k, Window)
    OBVIOUS
  <2>2. PICK q : q = [Down EXCEPT !.up = TRUE, !.sole = r.sole, !.memory = m]
    OBVIOUS
  <2>3. Done(s, k) = q
    BY <1>1, <1>4, <2>1, <2>2, Zenon DEF Done
  <2>4. m \in Seq(Records)
    BY <2>1, LatestFacts
  <2>5. q \in ServerType
    BY <1>2, <2>2, <2>4, DownFacts DEF ServerType
  <2>6. /\ q.up = TRUE /\ q.append = "idle" /\ q.keeper = "idle" /\ q.waiting = 0
        /\ q.sole = r.sole /\ q.memory = m
    BY <2>2, DownFacts DEF ServerType
  <2> QED
    BY <1>1, <1>2, <1>4, <2>1, <2>3, <2>5, <2>6
<1> QED
    BY <1>3, <1>4

LEMMA ReadMoves ==
    ASSUME TypeOK, StepsInv, NEW s \in Servers, Read(s)
    PROVE  /\ Moved(s)
           /\ server'[s].append = "idle"
           /\ server'[s].waiting = server[s].waiting /\ server'[s].sole = server[s].sole
           /\ server[s].over =>
                /\ server'[s].keeper = "truncate" /\ server'[s].seen = Whole(file)
                /\ server'[s].up = server[s].up /\ server'[s].over
                /\ server'[s].memory = server[s].memory
           /\ ~ server[s].over =>
                /\ server'[s].keeper = "idle" /\ server'[s].up
                /\ server'[s].memory =
                     IF server[s].up THEN server[s].memory ELSE Latest(Whole(file), Window)
<1>1. PICK r : r = server[s]
    OBVIOUS
<1>2. PICK k : k = Whole(file)
    OBVIOUS
<1>3. r \in ServerType /\ r.keeper \in {"load", "read"} /\ r.append = "idle"
    BY <1>1 DEF TypeOK, StepsInv, StepsFit, Read
<1>4. k \in Seq(Records)
  <2>1. file \in Seq(Token) /\ LineFeed \in Token
    BY DEF TypeOK, Token
  <2> QED
    BY <1>2, <2>1, WholeFacts
<1>r. Readable(file) = k
    BY <1>2 DEF Read, Readable
<1>5. CASE r.over
  <2>1. PICK q : q = [r EXCEPT !.keeper = "truncate", !.seen = k]
    OBVIOUS
  <2>2. server' = [server EXCEPT ![s] = q]
    BY <1>1, <1>r, <1>5, <2>1, Zenon DEF Read
  <2>3. q \in ServerType
    BY <1>3, <1>4, <2>1 DEF ServerType
  <2>4. /\ q.keeper = "truncate" /\ q.seen = k /\ q.up = r.up /\ q.over = r.over
        /\ q.memory = r.memory /\ q.append = r.append /\ q.waiting = r.waiting
        /\ q.sole = r.sole
    BY <1>3, <2>1 DEF ServerType
  <2>5. Moved(s) /\ server'[s] = q
    BY <2>2, <2>3, MovesAlone DEF TypeOK
  <2> QED
    BY <1>1, <1>2, <1>3, <1>5, <2>4, <2>5
<1>6. CASE ~ r.over
  <2>1. PICK q : q = Done(s, k)
    OBVIOUS
  <2>2. server' = [server EXCEPT ![s] = q]
    BY <1>1, <1>r, <1>6, <2>1, Zenon DEF Read
  <2>3. /\ q \in ServerType
        /\ q.up = TRUE /\ q.append = "idle" /\ q.keeper = "idle"
        /\ q.waiting = r.waiting /\ q.sole = r.sole
        /\ q.memory = IF r.up THEN r.memory ELSE Latest(k, Window)
    BY <1>1, <1>3, <1>4, <2>1, DoneFields
  <2>4. Moved(s) /\ server'[s] = q
    BY <2>2, <2>3, MovesAlone DEF TypeOK
  <2> QED
    BY <1>1, <1>2, <1>3, <1>6, <2>3, <2>4
<1> QED
    BY <1>5, <1>6

LEMMA ReadFailsMoves ==
    ASSUME TypeOK, StepsInv, NEW s \in Servers, ReadFails(s)
    PROVE  /\ Moved(s)
           /\ server'[s].append = "idle" /\ server'[s].keeper = "idle" /\ server'[s].up
           /\ ~ server'[s].sole
<1>1. PICK r : r = Done(s, <<>>)
    OBVIOUS
<1>2. PICK q : q = [r EXCEPT !.sole = FALSE]
    OBVIOUS
<1>3. server' = [server EXCEPT ![s] = q] /\ server[s].keeper # "idle"
    BY <1>1, <1>2 DEF ReadFails
<1>4. <<>> \in Seq(Records)
    OBVIOUS
<1>5. r \in ServerType /\ r.up = TRUE /\ r.append = "idle" /\ r.keeper = "idle"
    BY <1>1, <1>3, <1>4, DoneFields
<1>6. q \in ServerType
    BY <1>2, <1>5 DEF ServerType
<1>7. q.up = r.up /\ q.append = r.append /\ q.keeper = r.keeper /\ q.sole = FALSE
    BY <1>2, <1>5 DEF ServerType
<1>8. Moved(s) /\ server'[s] = q
    BY <1>3, <1>6, MovesAlone DEF TypeOK
<1> QED
    BY <1>5, <1>7, <1>8

LEMMA FillMoves ==
    ASSUME TypeOK, StepsInv, NEW s \in Servers, Fill(s)
    PROVE  /\ Moved(s)
           /\ server'[s].append = "idle" /\ server'[s].keeper = "idle" /\ server'[s].up
           /\ server'[s].waiting = server[s].waiting /\ server'[s].sole = server[s].sole
           /\ server'[s].memory =
                IF server[s].up THEN server[s].memory ELSE Latest(server[s].seen, Window)
<1>1. PICK k : k = server[s].seen
    OBVIOUS
<1>2. PICK q : q = Done(s, k)
    OBVIOUS
<1>3. server' = [server EXCEPT ![s] = q] /\ server[s].keeper # "idle"
    BY <1>1, <1>2 DEF Fill
<1>4. k \in Seq(Records)
    BY <1>1 DEF TypeOK, ServerType
<1>5. /\ q \in ServerType
      /\ q.up = TRUE /\ q.append = "idle" /\ q.keeper = "idle"
      /\ q.waiting = server[s].waiting /\ q.sole = server[s].sole
      /\ q.memory = IF server[s].up THEN server[s].memory ELSE Latest(k, Window)
    BY <1>2, <1>3, <1>4, DoneFields
<1>6. Moved(s) /\ server'[s] = q
    BY <1>3, <1>5, MovesAlone DEF TypeOK
<1> QED
    BY <1>1, <1>5, <1>6

LEMMA RewriteFailsMoves ==
    ASSUME TypeOK, StepsInv, NEW s \in Servers, RewriteFails(s)
    PROVE  /\ Moved(s)
           /\ server'[s].append = "idle" /\ server'[s].keeper = "idle" /\ server'[s].up
           /\ server'[s].waiting = server[s].waiting /\ server'[s].sole = server[s].sole
           /\ server'[s].memory =
                IF server[s].up THEN server[s].memory ELSE Latest(server[s].seen, Window)
<1>1. PICK k : k = server[s].seen
    OBVIOUS
<1>2. PICK q : q = Done(s, k)
    OBVIOUS
<1>3. server' = [server EXCEPT ![s] = q] /\ server[s].keeper # "idle"
    BY <1>1, <1>2 DEF RewriteFails
<1>4. k \in Seq(Records)
    BY <1>1 DEF TypeOK, ServerType
<1>5. /\ q \in ServerType
      /\ q.up = TRUE /\ q.append = "idle" /\ q.keeper = "idle"
      /\ q.waiting = server[s].waiting /\ q.sole = server[s].sole
      /\ q.memory = IF server[s].up THEN server[s].memory ELSE Latest(k, Window)
    BY <1>2, <1>3, <1>4, DoneFields
<1>6. Moved(s) /\ server'[s] = q
    BY <1>3, <1>5, MovesAlone DEF TypeOK
<1> QED
    BY <1>1, <1>5, <1>6

--------------------------------------------------------------------------------
(***************************************************************************)
(* What the steps do with the file                                         *)
(***************************************************************************)
LEMMA KeptType ==
    ASSUME NEW k \in Seq(Records)
    PROVE  Kept(k) \in Seq(Records)
<1>1. CASE k = <<>>
    BY <1>1 DEF Kept
<1>2. CASE k # <<>>
  <2>1. PICK i \in 1..Len(k) : Kept(k) = From(k, i)
    BY <1>2, KeptFacts
  <2>2. i \in 1..(Len(k) + 1)
    OBVIOUS
  <2> QED
    BY <2>1, <2>2, FromFacts
<1> QED
    BY <1>1, <1>2

LEMMA FillType ==
    ASSUME TypeOK, NEW s \in Servers, Fill(s)
    PROVE  /\ file' \in Seq(Token)
           /\ file = <<>> => file' = Lines(Kept(server[s].seen))
<1>1. PICK l : l = Lines(Kept(server[s].seen))
    OBVIOUS
<1>2. l \in Seq(Token)
  <2>1. server[s].seen \in Seq(Records)
    BY DEF TypeOK, ServerType
  <2> QED
    BY <1>1, <2>1, KeptType, LinesFacts
<1>3. PICK e : e = SubSeq(file, Len(l) + 1, Len(file))
    OBVIOUS
<1>4. file' = l \o e
    BY <1>1, <1>3 DEF Fill, From
<1>5. e \in Seq(Token)
    BY <1>2, <1>3 DEF TypeOK
<1>6. file = <<>> => e = <<>>
  <2>1. ASSUME file = <<>>
        PROVE  e = <<>>
    <3>1. Len(file) = 0 /\ Len(l) \in Nat
      BY <1>2, <2>1
    <3>2. Len(e) = 0
      BY <1>3, <2>1, <3>1
    <3> QED
      BY <1>5, <3>2, EmptySeq
  <2> QED
    BY <2>1
<1> QED
    BY <1>1, <1>2, <1>4, <1>5, <1>6

LEMMA TypeStep ==
    ASSUME TypeOK, StepsInv, [Next]_vars
    PROVE  TypeOK'
<1> USE DEF TypeOK
<1>1. /\ \A t \in Token : Append(file, t) \in Seq(Token)
      /\ \A r \in Records : Append(log, r) \in Seq(Records)
      /\ LineFeed \in Token /\ Part \subseteq Token /\ Records \subseteq Token
      /\ <<>> \in Seq(Token) /\ next + 1 \in Nat \ {0} /\ cuts + 1 \in Nat
    BY DEF Token
<1>2. ASSUME NEW s \in Servers, Record(s)
      PROVE  TypeOK'
    BY <1>1, <1>2, RecordMoves DEF Moved, Record
<1>3. ASSUME NEW s \in Servers, WriteLine(s)
      PROVE  TypeOK'
  <2>1. server[s].record \in Records
    BY <1>3 DEF StepsInv, StepsFit, WriteLine
  <2>2. raced' \in BOOLEAN
    BY <1>3 DEF WriteLine, Meets
  <2> QED
    BY <1>1, <1>3, <2>1, <2>2, WriteLineMoves DEF Moved, WriteLine
<1>4. ASSUME NEW s \in Servers, WriteFeed(s)
      PROVE  TypeOK'
  <2>1. raced' \in BOOLEAN
    BY <1>4 DEF WriteFeed, Meets
  <2> QED
    BY <1>1, <1>4, <2>1, WriteFeedMoves DEF Moved, WriteFeed
<1>5. ASSUME NEW s \in Servers, AppendFails(s)
      PROVE  TypeOK'
  <2>1. raced' \in BOOLEAN /\ ignored' \in BOOLEAN /\ cuts' \in Nat
    BY <1>1, <1>5 DEF AppendFails, Meets
  <2>2. file' = file \/ \E u \in Part : file' = Append(file, u)
    BY <1>5 DEF AppendFails, Part
  <2>3. file' \in Seq(Token)
    BY <1>1, <2>2
  <2> QED
    BY <1>5, <2>1, <2>3, AppendFailsMoves DEF Moved, AppendFails
<1>6. ASSUME NEW s \in Servers, Finish(s)
      PROVE  TypeOK'
  <2>1. ignored' \in BOOLEAN
    BY <1>6 DEF Finish, TooLarge
  <2> QED
    BY <1>6, <2>1, FinishMoves DEF Moved, Finish
<1>7. ASSUME NEW s \in Servers, Start(s)
      PROVE  TypeOK'
    BY <1>7, StartMoves DEF Start
<1>8. ASSUME NEW s \in Servers, Measure(s)
      PROVE  TypeOK'
    BY <1>8, MeasureMoves DEF Moved, Measure
<1>9. ASSUME NEW s \in Servers, Read(s)
      PROVE  TypeOK'
  <2>1. raced' \in BOOLEAN
    BY <1>9 DEF Read
  <2> QED
    BY <1>9, <2>1, ReadMoves DEF Moved, Read
<1>10. ASSUME NEW s \in Servers, ReadFails(s)
       PROVE  TypeOK'
    BY <1>10, ReadFailsMoves DEF Moved, ReadFails
<1>11. ASSUME NEW s \in Servers, Truncate(s)
       PROVE  TypeOK'
    BY <1>1, <1>11, TruncateMoves DEF Moved, Truncate
<1>12. ASSUME NEW s \in Servers, Fill(s)
       PROVE  TypeOK'
    BY <1>12, FillType, FillMoves DEF Moved, Fill
<1>13. ASSUME NEW s \in Servers, RewriteFails(s)
       PROVE  TypeOK'
  <2>1. raced' \in BOOLEAN
    BY <1>13 DEF RewriteFails
  <2> QED
    BY <1>13, <2>1, RewriteFailsMoves DEF Moved, RewriteFails
<1>14. ASSUME NEW s \in Servers, Exit(s)
       PROVE  TypeOK'
  <2>1. raced' \in BOOLEAN /\ cuts' \in Nat
    BY <1>1, <1>14 DEF Exit
  <2> QED
    BY <1>14, <2>1, ExitMoves DEF Moved, Exit
<1>15. CASE UNCHANGED vars
    BY <1>15 DEF vars
<1> QED
    BY <1>2, <1>3, <1>4, <1>5, <1>6, <1>7, <1>8, <1>9, <1>10, <1>11, <1>12, <1>13, <1>14,
       <1>15 DEF Next

LEMMA StepsStep ==
    ASSUME TypeOK, StepsInv, [Next]_vars
    PROVE  StepsInv'
<1>1. ASSUME NEW s \in Servers, Moved(s), StepsFit(server'[s])
      PROVE  StepsInv'
    BY <1>1, Zenon DEF Moved, StepsInv
<1>2. \A s \in Servers : StepsFit(server[s])
    BY DEF StepsInv
<1>3. ASSUME NEW s \in Servers, Record(s)
      PROVE  StepsInv'
  <2>1. server[s].up /\ server[s].append = "idle" /\ server[s].keeper = "idle"
    BY <1>3 DEF Record, FileFree
  <2>2. /\ Moved(s)
        /\ server'[s].append = "line" /\ server'[s].record \in Records
        /\ server'[s].up = server[s].up /\ server'[s].keeper = server[s].keeper
    BY <1>3, RecordMoves
  <2>3. StepsFit(server'[s])
    BY <2>1, <2>2 DEF StepsFit
  <2> QED
    BY <1>1, <2>2, <2>3
<1>4. ASSUME NEW s \in Servers, WriteLine(s)
      PROVE  StepsInv'
  <2>1. server[s].append = "line" /\ StepsFit(server[s])
    BY <1>2, <1>4 DEF WriteLine
  <2>2. /\ Moved(s)
        /\ server'[s].append = "feed" /\ server'[s].record = server[s].record
        /\ server'[s].up = server[s].up /\ server'[s].keeper = server[s].keeper
    BY <1>4, WriteLineMoves
  <2>3. StepsFit(server'[s])
    BY <2>1, <2>2 DEF StepsFit
  <2> QED
    BY <1>1, <2>2, <2>3
<1>5. ASSUME NEW s \in Servers, WriteFeed(s)
      PROVE  StepsInv'
  <2>1. server[s].append = "feed" /\ StepsFit(server[s])
    BY <1>2, <1>5 DEF WriteFeed
  <2>2. /\ Moved(s)
        /\ server'[s].append = "check" /\ server'[s].record = server[s].record
        /\ server'[s].up = server[s].up /\ server'[s].keeper = server[s].keeper
    BY <1>5, WriteFeedMoves
  <2>3. StepsFit(server'[s])
    BY <2>1, <2>2 DEF StepsFit
  <2> QED
    BY <1>1, <2>2, <2>3
<1>6. ASSUME NEW s \in Servers, AppendFails(s)
      PROVE  StepsInv'
  <2>1. server[s].append # "idle" /\ StepsFit(server[s])
    BY <1>2, <1>6 DEF AppendFails
  <2>2. /\ Moved(s)
        /\ server'[s].append = "idle"
        /\ server'[s].up = server[s].up /\ server'[s].keeper = server[s].keeper
    BY <1>6, AppendFailsMoves
  <2>3. StepsFit(server'[s])
    BY <2>1, <2>2 DEF StepsFit
  <2> QED
    BY <1>1, <2>2, <2>3
<1>7. ASSUME NEW s \in Servers, Finish(s)
      PROVE  StepsInv'
  <2>1. server[s].append # "idle" /\ StepsFit(server[s])
    BY <1>2, <1>7 DEF Finish
  <2>2. /\ Moved(s)
        /\ server'[s].append = "idle"
        /\ server'[s].up = server[s].up /\ server'[s].keeper = server[s].keeper
    BY <1>7, FinishMoves
  <2>3. StepsFit(server'[s])
    BY <2>1, <2>2 DEF StepsFit
  <2> QED
    BY <1>1, <2>2, <2>3
<1>8. ASSUME NEW s \in Servers, Start(s)
      PROVE  StepsInv'
  <2>1. StepsFit(server'[s])
    BY <1>8, StartMoves DEF StepsFit
  <2>2. ASSUME NEW t \in Servers \ {s}
        PROVE  StepsFit(server'[t])
    <3>1. /\ server'[t].up = server[t].up /\ server'[t].append = server[t].append
          /\ server'[t].record = server[t].record /\ server'[t].keeper = server[t].keeper
          /\ server'[t].over = server[t].over /\ server'[t].waiting = server[t].waiting
      BY <1>8, StartMoves
    <3>2. StepsFit(server[t])
      BY <1>2
    <3> QED
      BY <3>1, <3>2 DEF StepsFit
  <2> QED
    BY <2>1, <2>2, Zenon DEF StepsInv
<1>9. ASSUME NEW s \in Servers, Measure(s)
      PROVE  StepsInv'
  <2>1. server[s].up
    BY <1>2, <1>9 DEF Measure, StepsFit, TypeOK, ServerType
  <2>2. server[s].append = "idle" /\ server[s].keeper = "idle"
    BY <1>9 DEF Measure, FileFree
  <2>3. /\ Moved(s)
        /\ server'[s].over = TooLarge /\ server'[s].keeper = IF TooLarge THEN "read" ELSE "idle"
        /\ server'[s].up = server[s].up /\ server'[s].append = server[s].append
    BY <1>9, MeasureMoves
  <2>4. StepsFit(server'[s])
    BY <2>1, <2>2, <2>3 DEF StepsFit
  <2> QED
    BY <1>1, <2>3, <2>4
<1>10. ASSUME NEW s \in Servers, Read(s)
       PROVE  StepsInv'
  <2>1. server[s].keeper \in {"load", "read"} /\ StepsFit(server[s])
    BY <1>2, <1>10 DEF Read
  <2>2. /\ Moved(s) /\ server'[s].append = "idle"
        /\ server'[s].waiting = server[s].waiting
        /\ server[s].over => server'[s].keeper = "truncate" /\ server'[s].up = server[s].up /\ server'[s].over
        /\ ~ server[s].over => server'[s].keeper = "idle" /\ server'[s].up
    BY <1>10, ReadMoves
  <2>3. StepsFit(server'[s])
    BY <2>1, <2>2 DEF StepsFit
  <2> QED
    BY <1>1, <2>2, <2>3
<1>11. ASSUME NEW s \in Servers, ReadFails(s)
       PROVE  StepsInv'
  <2>1. Moved(s) /\ StepsFit(server'[s])
    BY <1>2, <1>11, ReadFailsMoves DEF StepsFit
  <2> QED
    BY <1>1, <2>1
<1>12. ASSUME NEW s \in Servers, Truncate(s)
       PROVE  StepsInv'
  <2>1. server[s].keeper = "truncate"
    BY <1>12 DEF Truncate
  <2>2. Moved(s) /\ StepsFit(server'[s])
    BY <1>2, <1>12, <2>1, TruncateMoves DEF StepsFit
  <2> QED
    BY <1>1, <2>2
<1>13. ASSUME NEW s \in Servers, Fill(s)
       PROVE  StepsInv'
  <2>1. Moved(s) /\ StepsFit(server'[s])
    BY <1>2, <1>13, FillMoves DEF StepsFit
  <2> QED
    BY <1>1, <2>1
<1>14. ASSUME NEW s \in Servers, RewriteFails(s)
       PROVE  StepsInv'
  <2>1. Moved(s) /\ StepsFit(server'[s])
    BY <1>2, <1>14, RewriteFailsMoves DEF StepsFit
  <2> QED
    BY <1>1, <2>1
<1>15. ASSUME NEW s \in Servers, Exit(s)
       PROVE  StepsInv'
  <2>1. Moved(s) /\ StepsFit(server'[s])
    BY <1>15, ExitMoves, DownFacts DEF StepsFit
  <2> QED
    BY <1>1, <2>1
<1>16. CASE UNCHANGED vars
    BY <1>16 DEF vars, StepsInv
<1> QED
    BY <1>3, <1>4, <1>5, <1>6, <1>7, <1>8, <1>9, <1>10, <1>11,
       <1>12, <1>13, <1>14, <1>15, <1>16 DEF Next

\* That two processes have met at the file is never forgotten, and so are cuts.
LEMMA NothingForgotten ==
    ASSUME TypeOK, [Next]_vars
    PROVE  /\ raced => raced'
           /\ cuts' = 0 => cuts = 0
<1>1. cuts + 1 # 0
    BY DEF TypeOK
<1>2. CASE UNCHANGED vars
    BY <1>2 DEF vars
<1>3. ASSUME NEW s \in Servers,
             \/ Record(s) \/ WriteLine(s) \/ WriteFeed(s) \/ AppendFails(s) \/ Finish(s)
             \/ Start(s) \/ Measure(s) \/ Read(s) \/ ReadFails(s) \/ Truncate(s) \/ Fill(s)
             \/ RewriteFails(s) \/ Exit(s)
      PROVE  (raced => raced') /\ (cuts' = 0 => cuts = 0)
  <2>1. CASE Record(s)
    BY <2>1 DEF Record
  <2>2. CASE WriteLine(s)
    BY <2>2 DEF WriteLine
  <2>3. CASE WriteFeed(s)
    BY <2>3 DEF WriteFeed
  <2>4. CASE AppendFails(s)
    BY <1>1, <2>4 DEF AppendFails
  <2>5. CASE Finish(s)
    BY <2>5 DEF Finish
  <2>6. CASE Start(s)
    BY <2>6 DEF Start
  <2>7. CASE Measure(s)
    BY <2>7 DEF Measure
  <2>8. CASE Read(s)
    BY <2>8 DEF Read
  <2>9. CASE ReadFails(s)
    BY <2>9 DEF ReadFails
  <2>10. CASE Truncate(s)
    BY <2>10 DEF Truncate
  <2>11. CASE Fill(s)
    BY <2>11 DEF Fill
  <2>12. CASE RewriteFails(s)
    BY <2>12 DEF RewriteFails
  <2>13. CASE Exit(s)
    BY <1>1, <2>13 DEF Exit
  <2> QED
    BY <1>3, <2>1, <2>2, <2>3, <2>4, <2>5, <2>6, <2>7, <2>8, <2>9, <2>10,
       <2>11, <2>12, <2>13
<1> QED
    BY <1>2, <1>3 DEF Next

LEMMA RewriteStep ==
    ASSUME TypeOK, StepsInv, RewriteInv, [Next]_vars
    PROVE  RewriteInv'
<1> SUFFICES ASSUME ~ raced'
             PROVE  RewriteInv'
    BY DEF RewriteInv
<1>1. /\ \A s, t \in Servers :
           /\ server[s].keeper \in {"truncate", "fill"}
           /\ server[t].keeper \in {"truncate", "fill"}
           => s = t
      /\ \A s \in Servers :
           /\ server[s].keeper = "truncate" => server[s].seen = Whole(file)
           /\ server[s].keeper = "fill" => file = <<>>
    BY NothingForgotten DEF RewriteInv
\* Nobody else begins to rewrite the file, which stays as it is.
<1>2. ASSUME file' = file,
             \A t \in Servers : server'[t].keeper \in {"truncate", "fill"} =>
               server'[t].keeper = server[t].keeper /\ server'[t].seen = server[t].seen
      PROVE  RewriteInv'
    BY <1>1, <1>2 DEF RewriteInv
\* Nobody rewrites the file.
<1>3. ASSUME \A t \in Servers : ~ (server'[t].keeper \in {"truncate", "fill"})
      PROVE  RewriteInv'
    BY <1>3 DEF RewriteInv
<1>4. ASSUME NEW s \in Servers, Record(s)
      PROVE  RewriteInv'
  <2>1. file' = file
    BY <1>4 DEF Record
  <2> QED
    BY <1>2, <1>4, <2>1, RecordMoves DEF Moved
<1>5. ASSUME NEW s \in Servers, server[s].append # "idle", Meets(s) => raced',
             Moved(s), server'[s].keeper = server[s].keeper
      PROVE  RewriteInv'
  <2>1. server[s].keeper = "idle"
    BY <1>5 DEF StepsInv, StepsFit
  <2>2. \A t \in Servers \ {s} : ~ (server[t].keeper \in {"truncate", "fill"})
    BY <1>5 DEF Meets
  <2> QED
    BY <1>3, <1>5, <2>1, <2>2 DEF Moved
<1>6. ASSUME NEW s \in Servers, WriteLine(s)
      PROVE  RewriteInv'
  <2>1. server[s].append # "idle" /\ (Meets(s) => raced')
    BY <1>6 DEF WriteLine
  <2> QED
    BY <1>5, <1>6, <2>1, WriteLineMoves
<1>7. ASSUME NEW s \in Servers, WriteFeed(s)
      PROVE  RewriteInv'
  <2>1. server[s].append # "idle" /\ (Meets(s) => raced')
    BY <1>7 DEF WriteFeed
  <2> QED
    BY <1>5, <1>7, <2>1, WriteFeedMoves
<1>8. ASSUME NEW s \in Servers, AppendFails(s)
      PROVE  RewriteInv'
  <2>1. server[s].append # "idle" /\ (Meets(s) => raced')
    BY <1>8 DEF AppendFails
  <2> QED
    BY <1>5, <1>8, <2>1, AppendFailsMoves
<1>9. ASSUME NEW s \in Servers, Finish(s)
      PROVE  RewriteInv'
  <2>1. file' = file
    BY <1>9 DEF Finish
  <2> QED
    BY <1>2, <1>9, <2>1, FinishMoves DEF Moved
<1>10. ASSUME NEW s \in Servers, Start(s)
       PROVE  RewriteInv'
  <2>1. file' = file
    BY <1>10 DEF Start
  <2>2. \A t \in Servers \ {s} :
          server'[t].keeper = server[t].keeper /\ server'[t].seen = server[t].seen
    BY <1>10, StartMoves
  <2>3. server'[s].keeper = "load"
    BY <1>10, StartMoves
  <2> QED
    BY <1>2, <2>1, <2>2, <2>3
<1>11. ASSUME NEW s \in Servers, Measure(s)
       PROVE  RewriteInv'
  <2>1. file' = file
    BY <1>11 DEF Measure
  <2>2. Moved(s) /\ server'[s].keeper \in {"idle", "read"}
    BY <1>11, MeasureMoves
  <2> QED
    BY <1>2, <2>1, <2>2 DEF Moved
<1>12. ASSUME NEW s \in Servers, Read(s)
       PROVE  RewriteInv'
  <2>1. file' = file
    BY <1>12 DEF Read
  <2>2. CASE server[s].over
    <3>1. \A t \in Servers \ {s} : ~ (server[t].keeper \in {"truncate", "fill"})
      BY <1>12, <2>2 DEF Read
    <3>2. Moved(s) /\ server'[s].keeper = "truncate" /\ server'[s].seen = Whole(file)
      BY <1>12, <2>2, ReadMoves
    <3> QED
      BY <2>1, <3>1, <3>2 DEF Moved, RewriteInv
  <2>3. CASE ~ server[s].over
    <3>1. Moved(s) /\ server'[s].keeper = "idle"
      BY <1>12, <2>3, ReadMoves
    <3> QED
      BY <1>2, <2>1, <3>1 DEF Moved
  <2> QED
    BY <2>2, <2>3
<1>13. ASSUME NEW s \in Servers, ReadFails(s)
       PROVE  RewriteInv'
  <2>1. file' = file
    BY <1>13 DEF ReadFails
  <2> QED
    BY <1>2, <1>13, <2>1, ReadFailsMoves DEF Moved
<1>14. ASSUME NEW s \in Servers, Truncate(s)
       PROVE  RewriteInv'
  <2>1. file' = <<>> /\ server[s].keeper = "truncate"
    BY <1>14 DEF Truncate
  <2>2. Moved(s) /\ server'[s].keeper = "fill"
    BY <1>14, TruncateMoves
  <2>3. \A t \in Servers \ {s} : ~ (server'[t].keeper \in {"truncate", "fill"})
    BY <1>1, <2>1, <2>2 DEF Moved
  <2> QED
    BY <2>1, <2>2, <2>3 DEF RewriteInv
<1>15. ASSUME NEW s \in Servers, Fill(s)
       PROVE  RewriteInv'
  <2>1. server[s].keeper = "fill"
    BY <1>15 DEF Fill
  <2>2. Moved(s) /\ server'[s].keeper = "idle"
    BY <1>15, FillMoves
  <2> QED
    BY <1>1, <1>3, <2>1, <2>2 DEF Moved
<1>16. ASSUME NEW s \in Servers, RewriteFails(s)
       PROVE  RewriteInv'
  <2>1. file' = file
    BY <1>16 DEF RewriteFails
  <2> QED
    BY <1>2, <1>16, <2>1, RewriteFailsMoves DEF Moved
<1>17. ASSUME NEW s \in Servers, Exit(s)
       PROVE  RewriteInv'
  <2>1. file' = file
    BY <1>17 DEF Exit
  <2> QED
    BY <1>2, <1>17, <2>1, ExitMoves, DownFacts DEF Moved
<1>18. CASE UNCHANGED vars
    BY <1>2, <1>18 DEF vars
<1> QED
    BY <1>4, <1>6, <1>7, <1>8, <1>9, <1>10, <1>11, <1>12, <1>13, <1>14, <1>15, <1>16, <1>17,
       <1>18 DEF Next

\* Whoever appends a line or its end meets nobody, or it is recorded.
LEMMA EndStep ==
    ASSUME TypeOK, StepsInv, RewriteInv, EndInv, [Next]_vars
    PROVE  EndInv'
<1> SUFFICES ASSUME cuts' = 0, ~ raced'
             PROVE  \/ file' = <<>>
                    \/ file'[Len(file')] = LineFeed
                    \/ \E t \in Servers : server'[t].append = "feed"
    BY DEF EndInv
<1>1. cuts = 0 /\ ~ raced
    BY NothingForgotten
<1>2. \/ file = <<>>
      \/ file[Len(file)] = LineFeed
      \/ \E t \in Servers : server[t].append = "feed"
    BY <1>1 DEF EndInv
<1>a. \A f \in Seq(Token) : Append(f, LineFeed)[Len(Append(f, LineFeed))] = LineFeed
  <2> SUFFICES ASSUME NEW f \in Seq(Token)
               PROVE  Append(f, LineFeed)[Len(Append(f, LineFeed))] = LineFeed
    OBVIOUS
  <2>1. Len(f) \in Nat /\ Len(Append(f, LineFeed)) = Len(f) + 1
    OBVIOUS
  <2>2. Append(f, LineFeed)[Len(f) + 1] = LineFeed
    OBVIOUS
  <2> QED
    BY <2>1, <2>2
\* The file stays as it is, and who was between a line and its end still is.
<1>3. ASSUME file' = file,
             \A t \in Servers : server[t].append = "feed" => server'[t].append = "feed"
      PROVE  \/ file' = <<>>
             \/ file'[Len(file')] = LineFeed
             \/ \E t \in Servers : server'[t].append = "feed"
    BY <1>2, <1>3
<1> DEFINE G == \/ file' = <<>>
                \/ file'[Len(file')] = LineFeed
                \/ \E t \in Servers : server'[t].append = "feed"
<1>4. ASSUME NEW s \in Servers, Record(s)
      PROVE  G
  <2>1. file' = file /\ server[s].append # "feed"
    BY <1>4 DEF Record, FileFree
  <2> QED
    BY <1>3, <1>4, <2>1, RecordMoves DEF Moved
<1>5. ASSUME NEW s \in Servers, WriteLine(s)
      PROVE  G
    BY <1>5, WriteLineMoves
<1>6. ASSUME NEW s \in Servers, WriteFeed(s)
      PROVE  G
    BY <1>6, <1>a DEF WriteFeed, TypeOK
<1>7. ASSUME NEW s \in Servers, AppendFails(s)
      PROVE  G
  <2>1. cuts + 1 # 0
    BY DEF TypeOK
  <2>2. server[s].append = "line" /\ file' = file
    BY <1>7, <2>1 DEF AppendFails
  <2> QED
    BY <1>3, <1>7, <2>2, AppendFailsMoves DEF Moved
<1>8. ASSUME NEW s \in Servers, Finish(s)
      PROVE  G
  <2>1. file' = file /\ server[s].append = "check"
    BY <1>8 DEF Finish
  <2> QED
    BY <1>3, <1>8, <2>1, FinishMoves DEF Moved
<1>9. ASSUME NEW s \in Servers, Start(s)
      PROVE  G
  <2>1. file' = file /\ server[s].append # "feed"
    BY <1>9, DownFacts DEF Start
  <2>2. \A t \in Servers \ {s} : server'[t].append = server[t].append
    BY <1>9, StartMoves
  <2> QED
    BY <1>3, <2>1, <2>2
<1>10. ASSUME NEW s \in Servers, Measure(s)
       PROVE  G
  <2>1. file' = file
    BY <1>10 DEF Measure
  <2>2. Moved(s) /\ server'[s].append = server[s].append
    BY <1>10, MeasureMoves
  <2> QED
    BY <1>3, <2>1, <2>2 DEF Moved
<1>11. ASSUME NEW s \in Servers, server[s].keeper # "idle", file' = file, Moved(s)
       PROVE  G
  <2>1. server[s].append # "feed"
    BY <1>11 DEF StepsInv, StepsFit
  <2> QED
    BY <1>3, <1>11, <2>1 DEF Moved
<1>12. ASSUME NEW s \in Servers, Read(s)
       PROVE  G
    BY <1>11, <1>12, ReadMoves DEF Read
<1>13. ASSUME NEW s \in Servers, ReadFails(s)
       PROVE  G
    BY <1>11, <1>13, ReadFailsMoves DEF ReadFails
<1>14. ASSUME NEW s \in Servers, Truncate(s)
       PROVE  G
    BY <1>14 DEF Truncate
<1>15. ASSUME NEW s \in Servers, Fill(s)
       PROVE  G
  <2>1. PICK k : k = Kept(server[s].seen)
    OBVIOUS
  <2>2. k \in Seq(Records)
    BY <2>1, KeptType DEF TypeOK, ServerType
  <2>3. file = <<>>
    BY <1>1, <1>15 DEF RewriteInv, Fill
  <2>4. file' = Lines(k)
    BY <1>15, <2>1, <2>3, FillType
  <2> QED
    BY <2>2, <2>4, LinesFacts
<1>16. ASSUME NEW s \in Servers, RewriteFails(s)
       PROVE  G
    BY <1>11, <1>16, RewriteFailsMoves DEF RewriteFails
<1>17. ASSUME NEW s \in Servers, Exit(s)
       PROVE  G
  <2>1. cuts + 1 # 0
    BY DEF TypeOK
  <2>2. server[s].append # "feed" /\ file' = file
    BY <1>17, <2>1 DEF Exit
  <2> QED
    BY <1>3, <1>17, <2>2, ExitMoves DEF Moved
<1>18. CASE UNCHANGED vars
    BY <1>3, <1>18 DEF vars
<1> QED
    BY <1>4, <1>5, <1>6, <1>7, <1>8, <1>9, <1>10, <1>12, <1>13, <1>14, <1>15, <1>16, <1>17,
       <1>18 DEF Next

--------------------------------------------------------------------------------
(***************************************************************************)
(* The latest records stay                                                 *)
(***************************************************************************)
LEMMA RecentAppend ==
    ASSUME NEW l \in Seq(Records), NEW k, NEW r \in Records, Recent(l, k)
    PROVE  Recent(Append(l, r), Append(k, r))
<1>1. PICK i \in 1..(Len(l) + 1) :
        /\ k = From(l, i)
        /\ i = 1 \/ (l # <<>> /\ i <= Len(l) /\ Size(From(l, i - 1)) > MaxBytes)
    BY DEF Recent
<1>2. PICK a : a = Append(l, r)
    OBVIOUS
<1>3. /\ Len(l) \in Nat /\ a \in Seq(Records) /\ Len(a) = Len(l) + 1 /\ a # <<>>
      /\ i \in 1..(Len(a) + 1)
    BY <1>2
<1>4. Append(k, r) = From(a, i)
    BY <1>1, <1>2, FromAppend
<1>5. ASSUME i # 1
      PROVE  i <= Len(a) /\ Size(From(a, i - 1)) > MaxBytes
  <2>1. i - 1 \in 1..(Len(l) + 1) /\ i <= Len(a)
    BY <1>1, <1>3, <1>5
  <2>2. PICK b : b = From(l, i - 1)
    OBVIOUS
  <2>3. b \in Seq(Records)
    BY <2>1, <2>2, FromFacts
  <2>4. b \in Seq(Token) /\ r \in Token
    BY <2>3 DEF Token
  <2>5. Size(Append(b, r)) = Size(b) + WeightOf(r) /\ Size(b) \in Nat /\ WeightOf(r) \in Nat
    BY <2>4, SizeFacts, WeightFacts
  <2>6. From(a, i - 1) = Append(b, r)
    BY <1>2, <2>1, <2>2, FromAppend
  <2>7. Size(b) > MaxBytes /\ MaxBytes \in Nat
    BY <1>1, <1>5, <2>2, RuntimeMetricsAssumption
  <2>8. Size(b) + WeightOf(r) > MaxBytes
    BY <2>5, <2>7
  <2>9. Size(From(a, i - 1)) > MaxBytes
    BY <2>5, <2>6, <2>8
  <2> QED
    BY <2>1, <2>9
<1>6. Recent(a, Append(k, r))
    BY <1>3, <1>4, <1>5 DEF Recent
<1> QED
    BY <1>2, <1>6

LEMMA RecentKept ==
    ASSUME NEW l \in Seq(Records), NEW k \in Seq(Records), Recent(l, k)
    PROVE  Recent(l, Kept(k))
<1>1. CASE k = <<>>
    BY <1>1 DEF Kept
<1>2. CASE k # <<>>
  <2>1. PICK i \in 1..(Len(l) + 1) :
          /\ k = From(l, i)
          /\ i = 1 \/ (l # <<>> /\ i <= Len(l) /\ Size(From(l, i - 1)) > MaxBytes)
    BY DEF Recent
  <2>2. PICK j \in 1..Len(k) :
          /\ Kept(k) = From(k, j)
          /\ j = 1 \/ Size(From(k, j - 1)) > MaxBytes
    BY <1>2, KeptFacts
  <2>3. Len(l) \in Nat /\ Len(k) \in Nat /\ Len(k) = Len(l) - i + 1
    <3>1. Len(l) \in Nat /\ Len(k) \in Nat
      OBVIOUS
    <3>2. Len(From(l, i)) = Len(l) - i + 1
      BY FromFacts
    <3> QED
      BY <2>1, <3>1, <3>2
  <2>4. PICK n : n = i + j - 1
    OBVIOUS
  <2>5. n \in 1..(Len(l) + 1) /\ n <= Len(l)
    BY <2>1, <2>2, <2>3, <2>4
  <2>6. Kept(k) = From(l, n)
    <3>1. j \in 1..(Len(From(l, i)) + 1)
      BY <2>1, <2>2, <2>3
    <3> QED
      BY <2>1, <2>2, <2>4, <3>1, FromFrom
  <2>7. l # <<>>
    <3>1. ASSUME l = <<>>
          PROVE  FALSE
      <4>1. Len(l) = 0
        BY <3>1
      <4> QED
        BY <2>5, <4>1
    <3> QED
      BY <3>1
  <2>8. ASSUME n # 1
        PROVE  Size(From(l, n - 1)) > MaxBytes
    <3>1. CASE j = 1
      <4>1. n = i
        BY <2>1, <2>4, <3>1
      <4> QED
        BY <2>1, <2>8, <4>1
    <3>2. CASE j # 1
      <4>1. j - 1 \in 1..(Len(From(l, i)) + 1) /\ i + (j - 1) - 1 = n - 1
        BY <2>1, <2>2, <2>3, <2>4, <3>2
      <4>2. From(k, j - 1) = From(l, n - 1)
        BY <2>1, <4>1, FromFrom
      <4> QED
        BY <2>2, <3>2, <4>2
    <3> QED
      BY <3>1, <3>2
  <2> QED
    BY <2>5, <2>6, <2>7, <2>8 DEF Recent
<1> QED
    BY <1>1, <1>2

LEMMA RecentStep ==
    ASSUME TypeOK, StepsInv, RewriteInv, EndInv, RecentInv, [Next]_vars
    PROVE  RecentInv'
<1> SUFFICES ASSUME cuts' = 0, ~ raced'
             PROVE  /\ (\A t \in Servers : server'[t].keeper # "fill")
                         => Recent(log', Whole(file'))
                    /\ \A t \in Servers :
                         server'[t].keeper = "fill" => Recent(log', server'[t].seen)
    BY DEF RecentInv, Rewriting
<1>1. cuts = 0 /\ ~ raced
    BY NothingForgotten
<1>2. /\ (\A t \in Servers : server[t].keeper # "fill") => Recent(log, Whole(file))
      /\ \A t \in Servers : server[t].keeper = "fill" => Recent(log, server[t].seen)
    BY <1>1 DEF RecentInv, Rewriting
<1>k. \A t \in Servers : server[t].seen \in Seq(Records)
    BY DEF TypeOK, ServerType
<1> DEFINE G == /\ (\A t \in Servers : server'[t].keeper # "fill")
                     => Recent(log', Whole(file'))
                /\ \A t \in Servers :
                     server'[t].keeper = "fill" => Recent(log', server'[t].seen)
\* Nothing changes of what can be read, and who is about to fill the file still is.
<1>3. ASSUME Whole(file') = Whole(file), log' = log,
             \A t \in Servers : /\ server'[t].keeper = "fill" <=> server[t].keeper = "fill"
                                /\ server'[t].keeper = "fill" => server'[t].seen = server[t].seen
      PROVE  G
    BY <1>2, <1>3
<1>4. ASSUME NEW s \in Servers, Moved(s), file' = file, log' = log,
             server[s].keeper # "fill", server'[s].keeper # "fill"
      PROVE  G
    BY <1>3, <1>4 DEF Moved
<1>5. ASSUME NEW s \in Servers, Record(s)
      PROVE  G
  <2>1. file' = file /\ log' = log /\ server[s].keeper # "fill"
    BY <1>5 DEF Record, FileFree
  <2> QED
    BY <1>4, <1>5, <2>1, RecordMoves
<1>6. ASSUME NEW s \in Servers, server[s].append # "idle", ~ Meets(s)
      PROVE  \A t \in Servers : server[t].keeper # "fill"
  <2>1. server[s].keeper = "idle"
    BY <1>6 DEF StepsInv, StepsFit
  <2> QED
    BY <1>6, <2>1 DEF Meets
<1>7. ASSUME NEW s \in Servers, WriteLine(s)
      PROVE  G
  <2>1. server[s].append = "line" /\ ~ Meets(s)
    BY <1>7 DEF WriteLine
  <2>2. PICK r : r = server[s].record
    OBVIOUS
  <2>3. r \in Records
    BY <2>1, <2>2 DEF StepsInv, StepsFit
  <2>4. file' = Append(file, r) /\ log' = Append(log, r)
    BY <1>7, <2>2 DEF WriteLine
  <2>5. file = <<>> \/ file[Len(file)] = LineFeed
    BY <1>1, <2>1 DEF EndInv, Meets
  <2>6. Whole(file') = Append(Whole(file), r)
    <3>1. r \in Token
      BY <2>3 DEF Token
    <3> QED
      BY <2>3, <2>4, <2>5, <3>1, WholeFacts DEF TypeOK
  <2>7. \A t \in Servers : server[t].keeper # "fill"
    BY <1>6, <2>1
  <2>8. Recent(log', Whole(file'))
    BY <1>2, <2>3, <2>4, <2>6, <2>7, RecentAppend DEF TypeOK
  <2>9. \A t \in Servers : server'[t].keeper # "fill"
    BY <1>7, <2>7, WriteLineMoves DEF Moved
  <2> QED
    BY <2>8, <2>9
<1>8. ASSUME NEW s \in Servers, WriteFeed(s)
      PROVE  G
  <2>1. server[s].append # "idle" /\ ~ Meets(s) /\ file' = Append(file, LineFeed) /\ log' = log
    BY <1>8 DEF WriteFeed
  <2>2. Whole(file') = Whole(file)
    BY <2>1, WholeFacts DEF TypeOK, Token
  <2>3. \A t \in Servers : server[t].keeper # "fill"
    BY <1>6, <2>1
  <2>4. \A t \in Servers : server'[t].keeper # "fill"
    BY <1>8, <2>3, WriteFeedMoves DEF Moved
  <2> QED
    BY <1>3, <2>1, <2>2, <2>3, <2>4
<1>9. ASSUME NEW s \in Servers, AppendFails(s)
      PROVE  G
  <2>1. cuts + 1 # 0
    BY DEF TypeOK
  <2>2. server[s].append # "idle" /\ ~ Meets(s) /\ log' = log /\ file' = file
    BY <1>9, <2>1 DEF AppendFails
  <2>3. \A t \in Servers : server[t].keeper # "fill"
    BY <1>6, <2>2
  <2>4. \A t \in Servers : server'[t].keeper # "fill"
    BY <1>9, <2>3, AppendFailsMoves DEF Moved
  <2> QED
    BY <1>3, <2>2, <2>3, <2>4
<1>10. ASSUME NEW s \in Servers, Finish(s)
       PROVE  G
  <2>1. file' = file /\ log' = log /\ server[s].append # "idle"
    BY <1>10 DEF Finish
  <2>2. server[s].keeper = "idle"
    BY <2>1 DEF StepsInv, StepsFit
  <2> QED
    BY <1>4, <1>10, <2>1, <2>2, FinishMoves
<1>11. ASSUME NEW s \in Servers, Start(s)
       PROVE  G
  <2>1. file' = file /\ log' = log /\ server[s].keeper # "fill"
    BY <1>11, DownFacts DEF Start
  <2>2. server'[s].keeper = "load"
    BY <1>11, StartMoves
  <2>3. \A t \in Servers \ {s} :
          server'[t].keeper = server[t].keeper /\ server'[t].seen = server[t].seen
    BY <1>11, StartMoves
  <2> QED
    BY <1>3, <2>1, <2>2, <2>3
<1>12. ASSUME NEW s \in Servers, Measure(s)
       PROVE  G
  <2>1. file' = file /\ log' = log /\ server[s].keeper # "fill"
    BY <1>12 DEF Measure, FileFree
  <2>2. Moved(s) /\ server'[s].keeper # "fill"
    BY <1>12, MeasureMoves
  <2> QED
    BY <1>4, <2>1, <2>2
<1>13. ASSUME NEW s \in Servers, Read(s)
       PROVE  G
  <2>1. file' = file /\ log' = log /\ server[s].keeper # "fill"
    BY <1>13 DEF Read
  <2>2. Moved(s) /\ server'[s].keeper # "fill"
    BY <1>13, ReadMoves
  <2> QED
    BY <1>4, <2>1, <2>2
<1>14. ASSUME NEW s \in Servers, ReadFails(s)
       PROVE  G
  <2>1. file' = file /\ log' = log /\ server[s].keeper # "fill"
    BY <1>14 DEF ReadFails
  <2> QED
    BY <1>4, <1>14, <2>1, ReadFailsMoves
<1>15. ASSUME NEW s \in Servers, Truncate(s)
       PROVE  G
  <2>1. server[s].keeper = "truncate" /\ log' = log
    BY <1>15 DEF Truncate
  <2>2. Moved(s) /\ server'[s].keeper = "fill" /\ server'[s].seen = server[s].seen
    BY <1>15, TruncateMoves
  <2>3. server[s].seen = Whole(file) /\ \A t \in Servers : server[t].keeper # "fill"
    BY <1>1, <2>1 DEF RewriteInv
  <2>4. Recent(log, Whole(file))
    BY <1>2, <2>3
  <2>5. \A t \in Servers : server'[t].keeper = "fill" => t = s
    BY <2>2, <2>3 DEF Moved
  <2> QED
    BY <2>1, <2>2, <2>3, <2>4, <2>5
<1>16. ASSUME NEW s \in Servers, Fill(s)
       PROVE  G
  <2>1. server[s].keeper = "fill" /\ log' = log
    BY <1>16 DEF Fill
  <2>2. file = <<>> /\ \A t \in Servers \ {s} : server[t].keeper # "fill"
    BY <1>1, <2>1 DEF RewriteInv
  <2>3. PICK k : k = Kept(server[s].seen)
    OBVIOUS
  <2>4. k \in Seq(Records) /\ Recent(log, k)
    BY <1>2, <1>k, <2>1, <2>3, KeptType, RecentKept DEF TypeOK
  <2>5. file' = Lines(k)
    BY <1>16, <2>2, <2>3, FillType
  <2>6. Whole(file') = k
    BY <2>4, <2>5, LinesFacts
  <2>7. Moved(s) /\ server'[s].keeper = "idle"
    BY <1>16, FillMoves
  <2>8. \A t \in Servers : server'[t].keeper # "fill"
    BY <2>2, <2>7 DEF Moved
  <2> QED
    BY <2>1, <2>4, <2>6, <2>8
<1>17. ASSUME NEW s \in Servers, RewriteFails(s)
       PROVE  G
  <2>1. file' = file /\ log' = log /\ server[s].keeper # "fill"
    BY <1>17 DEF RewriteFails
  <2> QED
    BY <1>4, <1>17, <2>1, RewriteFailsMoves
<1>18. ASSUME NEW s \in Servers, Exit(s)
       PROVE  G
  <2>1. file' = file /\ log' = log /\ server[s].keeper # "fill"
    BY <1>18 DEF Exit
  <2> QED
    BY <1>4, <1>18, <2>1, ExitMoves, DownFacts
<1>19. CASE UNCHANGED vars
    BY <1>3, <1>19 DEF vars
<1> QED
    BY <1>5, <1>7, <1>8, <1>9, <1>10, <1>11, <1>12, <1>13, <1>14, <1>15, <1>16, <1>17, <1>18,
       <1>19 DEF Next

--------------------------------------------------------------------------------
(***************************************************************************)
(* A file that is too large is looked after                                *)
(***************************************************************************)
LEMMA BusyStep ==
    ASSUME TypeOK, StepsInv, RewriteInv, BusyInv, [Next]_vars
    PROVE  BusyInv'
<1> DEFINE Large(f) == Size(f) > MaxBytes /\ Len(Whole(f)) > 1
           G == \E t \in Servers : Busy(server'[t])
<1> SUFFICES ASSUME Large(file'), ~ ignored', ~ raced'
             PROVE  G
    BY DEF BusyInv, TooLarge
<1>1. ~ raced
    BY NothingForgotten
<1>2. Large(file) /\ ~ ignored => \E t \in Servers : Busy(server[t])
    BY <1>1 DEF BusyInv, TooLarge
<1>3. Large(file) => TooLarge
    BY DEF TooLarge
<1>m. \A s \in Servers : server[s].waiting \in Nat
    BY DEF TypeOK, ServerType
<1>4. ASSUME NEW s \in Servers, Busy(server'[s])
      PROVE  G
    BY <1>4
<1> HIDE DEF Large
\* The others are as busy as they were.
<1>5. ASSUME NEW s \in Servers, Moved(s), file' = file, ignored' = ignored,
             Busy(server[s]) => Busy(server'[s])
      PROVE  G
    BY <1>2, <1>5 DEF Moved
<1>6. ASSUME NEW s \in Servers, Record(s)
      PROVE  G
    BY <1>6, RecordMoves DEF Busy
<1>7. ASSUME NEW s \in Servers, WriteLine(s)
      PROVE  G
    BY <1>7, WriteLineMoves DEF Busy
<1>8. ASSUME NEW s \in Servers, WriteFeed(s)
      PROVE  G
    BY <1>8, WriteFeedMoves DEF Busy
<1>9. ASSUME NEW s \in Servers, Finish(s)
      PROVE  G
  <2>1. file' = file
    BY <1>9 DEF Finish
  <2>2. server'[s].waiting > 0
    BY <1>3, <1>9, <2>1, FinishMoves
  <2> QED
    BY <2>2 DEF Busy
<1>10. ASSUME NEW s \in Servers, Start(s)
       PROVE  G
  <2>1. file' = file
    BY <1>10 DEF Start
  <2>2. server'[s].keeper = "load" /\ server'[s].over = TooLarge
    BY <1>10, StartMoves
  <2> QED
    BY <1>3, <2>1, <2>2 DEF Busy
<1>11. ASSUME NEW s \in Servers, Measure(s)
       PROVE  G
  <2>1. file' = file
    BY <1>11 DEF Measure
  <2>2. server'[s].over = TooLarge /\ server'[s].keeper = IF TooLarge THEN "read" ELSE "idle"
    BY <1>11, MeasureMoves
  <2> QED
    BY <1>3, <2>1, <2>2 DEF Busy
<1>12. ASSUME NEW s \in Servers, Read(s)
       PROVE  G
  <2>1. file' = file /\ ignored' = ignored /\ server[s].keeper # "idle"
    BY <1>12 DEF Read
  <2>2. server[s].append = "idle"
    BY <2>1 DEF StepsInv, StepsFit
  <2>3. CASE server[s].over
    <3>1. server'[s].keeper = "truncate" /\ server'[s].over
      BY <1>12, <2>3, ReadMoves
    <3> QED
      BY <3>1 DEF Busy
  <2>4. CASE ~ server[s].over
    <3>1. Moved(s) /\ server'[s].waiting = server[s].waiting
      BY <1>12, ReadMoves
    <3>2. Busy(server[s]) => Busy(server'[s])
      BY <2>2, <2>4, <3>1 DEF Busy
    <3> QED
      BY <1>5, <2>1, <3>1, <3>2
  <2> QED
    BY <2>3, <2>4
<1>13. ASSUME NEW s \in Servers, Truncate(s)
       PROVE  G
  <2>1. server[s].over
    BY <1>13 DEF Truncate, StepsInv, StepsFit
  <2>2. server'[s].keeper = "fill" /\ server'[s].over = server[s].over
    BY <1>13, TruncateMoves
  <2> QED
    BY <2>1, <2>2 DEF Busy
\* What has been rewritten is not too large, or it is a single record.
<1>14. ASSUME NEW s \in Servers, Fill(s)
       PROVE  FALSE
  <2>1. PICK k : k = server[s].seen
    OBVIOUS
  <2>2. k \in Seq(Records) /\ Kept(k) \in Seq(Records)
    BY <2>1, KeptType DEF TypeOK, ServerType
  <2>3. file = <<>>
    BY <1>1, <1>14 DEF Fill, RewriteInv
  <2>4. file' = Lines(Kept(k))
    BY <1>14, <2>1, <2>3, FillType
  <2>5. Size(file') = Size(Kept(k)) /\ Whole(file') = Kept(k)
    BY <2>2, <2>4, LinesFacts
  <2>6. Size(Kept(k)) > MaxBytes /\ Len(Kept(k)) > 1
    BY <2>5 DEF Large
  <2>7. CASE k = <<>>
    <3>1. Kept(k) = <<>>
      BY <2>7 DEF Kept
    <3>2. Len(Kept(k)) = 0
      BY <3>1
    <3> QED
      BY <2>6, <3>2
  <2>8. CASE k # <<>>
    <3>1. PICK i \in 1..Len(k) :
            Kept(k) = From(k, i) /\ (i = Len(k) \/ Size(Kept(k)) <= MaxBytes)
      BY <2>2, <2>8, KeptFacts
    <3>2. Size(Kept(k)) \in Nat /\ MaxBytes \in Nat
      <4>1. Kept(k) \in Seq(Token) /\ LineFeed \in Token
        BY <2>2 DEF Token
      <4> QED
        BY <4>1, SizeFacts, RuntimeMetricsAssumption
    <3>3. i = Len(k)
      BY <2>6, <3>1, <3>2
    <3>4. Len(Kept(k)) = 1
      <4>1. i \in 1..(Len(k) + 1) /\ Len(k) \in Nat
        BY <2>2, <3>1
      <4>2. Len(From(k, i)) = Len(k) - i + 1
        BY <2>2, <4>1, FromFacts
      <4> QED
        BY <3>1, <3>3, <4>1, <4>2
    <3> QED
      BY <2>6, <3>4
  <2> QED
    BY <2>7, <2>8
<1>15. ASSUME NEW s \in Servers,
              AppendFails(s) \/ ReadFails(s) \/ RewriteFails(s) \/ Exit(s)
       PROVE  FALSE
  <2>1. CASE AppendFails(s)
    BY <2>1 DEF AppendFails
  <2>2. CASE ReadFails(s)
    BY <2>2 DEF ReadFails
  <2>3. CASE RewriteFails(s)
    BY <2>3 DEF RewriteFails
  <2>4. CASE Exit(s)
    BY <2>4 DEF Exit
  <2> QED
    BY <1>15, <2>1, <2>2, <2>3, <2>4
<1>16. CASE UNCHANGED vars
    BY <1>2, <1>16 DEF vars
<1> QED
    BY <1>6, <1>7, <1>8, <1>9, <1>10, <1>11, <1>12, <1>13, <1>14, <1>15, <1>16 DEF Next

--------------------------------------------------------------------------------
(***************************************************************************)
(* The window and the file of a server that is alone                       *)
(***************************************************************************)
LEMMA WindowStep ==
    ASSUME TypeOK, StepsInv, RewriteInv, EndInv, WindowInv, [Next]_vars
    PROVE  WindowInv'
<1>1. (cuts' = 0 => cuts = 0) /\ (~ raced' => ~ raced)
    BY NothingForgotten
<1>2. \A s \in Servers : /\ server[s].memory \in Seq(Records) /\ server[s].seen \in Seq(Records)
                         /\ server[s].waiting \in Nat
    BY DEF TypeOK, ServerType
<1>3. Whole(file) \in Seq(Records)
    BY WholeFacts DEF TypeOK, Token
<1>4. \A s \in Servers : server[s].sole =>
        /\ \A t \in Servers \ {s} : server[t] = Down
        /\ server[s].up /\ cuts = 0 /\ ~ raced => WindowFits(file, server[s])
    BY DEF WindowInv
\* Only a server that is alone moves, until another starts.
<1>5. ASSUME NEW s \in Servers, Moved(s), server[s] # Down,
             server'[s].sole => server[s].sole,
             server[s].sole /\ server'[s].up /\ cuts' = 0 /\ ~ raced'
               => WindowFits(file', server'[s])
      PROVE  WindowInv'
  <2>1. ASSUME NEW t \in Servers, server'[t].sole
        PROVE  t = s
    <3>1. t # s => server[t].sole
      BY <1>5, <2>1 DEF Moved
    <3>2. t # s => server[s] = Down
      BY <1>4, <3>1
    <3> QED
      BY <1>5, <3>2
  <2>2. ASSUME server'[s].sole
        PROVE  /\ \A t \in Servers \ {s} : server'[t] = Down
               /\ server'[s].up /\ cuts' = 0 /\ ~ raced' => WindowFits(file', server'[s])
    BY <1>4, <1>5, <2>2 DEF Moved
  <2> QED
    BY <2>1, <2>2 DEF WindowInv
<1>6. ASSUME NEW s \in Servers, server[s].sole, server[s].up, cuts' = 0, ~ raced'
      PROVE  WindowFits(file, server[s])
    BY <1>1, <1>4, <1>6
<1>7. ASSUME NEW s \in Servers,
             \/ server[s].up
             \/ server[s].append # "idle"
             \/ server[s].keeper # "idle"
      PROVE  server[s] # Down
    BY <1>7, DownFacts
<1>8. ASSUME NEW s \in Servers, Record(s)
      PROVE  WindowInv'
  <2>1. server[s].up /\ server[s].append = "idle" /\ server[s].keeper = "idle" /\ file' = file
    BY <1>8 DEF Record, FileFree
  <2>2. /\ Moved(s) /\ server'[s].append = "line" /\ server'[s].keeper = "idle"
        /\ server'[s].memory = server[s].memory /\ server'[s].sole = server[s].sole
    BY <1>8, <2>1, RecordMoves
  <2>3. ASSUME server[s].sole, cuts' = 0, ~ raced'
        PROVE  WindowFits(file', server'[s])
    <3>1. Ends(Latest(Whole(file), Window), server[s].memory)
      BY <1>6, <2>1, <2>3 DEF WindowFits
    <3> QED
      BY <2>1, <2>2, <3>1 DEF WindowFits
  <2> QED
    BY <1>5, <1>7, <2>1, <2>2, <2>3
<1>9. ASSUME NEW s \in Servers, WriteLine(s)
      PROVE  WindowInv'
  <2>1. server[s].append = "line" /\ (Meets(s) => raced')
    BY <1>9 DEF WriteLine
  <2>2. PICK r : r = server[s].record
    OBVIOUS
  <2>3. r \in Records /\ server[s].keeper = "idle" /\ server[s].up /\ r \in Token
    BY <2>1, <2>2 DEF StepsInv, StepsFit, Token
  <2>4. /\ Moved(s) /\ server'[s].append = "feed" /\ server'[s].keeper = "idle"
        /\ server'[s].memory = server[s].memory /\ server'[s].record = r
        /\ server'[s].sole = server[s].sole
    BY <1>9, <2>2, <2>3, WriteLineMoves
  <2>5. ASSUME server[s].sole, cuts' = 0, ~ raced'
        PROVE  WindowFits(file', server'[s])
    <3>1. Ends(Latest(Whole(file), Window), server[s].memory)
      BY <1>6, <2>1, <2>3, <2>5 DEF WindowFits
    <3>2. file = <<>> \/ file[Len(file)] = LineFeed
      BY <1>1, <2>1, <2>5 DEF EndInv, Meets
    <3>3. file' = Append(file, r)
      BY <1>9, <2>2 DEF WriteLine
    <3>4. Whole(file') = Append(Whole(file), r)
      BY <2>3, <3>2, <3>3, WholeFacts DEF TypeOK
    <3>5. Ends(Latest(Append(Whole(file), r), Window),
               Latest(Append(server[s].memory, r), Window))
      BY <1>2, <1>3, <2>3, <3>1, EndsAppend
    <3> QED
      BY <2>4, <3>4, <3>5 DEF WindowFits
  <2> QED
    BY <1>5, <1>7, <2>1, <2>3, <2>4, <2>5
<1>10. ASSUME NEW s \in Servers, WriteFeed(s)
       PROVE  WindowInv'
  <2>1. server[s].append = "feed" /\ file' = Append(file, LineFeed)
    BY <1>10 DEF WriteFeed
  <2>2. server[s].keeper = "idle" /\ server[s].up
    BY <2>1 DEF StepsInv, StepsFit
  <2>3. /\ Moved(s) /\ server'[s].append = "check" /\ server'[s].keeper = "idle"
        /\ server'[s].memory = server[s].memory /\ server'[s].record = server[s].record
        /\ server'[s].sole = server[s].sole
    BY <1>10, <2>2, WriteFeedMoves
  <2>4. Whole(file') = Whole(file)
    BY <2>1, WholeFacts DEF TypeOK, Token
  <2>5. ASSUME server[s].sole, cuts' = 0, ~ raced'
        PROVE  WindowFits(file', server'[s])
    <3>1. Ends(Latest(Whole(file), Window),
               Latest(Append(server[s].memory, server[s].record), Window))
      BY <1>6, <2>1, <2>2, <2>5 DEF WindowFits
    <3> QED
      BY <2>3, <2>4, <3>1 DEF WindowFits
  <2> QED
    BY <1>5, <1>7, <2>1, <2>3, <2>5
<1>11. ASSUME NEW s \in Servers, AppendFails(s)
       PROVE  WindowInv'
  <2>1. server[s].append # "idle"
    BY <1>11 DEF AppendFails
  <2>2. Moved(s) /\ ~ server'[s].sole
    BY <1>11, AppendFailsMoves
  <2>3. ~ (server[s].sole /\ server'[s].sole)
    BY <2>2
  <2>4. ASSUME NEW t \in Servers, server'[t].sole
        PROVE  FALSE
    <3>1. t # s /\ server[t].sole
      BY <2>2, <2>4 DEF Moved
    <3>2. server[s] = Down
      BY <1>4, <3>1
    <3> QED
      BY <1>7, <2>1, <3>2
  <2> QED
    BY <2>4 DEF WindowInv
<1>12. ASSUME NEW s \in Servers, Finish(s)
       PROVE  WindowInv'
  <2>1. server[s].append = "check" /\ file' = file
    BY <1>12 DEF Finish
  <2>2. server[s].keeper = "idle" /\ server[s].up
    BY <2>1 DEF StepsInv, StepsFit
  <2>3. /\ Moved(s) /\ server'[s].append = "idle" /\ server'[s].keeper = "idle"
        /\ server'[s].memory = Latest(Append(server[s].memory, server[s].record), Window)
        /\ server'[s].sole = server[s].sole
    BY <1>12, <2>2, FinishMoves
  <2>4. ASSUME server[s].sole, cuts' = 0, ~ raced'
        PROVE  WindowFits(file', server'[s])
    <3>1. Ends(Latest(Whole(file), Window),
               Latest(Append(server[s].memory, server[s].record), Window))
      BY <1>6, <2>1, <2>2, <2>4 DEF WindowFits
    <3> QED
      BY <2>1, <2>3, <3>1 DEF WindowFits
  <2> QED
    BY <1>5, <1>7, <2>1, <2>3, <2>4
<1>13. ASSUME NEW s \in Servers, Start(s)
       PROVE  WindowInv'
  <2>1. ~ server'[s].up /\ (server'[s].sole => \A t \in Servers : server[t] = Down)
    BY <1>13, StartMoves
  <2>2. \A t \in Servers \ {s} : ~ server'[t].sole /\ (server[t] = Down => server'[t] = Down)
    BY <1>13, StartMoves
  <2> QED
    BY <2>1, <2>2 DEF WindowInv
<1>14. ASSUME NEW s \in Servers, Measure(s)
       PROVE  WindowInv'
  <2>1. server[s].append = "idle" /\ server[s].keeper = "idle" /\ file' = file
    BY <1>14 DEF Measure, FileFree
  <2>2. server[s].up
    BY <1>2, <1>14 DEF Measure, StepsInv, StepsFit
  <2>3. /\ Moved(s) /\ server'[s].append = "idle" /\ server'[s].keeper # "fill"
        /\ server'[s].memory = server[s].memory /\ server'[s].sole = server[s].sole
    BY <1>14, <2>1, MeasureMoves
  <2>4. ASSUME server[s].sole, cuts' = 0, ~ raced'
        PROVE  WindowFits(file', server'[s])
    <3>1. Ends(Latest(Whole(file), Window), server[s].memory)
      BY <1>6, <2>1, <2>2, <2>4 DEF WindowFits
    <3> QED
      BY <2>1, <2>3, <3>1 DEF WindowFits
  <2> QED
    BY <1>5, <1>7, <2>2, <2>3, <2>4
<1>15. ASSUME NEW s \in Servers, Read(s)
       PROVE  WindowInv'
  <2>1. server[s].keeper \in {"load", "read"} /\ file' = file
    BY <1>15 DEF Read
  <2>2. server[s].append = "idle" /\ (~ server[s].over => ~ server[s].up)
    BY <2>1 DEF StepsInv, StepsFit
  <2>3. Moved(s) /\ server'[s].append = "idle" /\ server'[s].sole = server[s].sole
    BY <1>15, ReadMoves
  <2>4. ASSUME server[s].sole, server'[s].up, cuts' = 0, ~ raced'
        PROVE  WindowFits(file', server'[s])
    <3>1. CASE server[s].over
      <4>1. /\ server'[s].keeper = "truncate" /\ server'[s].up = server[s].up
            /\ server'[s].memory = server[s].memory
        BY <1>15, <3>1, ReadMoves
      <4>2. Ends(Latest(Whole(file), Window), server[s].memory)
        BY <1>6, <2>1, <2>2, <2>4, <4>1 DEF WindowFits
      <4> QED
        BY <2>1, <2>3, <4>1, <4>2 DEF WindowFits
    <3>2. CASE ~ server[s].over
      <4>1. server'[s].keeper = "idle" /\ server'[s].memory = Latest(Whole(file), Window)
        BY <1>15, <2>2, <3>2, ReadMoves
      <4>2. Ends(Latest(Whole(file), Window), server'[s].memory)
        BY <1>3, <4>1, LatestFacts, EndsItself
      <4> QED
        BY <2>1, <2>3, <4>1, <4>2 DEF WindowFits
    <3> QED
      BY <3>1, <3>2
  <2> QED
    BY <1>5, <1>7, <2>1, <2>3, <2>4
<1>16. ASSUME NEW s \in Servers, ReadFails(s)
       PROVE  WindowInv'
  <2>1. server[s].keeper # "idle"
    BY <1>16 DEF ReadFails
  <2>2. Moved(s) /\ ~ server'[s].sole
    BY <1>16, ReadFailsMoves
  <2>3. ASSUME NEW t \in Servers, server'[t].sole
        PROVE  FALSE
    <3>1. t # s /\ server[t].sole
      BY <2>2, <2>3 DEF Moved
    <3>2. server[s] = Down
      BY <1>4, <3>1
    <3> QED
      BY <1>7, <2>1, <3>2
  <2> QED
    BY <2>3 DEF WindowInv
<1>17. ASSUME NEW s \in Servers, Truncate(s)
       PROVE  WindowInv'
  <2>1. server[s].keeper = "truncate"
    BY <1>17 DEF Truncate
  <2>2. server[s].append = "idle"
    BY <2>1 DEF StepsInv, StepsFit
  <2>3. /\ Moved(s) /\ server'[s].append = "idle" /\ server'[s].keeper = "fill"
        /\ server'[s].memory = server[s].memory /\ server'[s].sole = server[s].sole
        /\ server'[s].seen = server[s].seen /\ server'[s].up = server[s].up
    BY <1>17, <2>2, TruncateMoves
  <2>4. ASSUME server[s].sole, server'[s].up, cuts' = 0, ~ raced'
        PROVE  WindowFits(file', server'[s])
    <3>1. Ends(Latest(Whole(file), Window), server[s].memory)
      BY <1>6, <2>1, <2>2, <2>3, <2>4 DEF WindowFits
    <3>2. server[s].seen = Whole(file)
      BY <1>1, <2>1, <2>4 DEF RewriteInv
    <3> QED
      BY <2>3, <3>1, <3>2 DEF WindowFits
  <2> QED
    BY <1>5, <1>7, <2>1, <2>3, <2>4
<1>18. ASSUME NEW s \in Servers, Fill(s)
       PROVE  WindowInv'
  <2>1. server[s].keeper = "fill"
    BY <1>18 DEF Fill
  <2>2. PICK k : k = server[s].seen
    OBVIOUS
  <2>3. /\ Moved(s) /\ server'[s].append = "idle" /\ server'[s].keeper = "idle"
        /\ server'[s].memory = IF server[s].up THEN server[s].memory ELSE Latest(k, Window)
        /\ server'[s].sole = server[s].sole
    BY <1>18, <2>2, FillMoves
  <2>4. k \in Seq(Records) /\ Kept(k) \in Seq(Records)
    BY <1>2, <2>2, KeptType
  <2>5. ASSUME server[s].sole, server'[s].up, cuts' = 0, ~ raced'
        PROVE  WindowFits(file', server'[s])
    <3>1. file = <<>>
      BY <1>1, <2>1, <2>5 DEF RewriteInv
    <3>2. Whole(file') = Kept(k)
      BY <1>18, <2>2, <2>4, <3>1, FillType, LinesFacts
    <3>3. Ends(Kept(k), k)
      <4>1. CASE k = <<>>
        BY <2>4, <4>1, EndsItself DEF Kept
      <4>2. CASE k # <<>>
        <5>1. PICK i \in 1..Len(k) : Kept(k) = From(k, i)
          BY <2>4, <4>2, KeptFacts
        <5>2. i \in 1..(Len(k) + 1)
          BY <2>4, <5>1
        <5> QED
          BY <2>4, <5>1, <5>2, FromEnds
      <4> QED
        BY <4>1, <4>2
    <3>4. Ends(Latest(Kept(k), Window), Latest(k, Window))
      BY <2>4, <3>3, LatestEnds
    <3>5. Ends(Latest(Kept(k), Window), server'[s].memory)
      <4>1. CASE server[s].up
        <5>1. Ends(Latest(k, Window), server[s].memory)
          BY <1>6, <2>1, <2>2, <2>5, <4>1 DEF WindowFits
        <5>2. Latest(k, Window) \in Seq(Records) /\ Latest(Kept(k), Window) \in Seq(Records)
          BY <2>4, LatestFacts
        <5>3. Ends(Latest(Kept(k), Window), server[s].memory)
          BY <1>2, <3>4, <5>1, <5>2, EndsTransitive
        <5> QED
          BY <2>3, <4>1, <5>3
      <4>2. CASE ~ server[s].up
        BY <2>3, <3>4, <4>2
      <4> QED
        BY <4>1, <4>2
    <3> QED
      BY <2>3, <3>2, <3>5 DEF WindowFits
  <2> QED
    BY <1>5, <1>7, <2>1, <2>3, <2>5
<1>19. ASSUME NEW s \in Servers, RewriteFails(s)
       PROVE  WindowInv'
  <2>1. /\ server[s].keeper \in {"truncate", "fill"} /\ file' = file
        /\ server[s].keeper = "fill" => raced'
    BY <1>19 DEF RewriteFails
  <2>2. server[s].append = "idle"
    BY <2>1 DEF StepsInv, StepsFit
  <2>3. /\ Moved(s) /\ server'[s].append = "idle" /\ server'[s].keeper = "idle"
        /\ server'[s].memory =
             IF server[s].up THEN server[s].memory ELSE Latest(server[s].seen, Window)
        /\ server'[s].sole = server[s].sole
    BY <1>19, RewriteFailsMoves
  <2>4. ASSUME server[s].sole, server'[s].up, cuts' = 0, ~ raced'
        PROVE  WindowFits(file', server'[s])
    <3>1. server[s].keeper = "truncate" /\ server[s].seen = Whole(file)
      BY <1>1, <2>1, <2>4 DEF RewriteInv
    <3>2. Ends(Latest(Whole(file), Window), server'[s].memory)
      <4>1. CASE server[s].up
        <5>1. Ends(Latest(Whole(file), Window), server[s].memory)
          BY <1>6, <2>2, <2>4, <3>1, <4>1 DEF WindowFits
        <5> QED
          BY <2>3, <4>1, <5>1
      <4>2. CASE ~ server[s].up
        BY <1>3, <2>3, <3>1, <4>2, LatestFacts, EndsItself
      <4> QED
        BY <4>1, <4>2
    <3> QED
      BY <2>1, <2>3, <3>2 DEF WindowFits
  <2> QED
    BY <1>5, <1>7, <2>1, <2>3, <2>4
<1>20. ASSUME NEW s \in Servers, Exit(s)
       PROVE  WindowInv'
  <2>1. server[s] # Down
    BY <1>20 DEF Exit
  <2>2. Moved(s) /\ ~ server'[s].sole
    BY <1>20, ExitMoves, DownFacts
  <2>3. ASSUME NEW t \in Servers, server'[t].sole
        PROVE  FALSE
    <3>1. t # s /\ server[t].sole
      BY <2>2, <2>3 DEF Moved
    <3> QED
      BY <1>4, <2>1, <3>1
  <2> QED
    BY <2>3 DEF WindowInv
<1>21. CASE UNCHANGED vars
    BY <1>21 DEF vars, WindowInv
<1> QED
    BY <1>8, <1>9, <1>10, <1>11, <1>12, <1>13, <1>14, <1>15, <1>16, <1>17, <1>18, <1>19, <1>20,
       <1>21 DEF Next

--------------------------------------------------------------------------------
(***************************************************************************)
(* The theorems                                                            *)
(***************************************************************************)
LEMMA InvHolds == Init => IInv
<1> SUFFICES ASSUME Init PROVE IInv
    OBVIOUS
<1>1. \A s \in Servers : server[s] = Down
    BY DEF Init
<1>2. file = <<>> /\ log = <<>>
    BY DEF Init
<1>3. LineFeed \in Token /\ <<>> \in Seq(Token) /\ <<>> \in Seq(Records)
    BY DEF Token
<1>4. Whole(file) = <<>> /\ Size(file) = 0
    BY <1>2, <1>3, WholeFacts, SizeFacts
<1>5. TypeOK
  <2>1. server \in [Servers -> ServerType]
    BY DownFacts DEF Init
  <2>2. /\ file \in Seq(Token) /\ log \in Seq(Records)
        /\ next = 1 /\ cuts = 0 /\ raced = FALSE /\ ignored = FALSE
    BY <1>2, <1>3 DEF Init
  <2>3. next \in Nat \ {0} /\ cuts \in Nat
    BY <2>2
  <2> QED
    BY <2>1, <2>2, <2>3 DEF TypeOK
<1>6. StepsInv
    BY <1>1, DownFacts DEF StepsInv, StepsFit
<1>7. RewriteInv
    BY <1>1, DownFacts DEF RewriteInv
<1>8. EndInv
    BY <1>2 DEF EndInv
<1>9. RecentInv
  <2>1. From(log, 1) = <<>> /\ 1 \in 1..(Len(log) + 1)
    <3>1. log \in Seq(Records) /\ Len(log) = 0
      BY <1>2, <1>3
    <3>2. From(log, 1) = log
      BY <3>1, FromFirst
    <3> QED
      BY <1>2, <3>1, <3>2
  <2>2. Recent(log, Whole(file))
    BY <1>4, <2>1 DEF Recent
  <2> QED
    BY <1>1, <2>2, DownFacts DEF RecentInv
<1>10. BusyInv
    BY <1>4, RuntimeMetricsAssumption DEF BusyInv, TooLarge
<1>11. WindowInv
    BY <1>1, DownFacts DEF WindowInv
<1> QED
    BY <1>5, <1>6, <1>7, <1>8, <1>9, <1>10, <1>11 DEF IInv

THEOREM Invariant == Spec => []IInv
<1>1. IInv /\ [Next]_vars => IInv'
    BY TypeStep, StepsStep, RewriteStep, EndStep, RecentStep, BusyStep, WindowStep DEF IInv
<1> QED
    BY <1>1, InvHolds, PTL DEF Spec

\* The types, for any number of servers and threads.
THEOREM TypeCorrect == Spec => []TypeOK
    BY Invariant, PTL DEF IInv

\* While no line was cut, the file is text.
TextInv == cuts = 0 /\ ~ raced => IsText(file)

LEMMA TextStep ==
    ASSUME TypeOK, StepsInv, RewriteInv, TextInv, [Next]_vars
    PROVE  TextInv'
<1> SUFFICES ASSUME cuts' = 0, ~ raced'
             PROVE  IsText(file')
    BY DEF TextInv, IsText
<1>1. cuts = 0 /\ ~ raced /\ cuts + 1 # 0
    BY NothingForgotten DEF TypeOK
<1>2. /\ file \in Seq(Token) /\ \A n \in 1..Len(file) : file[n] # Broken
      /\ Records \subseteq Token /\ LineFeed \in Token
      /\ Broken \notin Records /\ LineFeed # Broken
  <2>1. file \in Seq(Token)
    BY DEF TypeOK
  <2>2. \A n \in 1..Len(file) : file[n] # Broken
    BY <1>1, <2>1 DEF TextInv, IsText, ToSet
  <2> QED
    BY <2>1, <2>2, RuntimeMetricsAssumption DEF Token
<1>3. CASE UNCHANGED file
    BY <1>1, <1>3 DEF TextInv
<1>4. ASSUME NEW t \in Records \cup {LineFeed}, file' = Append(file, t)
      PROVE  IsText(file')
  <2>1. t \in Token /\ t # Broken
    BY <1>2
  <2>2. file' \in Seq(Token) /\ Len(file') = Len(file) + 1
    BY <1>2, <1>4, <2>1
  <2>3. \A n \in 1..Len(file') : file'[n] # Broken
    BY <1>2, <1>4, <2>1, <2>2
  <2> QED
    BY <2>2, <2>3 DEF IsText, ToSet
<1>5. ASSUME NEW s \in Servers, WriteLine(s) \/ WriteFeed(s)
      PROVE  IsText(file')
  <2>1. CASE WriteLine(s)
    <3>1. server[s].record \in Records
      BY <2>1 DEF WriteLine, StepsInv, StepsFit
    <3> QED
      BY <1>4, <2>1, <3>1 DEF WriteLine
  <2>2. CASE WriteFeed(s)
    BY <1>4, <2>2 DEF WriteFeed
  <2> QED
    BY <1>5, <2>1, <2>2
<1>6. ASSUME NEW s \in Servers, Truncate(s)
      PROVE  IsText(file')
    BY <1>6 DEF Truncate, IsText, ToSet
<1>7. ASSUME NEW s \in Servers, Fill(s)
      PROVE  IsText(file')
  <2>1. PICK k : k = Kept(server[s].seen)
    OBVIOUS
  <2>2. k \in Seq(Records)
    BY <2>1, KeptType DEF TypeOK, ServerType
  <2>3. file' = Lines(k)
    BY <1>1, <1>7, <2>1, FillType DEF RewriteInv, Fill
  <2>4. \A n \in 1..(2 * Len(k)) : n % 2 # 0 => (n + 1) \div 2 \in 1..Len(k)
    BY <2>2
  <2>5. \A n \in 1..(2 * Len(k)) : Lines(k)[n] \in Records \cup {LineFeed}
    BY <2>2, <2>4 DEF Lines
  <2>6. DOMAIN Lines(k) = 1..(2 * Len(k))
    BY DEF Lines
  <2> QED
    BY <1>2, <2>3, <2>5, <2>6 DEF IsText, ToSet
<1>8. ASSUME NEW s \in Servers,
             \/ Record(s) \/ AppendFails(s) \/ Finish(s) \/ Start(s) \/ Measure(s) \/ Read(s)
             \/ ReadFails(s) \/ RewriteFails(s) \/ Exit(s)
      PROVE  UNCHANGED file
  <2>1. AppendFails(s) => UNCHANGED file
    BY <1>1 DEF AppendFails
  <2> QED
    BY <1>8, <2>1 DEF Record, Finish, Start, Measure, Read, ReadFails, RewriteFails, Exit
<1> QED
    BY <1>3, <1>5, <1>6, <1>7, <1>8 DEF Next, vars

LEMMA Textual == Spec => []TextInv
<1>1. Init => TextInv
    BY DEF Init, TextInv, IsText, ToSet
<1>2. IInv /\ TextInv /\ [Next]_vars => TextInv'
    BY TextStep DEF IInv
<1> QED
    BY <1>1, <1>2, Invariant, PTL DEF Spec

\* Retention (`retain_recent_jsonl_by_size`) drops only the oldest records, and only as
\* many as it must, through any number of appends, rewrites, ends and restarts.
THEOREM TheRecentAreKept == Spec => []KeepsTheRecent
<1>1. IInv /\ TextInv => KeepsTheRecent
    BY DEF IInv, TextInv, Readable, RecentInv, Recent, KeepsTheRecent
<1> QED
    BY <1>1, Invariant, Textual, PTL

\* A file over its limit has a retention thread waiting or at it, unless an error hid
\* its size: of those that are started no two rely on each other in vain.
THEOREM OversizeIsAlwaysNoticed == Spec => []OversizeIsNoticed
<1>1. IInv => OversizeIsNoticed
    BY DEF IInv, BusyInv, Busy, OversizeIsNoticed
<1> QED
    BY <1>1, Invariant, PTL

\* The window of a server that is alone ends with what it would load after a restart.
THEOREM WindowIsAlwaysRecent == Spec => []WindowIsRecent
<1>1. ASSUME IInv, TextInv, NEW s \in Servers,
             server[s].up, server[s].sole, FileFree(s), cuts = 0, ~ raced
      PROVE  IsSuffix(Latest(Readable(file), Window), server[s].memory)
  <2>1. Ends(Latest(Whole(file), Window), server[s].memory)
    BY <1>1 DEF IInv, WindowInv, WindowFits, FileFree
  <2>2. server[s].memory \in Seq(Records)
    BY <1>1 DEF IInv, TypeOK, ServerType
  <2>3. Whole(file) \in Seq(Records)
    BY <1>1, WholeFacts DEF IInv, TypeOK, Token
  <2>4. Latest(Whole(file), Window) \in Seq(Records)
    BY <2>3, LatestFacts
  <2>5. Readable(file) = Whole(file)
    BY <1>1 DEF TextInv, Readable
  <2> QED
    BY <2>1, <2>2, <2>4, <2>5, EndsIsSuffix
<1>2. IInv /\ TextInv => WindowIsRecent
    BY <1>1 DEF WindowIsRecent
<1> QED
    BY <1>2, Invariant, Textual, PTL

--------------------------------------------------------------------------------
(***************************************************************************)
(* Lines that stay, whatever is appended to the file: all that parse       *)
(* but the last one, if it has no end yet.                                 *)
(***************************************************************************)
Safe(f) == Whole(Append(f, Torn))

\* After the last line that parses nothing is read any more.
LEMMA ReadNoMore ==
    ASSUME NEW f \in Seq(Token), NEW n \in Nat, n <= Len(f), NEW g, ReadUpTo(f, g, Len(f)),
           \A i \in (n + 1)..Len(f) : ~ Parses(f, i)
    PROVE  g[Len(f)] = g[n]
<1>n. PICK N : N = Len(f)
    OBVIOUS
<1>0. N \in Nat /\ N - n \in Nat
    BY <1>n
<1>1. \A i \in 0..N : g[i] = IF i = 0 THEN <<>>
                             ELSE IF Parses(f, i) THEN Append(g[i - 1], f[i]) ELSE g[i - 1]
    BY <1>n, Zenon DEF ReadUpTo
<1> DEFINE T == {m \in 0..(N - n) : g[n + m] = g[n]}
<1>2. 0 \in T
    BY <1>0
<1>3. ASSUME NEW m \in 0..(N - n), m \in T, m < N - n
      PROVE  m + 1 \in T
  <2>1. /\ m + 1 \in 0..(N - n) /\ n + (m + 1) \in 0..N /\ n + (m + 1) # 0
        /\ n + (m + 1) - 1 = n + m /\ n + (m + 1) \in (n + 1)..N
    BY <1>0, <1>3
  <2>2. ~ Parses(f, n + (m + 1))
    BY <1>n, <2>1
  <2>3. g[n + (m + 1)] = g[n + m]
    BY <1>1, <2>1, <2>2
  <2> QED
    BY <1>3, <2>1, <2>3
<1> HIDE DEF T
<1>4. \A m \in 0..(N - n) : m \in T /\ m < N - n => m + 1 \in T
    BY <1>3
<1>5. \A m \in 0..(N - n) : m \in T
    BY <1>0, <1>2, <1>4, InductionUpTo
<1>6. N - n \in T /\ n + (N - n) = N
    BY <1>0, <1>5
<1> QED
    BY <1>n, <1>6 DEF T

\* Files with the same lines up to a place, and none that parses after it, read the same.
LEMMA ReadsTheSame ==
    ASSUME NEW f \in Seq(Token), NEW a \in Seq(Token), NEW n \in Nat,
           n <= Len(f), n <= Len(a),
           \A i \in 1..n : a[i] = f[i] /\ (Parses(a, i) <=> Parses(f, i)),
           \A i \in (n + 1)..Len(f) : ~ Parses(f, i),
           \A i \in (n + 1)..Len(a) : ~ Parses(a, i)
    PROVE  Whole(a) = Whole(f)
<1>0. Len(f) \in Nat /\ Len(a) \in Nat
    OBVIOUS
<1>1. PICK g : ReadUpTo(f, g, Len(f)) /\ Whole(f) = g[Len(f)]
    BY <1>0, WholeUnfolds
<1>2. PICK h : ReadUpTo(a, h, Len(a)) /\ Whole(a) = h[Len(a)]
    BY <1>0, WholeUnfolds
<1>3. Whole(f) = g[n]
    BY <1>1, ReadNoMore
<1>4. Whole(a) = h[n]
    BY <1>2, ReadNoMore
<1>5. /\ \A i \in 0..Len(f) :
           g[i] = IF i = 0 THEN <<>>
                  ELSE IF Parses(f, i) THEN Append(g[i - 1], f[i]) ELSE g[i - 1]
      /\ \A i \in 0..Len(a) :
           h[i] = IF i = 0 THEN <<>>
                  ELSE IF Parses(a, i) THEN Append(h[i - 1], a[i]) ELSE h[i - 1]
    BY <1>1, <1>2, Zenon DEF ReadUpTo
<1> DEFINE T == {m \in 0..n : h[m] = g[m]}
<1>6. 0 \in T
    BY <1>0, <1>5
<1>7. ASSUME NEW m \in 0..n, m \in T, m < n
      PROVE  m + 1 \in T
  <2>1. /\ m + 1 \in 1..n /\ m + 1 \in 0..n /\ m + 1 # 0 /\ m + 1 - 1 = m
        /\ m + 1 \in 0..Len(f) /\ m + 1 \in 0..Len(a)
    BY <1>0, <1>7
  <2>2. g[m + 1] = IF Parses(f, m + 1) THEN Append(g[m], f[m + 1]) ELSE g[m]
    BY <1>5, <2>1
  <2>3. h[m + 1] = IF Parses(a, m + 1) THEN Append(h[m], a[m + 1]) ELSE h[m]
    BY <1>5, <2>1
  <2>4. a[m + 1] = f[m + 1] /\ (Parses(a, m + 1) <=> Parses(f, m + 1))
    BY <2>1
  <2> QED
    BY <1>7, <2>1, <2>2, <2>3, <2>4
<1> HIDE DEF T
<1>8. \A m \in 0..n : m \in T /\ m < n => m + 1 \in T
    BY <1>7
<1>9. n \in T
  <2>1. \A m \in 0..n : m \in T
    BY <1>6, <1>8, InductionUpTo
  <2> QED
    BY <2>1
<1> QED
    BY <1>3, <1>4, <1>9 DEF T

\* A part of a line, after a line that has an end, changes nothing of what parses.
LEMMA PartAtLineStart ==
    ASSUME NEW f \in Seq(Token), f = <<>> \/ f[Len(f)] = LineFeed, NEW u \in Part
    PROVE  Whole(Append(f, u)) = Whole(f)
<1>1. PICK a : a = Append(f, u)
    OBVIOUS
<1>2. u \in Token /\ u \notin Records
    BY RuntimeMetricsAssumption DEF Token, Part
<1>3. a \in Seq(Token) /\ Len(f) \in Nat /\ Len(a) = Len(f) + 1 /\ a[Len(f) + 1] = u
    BY <1>1, <1>2
<1>4. \A i \in 1..Len(f) : a[i] = f[i] /\ (Parses(a, i) <=> Parses(f, i))
  <2>1. ASSUME NEW i \in 1..Len(f)
        PROVE  a[i] = f[i] /\ (Parses(a, i) <=> Parses(f, i))
    <3>1. i \in DOMAIN f /\ f # <<>>
      BY <2>1
    <3> QED
      BY <1>1, <1>2, <3>1, ParsesNext
  <2> QED
    BY <2>1
<1>5. \A i \in (Len(f) + 1)..Len(a) : ~ Parses(a, i)
  <2>1. \A i \in (Len(f) + 1)..Len(a) : i = Len(f) + 1
    BY <1>3
  <2> QED
    BY <1>2, <1>3, <2>1 DEF Parses
<1>6. \A i \in (Len(f) + 1)..Len(f) : ~ Parses(f, i)
    BY <1>3
<1>7. Whole(a) = Whole(f)
    BY <1>3, <1>4, <1>5, <1>6, ReadsTheSame
<1> QED
    BY <1>1, <1>7

LEMMA SafeAtLineStart ==
    ASSUME NEW f \in Seq(Token), f = <<>> \/ f[Len(f)] = LineFeed
    PROVE  Safe(f) = Whole(f)
    BY PartAtLineStart DEF Safe, Part

\* What is appended to a line without an end destroys it, be it a record or a part of one.
LEMMA SafeGlued ==
    ASSUME NEW f \in Seq(Token), f # <<>>, f[Len(f)] # LineFeed,
           NEW u \in Records \cup Part
    PROVE  Whole(Append(f, u)) = Safe(f)
<1>1. PICK a : a = Append(f, u)
    OBVIOUS
<1>2. PICK b : b = Append(f, Torn)
    OBVIOUS
<1>3. /\ Torn \in Token /\ u \in Token /\ u # LineFeed /\ Torn # LineFeed
      /\ Torn \notin Records
    BY RuntimeMetricsAssumption DEF Token, Part
<1>4. /\ Len(f) \in Nat /\ Len(f) # 0
      /\ a \in Seq(Token) /\ Len(a) = Len(f) + 1 /\ a[Len(f) + 1] = u
      /\ b \in Seq(Token) /\ Len(b) = Len(f) + 1 /\ b[Len(f) + 1] = Torn
      /\ \A i \in 1..Len(f) : a[i] = f[i] /\ b[i] = f[i]
    BY <1>1, <1>2, <1>3
<1>5. ASSUME NEW i \in 1..Len(f)
      PROVE  Parses(a, i) <=> Parses(b, i)
  <2>1. CASE i = Len(f)
    BY <1>3, <1>4, <2>1 DEF Parses
  <2>2. CASE i # Len(f)
    <3>1. i + 1 \in 1..Len(f) /\ (i # 1 => i - 1 \in 1..Len(f)) /\ i # Len(f) + 1
      BY <1>4, <2>2
    <3>2. a[i] = b[i] /\ a[i + 1] = b[i + 1] /\ (i # 1 => a[i - 1] = b[i - 1])
      BY <1>4, <3>1
    <3> QED
      BY <1>4, <3>1, <3>2 DEF Parses
  <2> QED
    BY <2>1, <2>2
<1>6. ~ Parses(a, Len(f) + 1) /\ ~ Parses(b, Len(f) + 1)
  <2>1. Len(f) + 1 # 1 /\ Len(f) + 1 - 1 = Len(f) /\ Len(f) \in 1..Len(f)
    BY <1>4
  <2>2. a[Len(f)] # LineFeed /\ b[Len(f)] # LineFeed
    BY <1>4, <2>1
  <2> QED
    BY <2>1, <2>2 DEF Parses
<1>7. Whole(a) = Whole(b)
  <2>1. \A i \in (Len(f) + 1)..Len(a) : i = Len(f) + 1
    BY <1>4
  <2>2. /\ \A i \in (Len(f) + 1)..Len(a) : ~ Parses(a, i)
        /\ \A i \in (Len(f) + 1)..Len(b) : ~ Parses(b, i)
    BY <1>4, <1>6, <2>1
  <2>3. \A i \in 1..Len(f) : a[i] = b[i] /\ (Parses(a, i) <=> Parses(b, i))
    BY <1>4, <1>5
  <2>4. Len(f) <= Len(a) /\ Len(f) <= Len(b)
    BY <1>4
  <2> QED
    BY <1>4, <2>2, <2>3, <2>4, ReadsTheSame
<1> QED
    BY <1>1, <1>2, <1>7 DEF Safe

\* It is not safe itself before its end is written, and leaves the others safe.
LEMMA SafeAppend ==
    ASSUME NEW f \in Seq(Token), NEW u \in Records \cup Part
    PROVE  Safe(Append(f, u)) = Safe(f)
<1>1. PICK e : e = Append(f, u)
    OBVIOUS
<1>2. PICK a : a = Append(e, Torn)
    OBVIOUS
<1>3. PICK b : b = Append(f, Torn)
    OBVIOUS
<1>4. /\ Torn \in Token /\ u \in Token /\ u # LineFeed /\ Torn # LineFeed
      /\ Torn \notin Records
    BY RuntimeMetricsAssumption DEF Token, Part
<1>5. e \in Seq(Token) /\ Len(e) = Len(f) + 1 /\ e[Len(f) + 1] = u /\ Len(f) \in Nat
    BY <1>1, <1>4
<1>6. /\ a \in Seq(Token) /\ Len(a) = Len(f) + 2 /\ a[Len(f) + 1] = u /\ a[Len(f) + 2] = Torn
      /\ b \in Seq(Token) /\ Len(b) = Len(f) + 1 /\ b[Len(f) + 1] = Torn
      /\ \A i \in 1..Len(f) : a[i] = f[i] /\ b[i] = f[i]
  <2>1. Len(e) + 1 = Len(f) + 2 /\ Len(f) + 1 \in 1..Len(e)
    BY <1>5
  <2>2. a \in Seq(Token) /\ Len(a) = Len(e) + 1 /\ a[Len(e) + 1] = Torn
    BY <1>2, <1>4, <1>5
  <2>3. \A i \in 1..Len(e) : a[i] = e[i]
    BY <1>2, <1>5
  <2>4. \A i \in 1..Len(f) : e[i] = f[i] /\ b[i] = f[i] /\ i \in 1..Len(e)
    BY <1>1, <1>3, <1>5
  <2>5. b \in Seq(Token) /\ Len(b) = Len(f) + 1 /\ b[Len(f) + 1] = Torn
    BY <1>3, <1>4
  <2> QED
    BY <1>5, <2>1, <2>2, <2>3, <2>4, <2>5
<1>7. ASSUME NEW i \in 1..Len(f)
      PROVE  Parses(a, i) <=> Parses(b, i)
  <2>1. CASE i = Len(f)
    BY <1>4, <1>5, <1>6, <2>1 DEF Parses
  <2>2. CASE i # Len(f)
    <3>1. /\ i + 1 \in 1..Len(f) /\ (i # 1 => i - 1 \in 1..Len(f))
          /\ i # Len(f) + 1 /\ i # Len(f) + 2
      BY <1>5, <2>2
    <3>2. a[i] = b[i] /\ a[i + 1] = b[i + 1] /\ (i # 1 => a[i - 1] = b[i - 1])
      BY <1>6, <3>1
    <3> QED
      BY <1>6, <3>1, <3>2 DEF Parses
  <2> QED
    BY <2>1, <2>2
<1>8. ~ Parses(a, Len(f) + 1) /\ ~ Parses(a, Len(f) + 2) /\ ~ Parses(b, Len(f) + 1)
  <2>1. Len(f) + 1 # Len(f) + 2 /\ Len(f) + 1 + 1 = Len(f) + 2
    BY <1>5
  <2> QED
    BY <1>4, <1>6, <2>1 DEF Parses
<1>9. Whole(a) = Whole(b)
  <2>1. /\ \A i \in (Len(f) + 1)..Len(a) : i = Len(f) + 1 \/ i = Len(f) + 2
        /\ \A i \in (Len(f) + 1)..Len(b) : i = Len(f) + 1
    BY <1>5, <1>6
  <2>2. /\ \A i \in (Len(f) + 1)..Len(a) : ~ Parses(a, i)
        /\ \A i \in (Len(f) + 1)..Len(b) : ~ Parses(b, i)
    BY <1>8, <2>1
  <2>3. \A i \in 1..Len(f) : a[i] = b[i] /\ (Parses(a, i) <=> Parses(b, i))
    BY <1>6, <1>7
  <2>4. Len(f) <= Len(a) /\ Len(f) <= Len(b)
    BY <1>5, <1>6
  <2> QED
    BY <1>5, <1>6, <2>2, <2>3, <2>4, ReadsTheSame
<1> QED
    BY <1>1, <1>2, <1>3, <1>9 DEF Safe

\* A part of a line destroys the line that it is appended to, and nothing else.
LEMMA PartIsAppended ==
    ASSUME NEW f \in Seq(Token), NEW u \in Part
    PROVE  Whole(Append(f, u)) = Safe(f)
<1>1. CASE f = <<>> \/ f[Len(f)] = LineFeed
    BY <1>1, PartAtLineStart, SafeAtLineStart
<1>2. CASE ~ (f = <<>> \/ f[Len(f)] = LineFeed)
    BY <1>2, SafeGlued
<1> QED
    BY <1>1, <1>2

\* What parses is what is safe, and perhaps the last line.
LEMMA SafeFacts ==
    ASSUME NEW f \in Seq(Token)
    PROVE  /\ Safe(f) \in Seq(Records)
           /\ Whole(f) = Safe(f) \/ \E r \in Records : Whole(f) = Append(Safe(f), r)
<1>1. Torn \in Token /\ Torn \notin Records /\ LineFeed \notin Records
    BY RuntimeMetricsAssumption DEF Token, Part
<1>2. Safe(f) \in Seq(Records)
  <2>1. PICK b : b = Append(f, Torn)
    OBVIOUS
  <2>2. b \in Seq(Token)
    BY <1>1, <2>1
  <2> QED
    BY <1>1, <2>1, <2>2, WholeFacts DEF Safe
<1>3. CASE f = <<>> \/ f[Len(f)] = LineFeed
    BY <1>2, <1>3, SafeAtLineStart
<1>4. ASSUME f # <<>>, f[Len(f)] # LineFeed
      PROVE  Whole(f) = Safe(f) \/ \E r \in Records : Whole(f) = Append(Safe(f), r)
  <2>1. PICK e \in Seq(Token), u \in Token : f = Append(e, u)
    BY <1>4, SequenceEmptyOrAppend
  <2>2. u \in Records \cup Part
    <3>1. f[Len(f)] = u
      BY <2>1
    <3> QED
      BY <1>4, <3>1 DEF Token
  <2>3. Safe(f) = Safe(e)
    BY <2>1, <2>2, SafeAppend
  <2>4. CASE e # <<>> /\ e[Len(e)] # LineFeed
    BY <2>1, <2>2, <2>3, <2>4, SafeGlued
  <2>5. CASE (e = <<>> \/ e[Len(e)] = LineFeed) /\ u \in Records
    BY <2>1, <2>3, <2>5, SafeAtLineStart, WholeFacts
  <2>6. CASE (e = <<>> \/ e[Len(e)] = LineFeed) /\ u \in Part
    BY <2>1, <2>3, <2>6, SafeAtLineStart, PartAtLineStart
  <2> QED
    BY <2>2, <2>4, <2>5, <2>6
<1> QED
    BY <1>2, <1>3, <1>4

--------------------------------------------------------------------------------
(***************************************************************************)
(* What is lost, and what an append or a rewrite adds to it                *)
(***************************************************************************)
\* What is left of a log is in its order.
Ordered(l, k) ==
    /\ \A n \in 1..Len(k) : \E a \in 1..Len(l) : l[a] = k[n]
    /\ \A m, n \in 1..Len(k), a, b \in 1..Len(l) :
         m < n /\ l[a] = k[m] /\ l[b] = k[n] => a < b

\* The places in a log of what is not left, since the oldest of what is safe.
Lost(l, safe, left) ==
    {i \in 1..Len(l) : /\ \A n \in 1..Len(left) : left[n] # l[i]
                       /\ safe = <<>> \/ \E j \in 1..Len(l) : j < i /\ l[j] = safe[1]}

\* Lost are two records for each line that was cut, but for the one that will be
\* appended to such a line, and for what is destroyed by that.
Fits(l, safe, left, open, c) ==
    /\ left = safe \/ \E r \in Records : left = Append(safe, r)
    /\ Ordered(l, left)
    /\ Cardinality(Lost(l, safe, left)) + open <= 2 * c

Distinct(l) == \A a, b \in 1..Len(l) : l[a] = l[b] => a = b

LEMMA LostIsFinite ==
    ASSUME NEW l \in Seq(Records), NEW safe, NEW left
    PROVE  IsFiniteSet(Lost(l, safe, left)) /\ Cardinality(Lost(l, safe, left)) \in Nat
<1>1. 1 \in Int /\ Len(l) \in Int
    OBVIOUS
<1>2. IsFiniteSet(1..Len(l))
    BY <1>1, FS_Interval
<1>3. Lost(l, safe, left) \in SUBSET (1..Len(l))
    BY DEF Lost
<1>4. IsFiniteSet(Lost(l, safe, left))
    BY <1>2, <1>3, FS_Subset
<1> QED
    BY <1>4, FS_CardinalityType

LEMMA NoMore ==
    ASSUME NEW A, IsFiniteSet(A), NEW B, B \subseteq A
    PROVE  Cardinality(B) <= Cardinality(A)
    BY FS_Subset

LEMMA OneMore ==
    ASSUME NEW A, IsFiniteSet(A), NEW x, NEW B, B \subseteq A \cup {x}
    PROVE  Cardinality(B) <= Cardinality(A) + 1
<1>1. IsFiniteSet(A \cup {x}) /\ Cardinality(A) \in Nat
    BY FS_AddElement, FS_CardinalityType
<1>2. Cardinality(A \cup {x}) \in Nat /\ Cardinality(A \cup {x}) <= Cardinality(A) + 1
    BY <1>1, FS_AddElement, FS_CardinalityType
<1>3. Cardinality(B) \in Nat /\ Cardinality(B) <= Cardinality(A \cup {x})
  <2>1. B \in SUBSET (A \cup {x})
    OBVIOUS
  <2> QED
    BY <1>1, <2>1, FS_Subset, FS_CardinalityType
<1> QED
    BY <1>1, <1>2, <1>3

\* A cut pays for the two records.
LEMMA FitsCut ==
    ASSUME NEW l \in Seq(Records), NEW safe, NEW left, NEW p \in Nat, NEW c \in Nat,
           Fits(l, safe, left, p, c), NEW q \in {0, 2}
    PROVE  Fits(l, safe, left, q, c + 1)
<1>1. PICK n \in Nat : n = Cardinality(Lost(l, safe, left))
    BY LostIsFinite
<1>2. n + p <= 2 * c
    BY <1>1 DEF Fits
<1>3. n + q <= 2 * (c + 1)
    BY <1>2
<1> QED
    BY <1>1, <1>3 DEF Fits

LEMMA FitsLess ==
    ASSUME NEW l \in Seq(Records), NEW safe, NEW left, NEW p \in Nat, NEW c \in Nat,
           Fits(l, safe, left, p, c), NEW q \in Nat, q <= p
    PROVE  Fits(l, safe, left, q, c)
<1>1. PICK n \in Nat : n = Cardinality(Lost(l, safe, left))
    BY LostIsFinite
<1>2. n + p <= 2 * c
    BY <1>1 DEF Fits
<1>3. n + q <= 2 * c
    BY <1>2
<1> QED
    BY <1>1, <1>3 DEF Fits

\* The last line gets its end, or is read to be written again.
LEMMA FitsSafe ==
    ASSUME NEW l \in Seq(Records), NEW safe \in Seq(Records), NEW left, NEW p \in Nat,
           NEW c \in Nat, Fits(l, safe, left, p, c)
    PROVE  Fits(l, left, left, p, c)
<1>1. left = safe \/ \E r \in Records : left = Append(safe, r)
    BY DEF Fits
<1>2. safe # <<>> => left # <<>> /\ left[1] = safe[1]
  <2>1. ASSUME safe # <<>>, NEW r \in Records, left = Append(safe, r)
        PROVE  left # <<>> /\ left[1] = safe[1]
    <3>1. 1 \in 1..Len(safe)
      BY <2>1
    <3> QED
      BY <2>1, <3>1
  <2> QED
    BY <1>1, <2>1
<1>3. Lost(l, left, left) \subseteq Lost(l, safe, left)
  <2>1. CASE safe = <<>>
    BY <2>1 DEF Lost
  <2>2. CASE safe # <<>>
    BY <1>2, <2>2 DEF Lost
  <2> QED
    BY <2>1, <2>2
<1>4. PICK n \in Nat : n = Cardinality(Lost(l, safe, left))
    BY LostIsFinite
<1>5. PICK m \in Nat : m = Cardinality(Lost(l, left, left))
    BY LostIsFinite
<1>6. m <= n
    BY <1>3, <1>4, <1>5, LostIsFinite, NoMore
<1>7. n + p <= 2 * c
    BY <1>4 DEF Fits
<1>8. m + p <= 2 * c
    BY <1>6, <1>7
<1> QED
    BY <1>5, <1>8 DEF Fits

LEMMA LogGrows ==
    ASSUME NEW l \in Seq(Records), NEW r \in Records, \A a \in 1..Len(l) : l[a] # r
    PROVE  LET m == Append(l, r)
           IN  /\ m \in Seq(Records) /\ Len(m) = Len(l) + 1 /\ Len(l) \in Nat
               /\ \A a \in 1..Len(l) : m[a] = l[a]
               /\ \A a \in 1..Len(m) : a \in 1..Len(l) \/ (a = Len(l) + 1 /\ m[a] = r)
               /\ Distinct(l) => Distinct(m)
<1>1. PICK m : m = Append(l, r)
    OBVIOUS
<1>2. /\ m \in Seq(Records) /\ Len(m) = Len(l) + 1 /\ Len(l) \in Nat
      /\ (\A a \in 1..Len(l) : m[a] = l[a]) /\ m[Len(l) + 1] = r
    BY <1>1
<1>3. \A a \in 1..Len(m) : a \in 1..Len(l) \/ a = Len(l) + 1
    BY <1>2
<1>4. \A a \in 1..Len(m) : a \in 1..Len(l) \/ (a = Len(l) + 1 /\ m[a] = r)
    BY <1>2, <1>3
<1>5. Distinct(l) => Distinct(m)
  <2>1. ASSUME Distinct(l), NEW a \in 1..Len(m), NEW b \in 1..Len(m), m[a] = m[b]
        PROVE  a = b
    BY <1>2, <1>4, <2>1 DEF Distinct
  <2> QED
    BY <2>1 DEF Distinct
<1> QED
    BY <1>1, <1>2, <1>4, <1>5

\* A new record, read or not, leaves the others in their order.
LEMMA OrderedGrows ==
    ASSUME NEW l \in Seq(Records), NEW k \in Seq(Records), NEW r \in Records,
           \A a \in 1..Len(l) : l[a] # r, Ordered(l, k)
    PROVE  Ordered(Append(l, r), k) /\ Ordered(Append(l, r), Append(k, r))
<1>1. PICK m : m = Append(l, r)
    OBVIOUS
<1>2. PICK h : h = Append(k, r)
    OBVIOUS
<1>3. /\ Len(l) \in Nat /\ Len(m) = Len(l) + 1
      /\ \A a \in 1..Len(l) : m[a] = l[a]
      /\ \A a \in 1..Len(m) : a \in 1..Len(l) \/ (a = Len(l) + 1 /\ m[a] = r)
    BY <1>1, LogGrows
<1>4. /\ Len(k) \in Nat /\ Len(h) = Len(k) + 1
      /\ (\A n \in 1..Len(k) : h[n] = k[n]) /\ h[Len(k) + 1] = r
    BY <1>2
<1>5. \A n \in 1..Len(k) : k[n] # r
    BY DEF Ordered
<1>6. \A n \in 1..Len(k), a \in 1..Len(m) : m[a] = k[n] => a \in 1..Len(l) /\ l[a] = k[n]
    BY <1>3, <1>5
<1>7. Len(l) + 1 \in 1..Len(m) /\ m[Len(l) + 1] = r
    BY <1>1, <1>3
<1>8. \A n \in 1..Len(k) : \E a \in 1..Len(m) : m[a] = k[n]
  <2>1. ASSUME NEW n \in 1..Len(k)
        PROVE  \E a \in 1..Len(m) : m[a] = k[n]
    <3>1. PICK a \in 1..Len(l) : l[a] = k[n]
      BY DEF Ordered
    <3>2. a \in 1..Len(m) /\ m[a] = k[n]
      BY <1>3, <3>1
    <3> QED
      BY <3>2
  <2> QED
    BY <2>1
<1>9. \A i, n \in 1..Len(k), a, b \in 1..Len(m) :
         i < n /\ m[a] = k[i] /\ m[b] = k[n] => a < b
    BY <1>6 DEF Ordered
<1>10. Ordered(m, k)
    BY <1>8, <1>9 DEF Ordered
<1>11. \A n \in 1..Len(h) : n \in 1..Len(k) \/ n = Len(k) + 1
    BY <1>4
<1>12. \A n \in 1..Len(h) : \E a \in 1..Len(m) : m[a] = h[n]
    BY <1>4, <1>7, <1>8, <1>11
<1>13. ASSUME NEW i \in 1..Len(h), NEW n \in 1..Len(h),
              NEW a \in 1..Len(m), NEW b \in 1..Len(m),
              i < n, m[a] = h[i], m[b] = h[n]
       PROVE  a < b
  <2>1. i \in 1..Len(k) /\ h[i] = k[i]
    BY <1>4, <1>13
  <2>2. a \in 1..Len(l)
    BY <1>6, <1>13, <2>1
  <2>3. CASE n \in 1..Len(k)
    BY <1>4, <1>9, <1>13, <2>1, <2>3
  <2>4. CASE n = Len(k) + 1
    <3>1. m[b] = r
      BY <1>4, <1>13, <2>4
    <3>2. b = Len(l) + 1
      BY <1>3, <3>1
    <3> QED
      BY <1>3, <2>2, <3>2
  <2> QED
    BY <1>11, <2>3, <2>4
<1>14. Ordered(m, h)
    BY <1>12, <1>13 DEF Ordered
<1> QED
    BY <1>1, <1>2, <1>10, <1>14

\* What is before the last one is in order too.
LEMMA OrderedFront ==
    ASSUME NEW l, NEW k \in Seq(Records), NEW r \in Records, Ordered(l, Append(k, r))
    PROVE  Ordered(l, k)
<1>1. PICK h : h = Append(k, r)
    OBVIOUS
<1>2. \A n \in 1..Len(k) : n \in 1..Len(h) /\ h[n] = k[n]
    BY <1>1
<1>3. Ordered(l, h)
    BY <1>1
<1>4. \A n \in 1..Len(k) : \E a \in 1..Len(l) : l[a] = k[n]
    BY <1>2, <1>3 DEF Ordered
<1>5. \A m, n \in 1..Len(k), a, b \in 1..Len(l) :
         m < n /\ l[a] = k[m] /\ l[b] = k[n] => a < b
    BY <1>2, <1>3 DEF Ordered
<1> QED
    BY <1>4, <1>5 DEF Ordered

\* A record at the beginning of a line can be read.
LEMMA FitsRecord ==
    ASSUME NEW l \in Seq(Records), NEW k \in Seq(Records), NEW r \in Records,
           \A a \in 1..Len(l) : l[a] # r,
           NEW p \in Nat, NEW c \in Nat, Fits(l, k, k, p, c)
    PROVE  Fits(Append(l, r), k, Append(k, r), p, c)
<1>1. PICK m : m = Append(l, r)
    OBVIOUS
<1>2. PICK h : h = Append(k, r)
    OBVIOUS
<1>3. /\ Len(l) \in Nat /\ Len(m) = Len(l) + 1 /\ m \in Seq(Records)
      /\ \A a \in 1..Len(l) : m[a] = l[a]
      /\ \A a \in 1..Len(m) : a \in 1..Len(l) \/ (a = Len(l) + 1 /\ m[a] = r)
    BY <1>1, LogGrows
<1>4. /\ Len(k) \in Nat /\ Len(h) = Len(k) + 1
      /\ (\A n \in 1..Len(k) : h[n] = k[n]) /\ h[Len(k) + 1] = r
    BY <1>2
<1>5. ASSUME NEW i \in Lost(m, k, h)
      PROVE  i \in Lost(l, k, k)
  <2>1. /\ i \in 1..Len(m) /\ \A n \in 1..Len(h) : h[n] # m[i]
        /\ k = <<>> \/ \E j \in 1..Len(m) : j < i /\ m[j] = k[1]
    BY <1>5 DEF Lost
  <2>2. i \in 1..Len(l) /\ m[i] = l[i]
    <3>1. Len(k) + 1 \in 1..Len(h)
      BY <1>4
    <3> QED
      BY <1>3, <1>4, <2>1, <3>1
  <2>3. \A n \in 1..Len(k) : k[n] # l[i]
    <3>1. \A n \in 1..Len(k) : n \in 1..Len(h)
      BY <1>4
    <3> QED
      BY <1>4, <2>1, <2>2, <3>1
  <2>4. ASSUME NEW j \in 1..Len(m), j < i, m[j] = k[1]
        PROVE  j \in 1..Len(l) /\ l[j] = k[1]
    BY <1>3, <2>2, <2>4
  <2>5. k = <<>> \/ \E j \in 1..Len(l) : j < i /\ l[j] = k[1]
    BY <2>1, <2>4
  <2> QED
    BY <2>2, <2>3, <2>5 DEF Lost
<1>6. PICK n \in Nat : n = Cardinality(Lost(l, k, k))
    BY LostIsFinite
<1>7. PICK o \in Nat : o = Cardinality(Lost(m, k, h))
    BY <1>3, LostIsFinite
<1>8. o <= n
  <2>1. Lost(m, k, h) \subseteq Lost(l, k, k)
    BY <1>5
  <2> QED
    BY <1>6, <1>7, <2>1, LostIsFinite, NoMore
<1>9. n + p <= 2 * c
    BY <1>6 DEF Fits
<1>10. Cardinality(Lost(m, k, h)) + p <= 2 * c
    BY <1>7, <1>8, <1>9
<1>11. Ordered(m, h)
    BY <1>1, <1>2, OrderedGrows DEF Fits
<1>12. \E x \in Records : h = Append(k, x)
    BY <1>2
<1>13. Fits(m, k, h, p, c)
    BY <1>10, <1>11, <1>12 DEF Fits
<1> QED
    BY <1>1, <1>2, <1>13

\* Without its last line a file has at most one record less.
LEMMA LostLast ==
    ASSUME NEW l \in Seq(Records), Distinct(l), NEW safe \in Seq(Records), NEW left,
           left = safe \/ \E r \in Records : left = Append(safe, r)
    PROVE  \E x : Lost(l, safe, safe) \subseteq Lost(l, safe, left) \cup {x}
<1>1. CASE left = safe
    BY <1>1
<1>2. ASSUME NEW r \in Records, left = Append(safe, r)
      PROVE  \E x : Lost(l, safe, safe) \subseteq Lost(l, safe, left) \cup {x}
  <2>1. /\ Len(safe) \in Nat /\ Len(left) = Len(safe) + 1
        /\ (\A n \in 1..Len(safe) : left[n] = safe[n]) /\ left[Len(safe) + 1] = r
    BY <1>2
  <2>2. PICK x : \A a \in 1..Len(l) : l[a] = r => a = x
    BY DEF Distinct
  <2>3. ASSUME NEW i \in Lost(l, safe, safe), i # x
        PROVE  i \in Lost(l, safe, left)
    <3>1. /\ i \in 1..Len(l) /\ \A n \in 1..Len(safe) : safe[n] # l[i]
          /\ safe = <<>> \/ \E j \in 1..Len(l) : j < i /\ l[j] = safe[1]
      BY DEF Lost
    <3>2. l[i] # r
      BY <2>2, <2>3, <3>1
    <3>3. \A n \in 1..Len(left) : n \in 1..Len(safe) \/ n = Len(safe) + 1
      BY <2>1
    <3>4. \A n \in 1..Len(left) : left[n] # l[i]
      BY <2>1, <3>1, <3>2, <3>3
    <3> QED
      BY <3>1, <3>4 DEF Lost
  <2> QED
    BY <2>3
<1> QED
    BY <1>1, <1>2

LEMMA SafeOrdered ==
    ASSUME NEW l, NEW safe \in Seq(Records), NEW left, NEW p, NEW c, Fits(l, safe, left, p, c)
    PROVE  Ordered(l, safe)
    BY OrderedFront DEF Fits

\* A record that is appended to a line without an end destroys itself and that line.
LEMMA FitsGlued ==
    ASSUME NEW l \in Seq(Records), Distinct(l), NEW safe \in Seq(Records), NEW left,
           NEW r \in Records, \A a \in 1..Len(l) : l[a] # r,
           NEW c \in Nat, Fits(l, safe, left, 2, c)
    PROVE  Fits(Append(l, r), safe, safe, 0, c)
<1>1. PICK m : m = Append(l, r)
    OBVIOUS
<1>2. /\ Len(l) \in Nat /\ Len(m) = Len(l) + 1 /\ m \in Seq(Records)
      /\ \A a \in 1..Len(l) : m[a] = l[a]
      /\ \A a \in 1..Len(m) : a \in 1..Len(l) \/ (a = Len(l) + 1 /\ m[a] = r)
    BY <1>1, LogGrows
<1>3. left = safe \/ \E x \in Records : left = Append(safe, x)
    BY DEF Fits
<1>4. PICK x : Lost(l, safe, safe) \subseteq Lost(l, safe, left) \cup {x}
    BY <1>3, LostLast
<1>5. Lost(m, safe, safe) \subseteq Lost(l, safe, safe) \cup {Len(l) + 1}
  <2>1. ASSUME NEW i \in Lost(m, safe, safe), i # Len(l) + 1
        PROVE  i \in Lost(l, safe, safe)
    <3>1. /\ i \in 1..Len(m) /\ \A n \in 1..Len(safe) : safe[n] # m[i]
          /\ safe = <<>> \/ \E j \in 1..Len(m) : j < i /\ m[j] = safe[1]
      BY DEF Lost
    <3>2. i \in 1..Len(l) /\ m[i] = l[i]
      BY <1>2, <2>1, <3>1
    <3>3. ASSUME NEW j \in 1..Len(m), j < i, m[j] = safe[1]
          PROVE  j \in 1..Len(l) /\ l[j] = safe[1]
      BY <1>2, <3>2, <3>3
    <3>4. safe = <<>> \/ \E j \in 1..Len(l) : j < i /\ l[j] = safe[1]
      BY <3>1, <3>3
    <3> QED
      BY <3>1, <3>2, <3>4 DEF Lost
  <2> QED
    BY <2>1
<1>6. PICK n \in Nat : n = Cardinality(Lost(l, safe, left))
    BY LostIsFinite
<1>7. PICK o \in Nat : o = Cardinality(Lost(l, safe, safe))
    BY LostIsFinite
<1>8. PICK q \in Nat : q = Cardinality(Lost(m, safe, safe))
    BY <1>2, LostIsFinite
<1>9. o <= n + 1
    BY <1>4, <1>6, <1>7, LostIsFinite, OneMore
<1>10. q <= o + 1
    BY <1>5, <1>7, <1>8, LostIsFinite, OneMore
<1>11. n + 2 <= 2 * c
    BY <1>6 DEF Fits
<1>12. Cardinality(Lost(m, safe, safe)) + 0 <= 2 * c
    BY <1>8, <1>9, <1>10, <1>11
<1>13. Ordered(m, safe)
    BY <1>1, SafeOrdered, OrderedGrows
<1>14. Fits(m, safe, safe, 0, c)
    BY <1>12, <1>13 DEF Fits
<1> QED
    BY <1>1, <1>14

\* A part of a record, after a line with an end or without one.
LEMMA FitsTorn ==
    ASSUME NEW l \in Seq(Records), Distinct(l), NEW safe \in Seq(Records), NEW left,
           NEW p \in Nat, NEW c \in Nat, Fits(l, safe, left, p, c), left = safe \/ p = 2
    PROVE  Fits(l, safe, safe, 2, c + 1)
<1>1. left = safe \/ \E x \in Records : left = Append(safe, x)
    BY DEF Fits
<1>2. PICK x : Lost(l, safe, safe) \subseteq Lost(l, safe, left) \cup {x}
    BY <1>1, LostLast
<1>3. PICK n \in Nat : n = Cardinality(Lost(l, safe, left))
    BY LostIsFinite
<1>4. PICK o \in Nat : o = Cardinality(Lost(l, safe, safe))
    BY LostIsFinite
<1>5. o <= n + 1 /\ (left = safe => o = n)
    BY <1>2, <1>3, <1>4, LostIsFinite, OneMore
<1>6. n + p <= 2 * c
    BY <1>3 DEF Fits
<1>7. o + 2 <= 2 * (c + 1)
    BY <1>5, <1>6
<1> QED
    BY <1>4, <1>7, SafeOrdered DEF Fits

\* Retention drops the oldest of what is left, which then do not count any more.
LEMMA FitsKept ==
    ASSUME NEW l \in Seq(Records), NEW k \in Seq(Records), NEW i \in 1..Len(k),
           NEW p \in Nat, NEW c \in Nat, Fits(l, k, k, p, c)
    PROVE  Fits(l, From(k, i), From(k, i), 0, c)
<1>1. PICK h : h = From(k, i)
    OBVIOUS
<1>2. /\ Len(k) \in Nat /\ h \in Seq(Records) /\ Len(h) = Len(k) - i + 1
      /\ \A j \in 1..Len(h) : h[j] = k[i + j - 1] /\ i + j - 1 \in 1..Len(k)
  <2>1. i \in 1..(Len(k) + 1) /\ Len(k) \in Nat
    OBVIOUS
  <2>2. h \in Seq(Records) /\ Len(h) = Len(k) - i + 1
    BY <1>1, <2>1, FromFacts
  <2>3. \A j \in 1..Len(h) : h[j] = k[i + j - 1]
    BY <1>1, <2>1, FromFacts
  <2>4. \A j \in 1..Len(h) : i + j - 1 \in 1..Len(k)
    BY <2>1, <2>2
  <2> QED
    BY <2>1, <2>2, <2>3, <2>4
<1>3. /\ \A n \in 1..Len(k) : \E a \in 1..Len(l) : l[a] = k[n]
      /\ \A m, n \in 1..Len(k), a, b \in 1..Len(l) :
           m < n /\ l[a] = k[m] /\ l[b] = k[n] => a < b
    BY DEF Fits, Ordered
<1>4. Ordered(l, h)
  <2>1. \A n \in 1..Len(h) : \E a \in 1..Len(l) : l[a] = h[n]
    BY <1>2, <1>3
  <2>2. ASSUME NEW m \in 1..Len(h), NEW n \in 1..Len(h),
               NEW a \in 1..Len(l), NEW b \in 1..Len(l),
               m < n, l[a] = h[m], l[b] = h[n]
        PROVE  a < b
    <3>1. i + m - 1 \in 1..Len(k) /\ i + n - 1 \in 1..Len(k) /\ i + m - 1 < i + n - 1
      BY <1>2, <2>2, SMTT(30)
    <3>2. l[a] = k[i + m - 1] /\ l[b] = k[i + n - 1]
      BY <1>2, <2>2
    <3> QED
      BY <1>3, <3>1, <3>2, ZenonT(60)
  <2> QED
    BY <2>1, <2>2 DEF Ordered
<1>5. 1 \in 1..Len(h) /\ h # <<>> /\ h[1] = k[i] /\ 1 \in 1..Len(k) /\ k # <<>>
  <2>1. 1 \in 1..Len(h) /\ 1 \in 1..Len(k) /\ i + 1 - 1 = i
    BY <1>2
  <2> QED
    BY <1>2, <2>1
<1>6. ASSUME NEW a \in Lost(l, h, h)
      PROVE  a \in Lost(l, k, k)
  <2>1. /\ a \in 1..Len(l) /\ \A n \in 1..Len(h) : h[n] # l[a]
    BY DEF Lost
  <2>2. PICK b \in 1..Len(l) : b < a /\ l[b] = k[i]
    BY <1>5 DEF Lost
  <2>3. ASSUME NEW n \in 1..Len(k), k[n] = l[a]
        PROVE  FALSE
    <3>1. CASE n >= i
      <4>1. n - i + 1 \in 1..Len(h) /\ i + (n - i + 1) - 1 = n
        BY <1>2, <3>1
      <4>2. h[n - i + 1] = k[n]
        BY <1>2, <4>1
      <4> QED
        BY <2>1, <2>3, <4>1, <4>2
    <3>2. CASE n < i
      <4>1. a < b
        BY <1>3, <2>1, <2>2, <2>3, <3>2
      <4> QED
        BY <2>1, <2>2, <4>1
    <3> QED
      BY <3>1, <3>2
  <2>4. \E d \in 1..Len(l) : d < a /\ l[d] = k[1]
    <3>1. CASE i = 1
      BY <2>2, <3>1
    <3>2. CASE i # 1
      <4>1. PICK d \in 1..Len(l) : l[d] = k[1]
        BY <1>3, <1>5
      <4>2. 1 < i
        BY <3>2
      <4>3. d < b
        BY <1>3, <1>5, <2>2, <4>1, <4>2
      <4>4. d < a
        BY <2>1, <2>2, <4>1, <4>3
      <4> QED
        BY <4>1, <4>4
    <3> QED
      BY <3>1, <3>2
  <2> QED
    BY <2>1, <2>3, <2>4 DEF Lost
<1>7. PICK n \in Nat : n = Cardinality(Lost(l, k, k))
    BY LostIsFinite
<1>8. PICK o \in Nat : o = Cardinality(Lost(l, h, h))
    BY LostIsFinite
<1>9. o <= n
  <2>1. Lost(l, h, h) \subseteq Lost(l, k, k)
    BY <1>6
  <2> QED
    BY <1>7, <1>8, <2>1, LostIsFinite, NoMore
<1>10. n + p <= 2 * c
    BY <1>7 DEF Fits
<1>11. Cardinality(Lost(l, h, h)) + 0 <= 2 * c
    BY <1>8, <1>9, <1>10
<1> QED
    BY <1>1, <1>4, <1>11 DEF Fits

--------------------------------------------------------------------------------
(***************************************************************************)
(* What is lost to lines that were cut                                     *)
(***************************************************************************)
\* No record is written twice.
LogInv ==
    /\ Distinct(log)
    /\ \A a \in 1..Len(log) : log[a] < next
    /\ \A s \in Servers : server[s].append = "line" =>
         server[s].record < next /\ \A a \in 1..Len(log) : log[a] # server[s].record
    /\ \A s, t \in Servers :
         server[s].append = "line" /\ server[t].append = "line" /\ s # t =>
           server[s].record # server[t].record

\* The next record will begin at the beginning of a line.
Clean ==
    \/ file = <<>>
    \/ file[Len(file)] = LineFeed
    \/ \E s \in Servers : server[s].append = "feed"

\* What the next record will destroy if it does not: the last one, and itself.
Open == IF Clean THEN 0 ELSE 2

\* What the file has lost, or will have lost when it has been filled.
CutInv ==
    ~ raced =>
      /\ ~ Rewriting => Fits(log, Safe(file), Whole(file), Open, cuts)
      /\ \A s \in Servers : server[s].keeper = "fill" =>
           Fits(log, server[s].seen, server[s].seen, 0, cuts)

LEMMA LogStep ==
    ASSUME TypeOK, StepsInv, LogInv, [Next]_vars
    PROVE  LogInv'
<1>0. /\ Distinct(log)
      /\ \A a \in 1..Len(log) : log[a] < next /\ log[a] \in Records
      /\ \A s \in Servers : server[s].append = "line" =>
           server[s].record < next /\ \A a \in 1..Len(log) : log[a] # server[s].record
      /\ \A s, t \in Servers :
           server[s].append = "line" /\ server[t].append = "line" /\ s # t =>
             server[s].record # server[t].record
    BY DEF LogInv, TypeOK
\* Nothing is written, and nobody has a new record.
<1>1. ASSUME log' = log, next' = next,
             \A t \in Servers : server'[t].append = "line" =>
               server[t].append = "line" /\ server'[t].record = server[t].record
      PROVE  LogInv'
    BY <1>0, <1>1 DEF LogInv, Distinct
<1>2. ASSUME NEW s \in Servers, Moved(s), server'[s].append # "line", log' = log, next' = next
      PROVE  LogInv'
    BY <1>1, <1>2 DEF Moved
<1>3. ASSUME NEW s \in Servers, Record(s)
      PROVE  LogInv'
  <2>1. next \in Nat /\ next' = next + 1 /\ log' = log
    BY <1>3 DEF TypeOK, Record
  <2>2. Moved(s) /\ server'[s].append = "line"
    BY <1>3, RecordMoves
  <2>3. server'[s].record = next
    BY <1>3 DEF TypeOK, ServerType, Record
  <2>4. \A t \in Servers : server[t].record \in Nat /\ log \in Seq(Records)
    BY RuntimeMetricsAssumption DEF TypeOK, ServerType
  <2>5. \A a \in 1..Len(log) : log[a] \in Nat /\ log[a] < next
    BY <1>0 DEF Records
  <2>6. \A a \in 1..Len(log) : log[a] < next' /\ log[a] # next
    BY <2>1, <2>5
  <2>7. \A t \in Servers : server'[t].append = "line" =>
          server'[t].record < next' /\ \A a \in 1..Len(log) : log[a] # server'[t].record
    <3>1. ASSUME NEW t \in Servers, t # s, server'[t].append = "line"
          PROVE  server'[t].record < next' /\ \A a \in 1..Len(log) : log[a] # server'[t].record
      <4>1. server'[t] = server[t]
        BY <2>2, <3>1 DEF Moved
      <4> QED
        BY <1>0, <2>1, <2>4, <3>1, <4>1
    <3> QED
      BY <2>1, <2>3, <2>6, <3>1
  <2>8. \A t, u \in Servers :
          server'[t].append = "line" /\ server'[u].append = "line" /\ t # u =>
            server'[t].record # server'[u].record
    <3>1. ASSUME NEW t \in Servers, t # s, server'[t].append = "line"
          PROVE  server'[t] = server[t] /\ server'[t].record # next
      <4>1. server'[t] = server[t]
        BY <2>2, <3>1 DEF Moved
      <4> QED
        BY <1>0, <2>1, <2>4, <3>1, <4>1
    <3> QED
      BY <1>0, <2>3, <3>1
  <2> QED
    BY <1>0, <2>1, <2>6, <2>7, <2>8 DEF LogInv
<1>4. ASSUME NEW s \in Servers, WriteLine(s)
      PROVE  LogInv'
  <2>1. PICK r : r = server[s].record
    OBVIOUS
  <2>2. server[s].append = "line" /\ log' = Append(log, r) /\ next' = next
    BY <1>4, <2>1 DEF WriteLine
  <2>3. r \in Records /\ r < next /\ \A a \in 1..Len(log) : log[a] # r
    BY <1>0, <2>1, <2>2 DEF StepsInv, StepsFit
  <2>4. log \in Seq(Records)
    BY DEF TypeOK
  <2>5. /\ \A a \in 1..Len(log) : log'[a] = log[a]
        /\ \A a \in 1..Len(log') : a \in 1..Len(log) \/ (a = Len(log) + 1 /\ log'[a] = r)
        /\ Distinct(log')
    BY <1>0, <2>2, <2>3, <2>4, LogGrows
  <2>6. \A a \in 1..Len(log') : log'[a] < next'
    BY <1>0, <2>2, <2>3, <2>5
  <2>7. Moved(s) /\ server'[s].append = "feed"
    BY <1>4, WriteLineMoves
  <2>8. ASSUME NEW t \in Servers, server'[t].append = "line"
        PROVE  /\ server'[t] = server[t] /\ t # s
               /\ server'[t].record < next' /\ \A a \in 1..Len(log') : log'[a] # server'[t].record
    <3>1. server'[t] = server[t] /\ t # s
      BY <2>7, <2>8 DEF Moved
    <3>2. server[t].record # r
      BY <1>0, <2>1, <2>2, <2>8, <3>1
    <3> QED
      BY <1>0, <2>2, <2>5, <2>8, <3>1, <3>2
  <2>9. \A t, u \in Servers :
          server'[t].append = "line" /\ server'[u].append = "line" /\ t # u =>
            server'[t].record # server'[u].record
    BY <1>0, <2>8
  <2> QED
    BY <2>5, <2>6, <2>8, <2>9 DEF LogInv
<1>5. ASSUME NEW s \in Servers, WriteFeed(s)
      PROVE  LogInv'
    BY <1>2, <1>5, WriteFeedMoves DEF WriteFeed
<1>6. ASSUME NEW s \in Servers, AppendFails(s)
      PROVE  LogInv'
    BY <1>2, <1>6, AppendFailsMoves DEF AppendFails
<1>7. ASSUME NEW s \in Servers, Finish(s)
      PROVE  LogInv'
  <2>1. log' = log /\ next' = next
    BY <1>7 DEF Finish
  <2> QED
    BY <1>2, <1>7, <2>1, FinishMoves
<1>8. ASSUME NEW s \in Servers, Start(s)
      PROVE  LogInv'
  <2>1. log' = log /\ next' = next
    BY <1>8 DEF Start
  <2>2. \A t \in Servers \ {s} :
          server'[t].append = server[t].append /\ server'[t].record = server[t].record
    BY <1>8, StartMoves
  <2>3. server'[s].append = "idle"
    BY <1>8, StartMoves
  <2> QED
    BY <1>1, <2>1, <2>2, <2>3
<1>9. ASSUME NEW s \in Servers, Measure(s)
      PROVE  LogInv'
  <2>1. log' = log /\ next' = next /\ server[s].append = "idle"
    BY <1>9 DEF Measure, FileFree
  <2>2. Moved(s) /\ server'[s].append = "idle"
    BY <1>9, <2>1, MeasureMoves
  <2> QED
    BY <1>2, <2>1, <2>2
<1>10. ASSUME NEW s \in Servers, Read(s)
       PROVE  LogInv'
  <2>1. log' = log /\ next' = next
    BY <1>10 DEF Read
  <2>2. Moved(s) /\ server'[s].append = "idle"
    BY <1>10, ReadMoves
  <2> QED
    BY <1>2, <2>1, <2>2
<1>11. ASSUME NEW s \in Servers, ReadFails(s)
       PROVE  LogInv'
    BY <1>2, <1>11, ReadFailsMoves DEF ReadFails
<1>12. ASSUME NEW s \in Servers, Truncate(s)
       PROVE  LogInv'
  <2>1. log' = log /\ next' = next /\ server[s].append # "line"
    BY <1>12 DEF Truncate, StepsInv, StepsFit
  <2>2. Moved(s) /\ server'[s].append = server[s].append
    BY <1>12, TruncateMoves
  <2> QED
    BY <1>2, <2>1, <2>2
<1>13. ASSUME NEW s \in Servers, Fill(s)
       PROVE  LogInv'
  <2>1. log' = log /\ next' = next
    BY <1>13 DEF Fill
  <2> QED
    BY <1>2, <1>13, <2>1, FillMoves
<1>14. ASSUME NEW s \in Servers, RewriteFails(s)
       PROVE  LogInv'
  <2>1. log' = log /\ next' = next
    BY <1>14 DEF RewriteFails
  <2> QED
    BY <1>2, <1>14, <2>1, RewriteFailsMoves
<1>15. ASSUME NEW s \in Servers, Exit(s)
       PROVE  LogInv'
  <2>1. log' = log /\ next' = next
    BY <1>15 DEF Exit
  <2> QED
    BY <1>2, <1>15, <2>1, ExitMoves, DownFacts
<1>16. CASE UNCHANGED vars
    BY <1>1, <1>16 DEF vars
<1> QED
    BY <1>3, <1>4, <1>5, <1>6, <1>7, <1>8, <1>9, <1>10, <1>11, <1>12, <1>13, <1>14, <1>15,
       <1>16 DEF Next

LEMMA CutStep ==
    ASSUME TypeOK, StepsInv, RewriteInv, LogInv, CutInv, [Next]_vars
    PROVE  CutInv'
<1> SUFFICES ASSUME ~ raced'
             PROVE  /\ (\A t \in Servers : server'[t].keeper # "fill")
                         => Fits(log', Safe(file'), Whole(file'), Open', cuts')
                    /\ \A t \in Servers : server'[t].keeper = "fill" =>
                         Fits(log', server'[t].seen, server'[t].seen, 0, cuts')
    BY DEF CutInv, Rewriting
<1>1. ~ raced
    BY NothingForgotten
<1>2. /\ (\A t \in Servers : server[t].keeper # "fill")
           => Fits(log, Safe(file), Whole(file), Open, cuts)
      /\ \A t \in Servers : server[t].keeper = "fill" =>
           Fits(log, server[t].seen, server[t].seen, 0, cuts)
    BY <1>1 DEF CutInv, Rewriting
<1>t. /\ log \in Seq(Records) /\ Distinct(log) /\ cuts \in Nat /\ cuts + 1 \in Nat
      /\ file \in Seq(Token) /\ Safe(file) \in Seq(Records) /\ Whole(file) \in Seq(Records)
      /\ Torn \in Token /\ LineFeed \in Token /\ 0 \in Nat /\ 2 \in Nat
      /\ \A t \in Servers : server[t].seen \in Seq(Records)
  <2>1. log \in Seq(Records) /\ cuts \in Nat /\ file \in Seq(Token)
    BY DEF TypeOK
  <2>2. Torn \in Token /\ LineFeed \in Token
    BY DEF Token, Part
  <2>3. \A t \in Servers : server[t].seen \in Seq(Records)
    BY DEF TypeOK, ServerType
  <2> QED
    BY <2>1, <2>2, <2>3, SafeFacts, WholeFacts DEF LogInv
<1>o. Open \in {0, 2} /\ Open' \in {0, 2}
    BY DEF Open
<1> DEFINE G == /\ (\A t \in Servers : server'[t].keeper # "fill")
                     => Fits(log', Safe(file'), Whole(file'), Open', cuts')
                /\ \A t \in Servers : server'[t].keeper = "fill" =>
                     Fits(log', server'[t].seen, server'[t].seen, 0, cuts')
\* The file stays as it is, and whoever is about to end a line or fill the file still is.
<1>3. ASSUME file' = file, log' = log, cuts' = cuts,
             \A t \in Servers : server[t].append = "feed" => server'[t].append = "feed",
             \A t \in Servers : /\ server'[t].keeper = "fill" <=> server[t].keeper = "fill"
                                /\ server'[t].keeper = "fill" => server'[t].seen = server[t].seen
      PROVE  G
  <2>1. Open' \in Nat /\ Open \in Nat /\ Open' <= Open
    BY <1>3 DEF Open, Clean
  <2>2. (\A t \in Servers : server[t].keeper # "fill")
          => Fits(log, Safe(file), Whole(file), Open', cuts)
    BY <1>2, <1>t, <2>1, FitsLess
  <2>3. \A t \in Servers : server'[t].keeper = "fill" =>
          Fits(log', server'[t].seen, server'[t].seen, 0, cuts')
    BY <1>2, <1>3
  <2> QED
    BY <1>3, <2>2, <2>3
<1>4. ASSUME NEW s \in Servers, Moved(s), file' = file, log' = log, cuts' = cuts,
             server[s].append = "feed" => server'[s].append = "feed",
             server[s].keeper # "fill", server'[s].keeper # "fill"
      PROVE  G
    BY <1>3, <1>4 DEF Moved
\* A line is given up, and the file stays as it is.
<1>5. ASSUME NEW s \in Servers, Moved(s), file' = file, log' = log, cuts' = cuts + 1,
             server[s].keeper # "fill", server'[s].keeper # "fill"
      PROVE  G
  <2>1. (\A t \in Servers : server[t].keeper # "fill")
          => Fits(log, Safe(file), Whole(file), Open', cuts + 1)
    BY <1>2, <1>t, <1>o, FitsCut
  <2>2. \A t \in Servers : server[t].keeper = "fill" =>
          Fits(log, server[t].seen, server[t].seen, 0, cuts + 1)
    BY <1>2, <1>t, FitsCut
  <2> QED
    BY <1>5, <2>1, <2>2 DEF Moved
<1>6. ASSUME NEW s \in Servers, server[s].append # "idle", ~ Meets(s)
      PROVE  /\ \A t \in Servers : server[t].keeper # "fill"
             /\ \A t \in Servers : t # s => server[t].append # "feed"
             /\ Fits(log, Safe(file), Whole(file), Open, cuts)
  <2>1. server[s].keeper = "idle"
    BY <1>6 DEF StepsInv, StepsFit
  <2> QED
    BY <1>2, <1>6, <2>1 DEF Meets
<1>7. ASSUME NEW s \in Servers, Record(s)
      PROVE  G
  <2>1. /\ file' = file /\ log' = log /\ cuts' = cuts
        /\ server[s].keeper # "fill" /\ server[s].append # "feed"
    BY <1>7 DEF Record, FileFree
  <2> QED
    BY <1>4, <1>7, <2>1, RecordMoves
<1>8. ASSUME NEW s \in Servers, WriteLine(s)
      PROVE  G
  <2>1. server[s].append = "line" /\ ~ Meets(s) /\ cuts' = cuts
    BY <1>8 DEF WriteLine
  <2>2. PICK r : r = server[s].record
    OBVIOUS
  <2>3. r \in Records /\ r \in Token /\ \A a \in 1..Len(log) : log[a] # r
    BY <2>1, <2>2 DEF StepsInv, StepsFit, LogInv, Token
  <2>4. file' = Append(file, r) /\ log' = Append(log, r)
    BY <1>8, <2>2 DEF WriteLine
  <2>5. /\ \A t \in Servers : server[t].keeper # "fill"
        /\ \A t \in Servers : server[t].append # "feed"
        /\ Fits(log, Safe(file), Whole(file), Open, cuts)
    BY <1>6, <2>1
  <2>6. Safe(file') = Safe(file)
    BY <1>t, <2>3, <2>4, SafeAppend
  <2>7. (\A t \in Servers : server'[t].keeper # "fill") /\ Open' = 0
    BY <1>8, <2>5, WriteLineMoves DEF Moved, Open, Clean
  <2>8. CASE file = <<>> \/ file[Len(file)] = LineFeed
    <3>1. Safe(file) = Whole(file) /\ Open = 0
      BY <1>t, <2>8, SafeAtLineStart DEF Open, Clean
    <3>2. Whole(file') = Append(Whole(file), r)
      BY <1>t, <2>3, <2>4, <2>8, WholeFacts
    <3>3. Fits(log', Whole(file), Append(Whole(file), r), 0, cuts)
      BY <1>t, <2>3, <2>4, <2>5, <3>1, FitsRecord
    <3> QED
      BY <2>1, <2>6, <2>7, <3>1, <3>2, <3>3
  <2>9. CASE ~ (file = <<>> \/ file[Len(file)] = LineFeed)
    <3>1. Open = 2
      BY <2>5, <2>9 DEF Open, Clean
    <3>2. Whole(file') = Safe(file)
      BY <1>t, <2>3, <2>4, <2>9, SafeGlued
    <3>3. Fits(log', Safe(file), Safe(file), 0, cuts)
      BY <1>t, <2>3, <2>4, <2>5, <3>1, FitsGlued
    <3> QED
      BY <2>1, <2>6, <2>7, <3>2, <3>3
  <2> QED
    BY <2>8, <2>9
<1>9. ASSUME NEW s \in Servers, WriteFeed(s)
      PROVE  G
  <2>1. /\ server[s].append = "feed" /\ ~ Meets(s)
        /\ file' = Append(file, LineFeed) /\ log' = log /\ cuts' = cuts
    BY <1>9 DEF WriteFeed
  <2>2. /\ \A t \in Servers : server[t].keeper # "fill"
        /\ Fits(log, Safe(file), Whole(file), Open, cuts)
    BY <1>6, <2>1
  <2>3. file' \in Seq(Token) /\ file'[Len(file')] = LineFeed
    <3>1. /\ Len(file) \in Nat /\ Len(Append(file, LineFeed)) = Len(file) + 1
          /\ Append(file, LineFeed)[Len(file) + 1] = LineFeed
          /\ Append(file, LineFeed) \in Seq(Token)
      BY <1>t
    <3> QED
      BY <2>1, <3>1
  <2>4. Whole(file') = Whole(file)
    BY <1>t, <2>1, WholeFacts
  <2>5. Safe(file') = Whole(file)
    BY <2>3, <2>4, SafeAtLineStart
  <2>6. Open = 0 /\ Open' = 0
    BY <2>1, <2>3 DEF Open, Clean
  <2>7. Fits(log, Whole(file), Whole(file), 0, cuts)
    BY <1>t, <2>2, <2>6, FitsSafe
  <2>8. \A t \in Servers : server'[t].keeper # "fill"
    BY <1>9, <2>2, WriteFeedMoves DEF Moved
  <2> QED
    BY <2>1, <2>4, <2>5, <2>6, <2>7, <2>8
<1>10. ASSUME NEW s \in Servers, AppendFails(s)
       PROVE  G
  <2>1. server[s].append # "idle" /\ ~ Meets(s) /\ log' = log
    BY <1>10 DEF AppendFails
  <2>2. /\ \A t \in Servers : server[t].keeper # "fill"
        /\ \A t \in Servers : t # s => server[t].append # "feed"
        /\ Fits(log, Safe(file), Whole(file), Open, cuts)
    BY <1>6, <2>1
  <2>3. Moved(s) /\ server'[s].keeper # "fill"
    BY <1>10, <2>2, AppendFailsMoves
  <2>4. CASE file' = file /\ cuts' = cuts + 1
    BY <1>5, <2>1, <2>2, <2>3, <2>4
  <2>5. CASE server[s].append = "line" /\ file' = file /\ cuts' = cuts
    BY <1>4, <2>1, <2>2, <2>3, <2>5
  <2>6. ASSUME server[s].append = "line", NEW u \in Part, file' = Append(file, u),
               cuts' = cuts + 1
        PROVE  G
    <3>1. Whole(file') = Safe(file)
      BY <1>t, <2>6, PartIsAppended
    <3>2. Safe(file') = Safe(file)
      BY <1>t, <2>6, SafeAppend
    <3>3. Whole(file) = Safe(file) \/ Open = 2
      <4>1. CASE file = <<>> \/ file[Len(file)] = LineFeed
        BY <1>t, <4>1, SafeAtLineStart
      <4>2. CASE ~ (file = <<>> \/ file[Len(file)] = LineFeed)
        BY <2>2, <2>6, <4>2 DEF Open, Clean
      <4> QED
        BY <4>1, <4>2
    <3>4. Open \in Nat
      BY <1>o
    <3>5. Fits(log, Safe(file), Safe(file), 2, cuts + 1)
      BY <1>t, <2>2, <3>3, <3>4, FitsTorn
    <3>6. Open' \in Nat /\ Open' <= 2
      BY <1>o
    <3>7. Fits(log, Safe(file), Safe(file), Open', cuts + 1)
      BY <1>t, <3>5, <3>6, FitsLess
    <3>8. \A t \in Servers : server'[t].keeper # "fill"
      BY <2>2, <2>3 DEF Moved
    <3> QED
      BY <2>1, <2>6, <3>1, <3>2, <3>7, <3>8
  <2>7. \/ server[s].append = "line" /\ file' = file /\ cuts' = cuts
        \/ /\ server[s].append = "line" /\ cuts' = cuts + 1
           /\ \E u \in Part : file' = Append(file, u)
        \/ file' = file /\ cuts' = cuts + 1
    BY <1>10 DEF AppendFails, Part
  <2> QED
    BY <2>4, <2>5, <2>6, <2>7
<1>11. ASSUME NEW s \in Servers, Finish(s)
       PROVE  G
  <2>1. file' = file /\ log' = log /\ cuts' = cuts /\ server[s].append = "check"
    BY <1>11 DEF Finish
  <2>2. server[s].keeper = "idle"
    BY <2>1 DEF StepsInv, StepsFit
  <2> QED
    BY <1>4, <1>11, <2>1, <2>2, FinishMoves
<1>12. ASSUME NEW s \in Servers, Start(s)
       PROVE  G
  <2>1. /\ file' = file /\ log' = log /\ cuts' = cuts
        /\ server[s].keeper # "fill" /\ server[s].append # "feed"
    BY <1>12, DownFacts DEF Start
  <2>2. server'[s].keeper = "load"
    BY <1>12, StartMoves
  <2>3. \A t \in Servers \ {s} :
          /\ server'[t].keeper = server[t].keeper /\ server'[t].seen = server[t].seen
          /\ server'[t].append = server[t].append
    BY <1>12, StartMoves
  <2> QED
    BY <1>3, <2>1, <2>2, <2>3
<1>13. ASSUME NEW s \in Servers, Measure(s)
       PROVE  G
  <2>1. /\ file' = file /\ log' = log /\ cuts' = cuts
        /\ server[s].keeper # "fill" /\ server[s].append # "feed"
    BY <1>13 DEF Measure, FileFree
  <2>2. Moved(s) /\ server'[s].keeper # "fill"
    BY <1>13, MeasureMoves
  <2> QED
    BY <1>4, <2>1, <2>2
\* Who is at the file as its keeper is not appending.
<1>14. ASSUME NEW s \in Servers, server[s].keeper # "idle"
       PROVE  server[s].append # "feed"
    BY <1>14 DEF StepsInv, StepsFit
<1>15. ASSUME NEW s \in Servers, Read(s)
       PROVE  G
  <2>1. /\ file' = file /\ log' = log /\ cuts' = cuts
        /\ server[s].keeper # "fill" /\ server[s].keeper # "idle"
    BY <1>15 DEF Read
  <2>2. Moved(s) /\ server'[s].keeper # "fill"
    BY <1>15, ReadMoves
  <2> QED
    BY <1>4, <1>14, <2>1, <2>2
<1>16. ASSUME NEW s \in Servers, ReadFails(s)
       PROVE  G
  <2>1. /\ file' = file /\ log' = log /\ cuts' = cuts
        /\ server[s].keeper # "fill" /\ server[s].keeper # "idle"
    BY <1>16 DEF ReadFails
  <2> QED
    BY <1>4, <1>14, <1>16, <2>1, ReadFailsMoves
<1>17. ASSUME NEW s \in Servers, Truncate(s)
       PROVE  G
  <2>1. server[s].keeper = "truncate" /\ log' = log /\ cuts' = cuts
    BY <1>17 DEF Truncate
  <2>2. Moved(s) /\ server'[s].keeper = "fill" /\ server'[s].seen = server[s].seen
    BY <1>17, TruncateMoves
  <2>3. server[s].seen = Whole(file) /\ \A t \in Servers : server[t].keeper # "fill"
    BY <1>1, <2>1 DEF RewriteInv
  <2>4. Open \in Nat /\ 0 <= Open
    BY <1>o
  <2>5. Fits(log, Safe(file), Whole(file), Open, cuts)
    BY <1>2, <2>3
  <2>6. Fits(log, Whole(file), Whole(file), Open, cuts)
    BY <1>t, <2>4, <2>5, FitsSafe
  <2>7. Fits(log, Whole(file), Whole(file), 0, cuts)
    BY <1>t, <2>4, <2>6, FitsLess
  <2>8. \A t \in Servers : server'[t].keeper = "fill" => t = s
    BY <2>2, <2>3 DEF Moved
  <2> QED
    BY <2>1, <2>2, <2>3, <2>7, <2>8
<1>18. ASSUME NEW s \in Servers, Fill(s)
       PROVE  G
  <2>1. server[s].keeper = "fill" /\ log' = log /\ cuts' = cuts
    BY <1>18 DEF Fill
  <2>2. file = <<>> /\ \A t \in Servers \ {s} : server[t].keeper # "fill"
    BY <1>1, <2>1 DEF RewriteInv
  <2>3. PICK k : k = server[s].seen
    OBVIOUS
  <2>4. k \in Seq(Records) /\ Fits(log, k, k, 0, cuts)
    BY <1>2, <1>t, <2>1, <2>3
  <2>5. Kept(k) \in Seq(Records) /\ Fits(log, Kept(k), Kept(k), 0, cuts)
    <3>1. CASE k = <<>>
      BY <2>4, <3>1 DEF Kept
    <3>2. CASE k # <<>>
      <4>1. PICK i \in 1..Len(k) : Kept(k) = From(k, i)
        BY <2>4, <3>2, KeptFacts
      <4> QED
        BY <1>t, <2>4, <4>1, FitsKept, KeptType
    <3> QED
      BY <3>1, <3>2
  <2>6. file' = Lines(Kept(k))
    BY <1>18, <2>2, <2>3, FillType
  <2>7. /\ file' \in Seq(Token) /\ Whole(file') = Kept(k)
        /\ file' = <<>> \/ file'[Len(file')] = LineFeed
    BY <2>5, <2>6, LinesFacts
  <2>8. Safe(file') = Kept(k) /\ Open' = 0
    BY <2>7, SafeAtLineStart DEF Open, Clean
  <2>9. Moved(s) /\ server'[s].keeper = "idle"
    BY <1>18, FillMoves
  <2>10. \A t \in Servers : server'[t].keeper # "fill"
    BY <2>2, <2>9 DEF Moved
  <2> QED
    BY <2>1, <2>5, <2>7, <2>8, <2>10
<1>19. ASSUME NEW s \in Servers, RewriteFails(s)
       PROVE  G
  <2>1. /\ file' = file /\ log' = log /\ cuts' = cuts
        /\ server[s].keeper # "fill" /\ server[s].keeper # "idle"
    BY <1>19 DEF RewriteFails
  <2> QED
    BY <1>4, <1>14, <1>19, <2>1, RewriteFailsMoves
<1>20. ASSUME NEW s \in Servers, Exit(s)
       PROVE  G
  <2>1. file' = file /\ log' = log /\ server[s].keeper # "fill"
    BY <1>20 DEF Exit
  <2>2. Moved(s) /\ server'[s].keeper # "fill"
    BY <1>20, ExitMoves, DownFacts
  <2>3. CASE server[s].append = "feed"
    <3>1. cuts' = cuts + 1
      BY <1>20, <2>3 DEF Exit
    <3> QED
      BY <1>5, <2>1, <2>2, <3>1
  <2>4. CASE server[s].append # "feed"
    <3>1. cuts' = cuts
      BY <1>20, <2>4 DEF Exit
    <3> QED
      BY <1>4, <2>1, <2>2, <2>4, <3>1
  <2> QED
    BY <2>3, <2>4
<1>21. CASE UNCHANGED vars
    BY <1>3, <1>21 DEF vars
<1> QED
    BY <1>7, <1>8, <1>9, <1>10, <1>11, <1>12, <1>13, <1>15, <1>16, <1>17, <1>18, <1>19, <1>20,
       <1>21 DEF Next

LEMMA CutsHold == Init => LogInv /\ CutInv
<1> SUFFICES ASSUME Init PROVE LogInv /\ CutInv
    OBVIOUS
<1>1. \A s \in Servers : server[s] = Down
    BY DEF Init
<1>2. file = <<>> /\ log = <<>> /\ cuts = 0 /\ Len(log) = 0 /\ log \in Seq(Records)
    BY DEF Init
<1>3. LineFeed \in Token /\ <<>> \in Seq(Token)
    BY DEF Token
<1>4. Whole(file) = <<>> /\ Safe(file) = <<>> /\ Open = 0
    BY <1>2, <1>3, WholeFacts, SafeAtLineStart DEF Open, Clean
<1>5. LogInv
    BY <1>1, <1>2, DownFacts DEF LogInv, Distinct
<1>6. Ordered(log, <<>>)
    BY DEF Ordered
<1>7. Lost(log, <<>>, <<>>) = {}
    BY <1>2 DEF Lost
<1>8. Cardinality(Lost(log, <<>>, <<>>)) = 0
    BY <1>7, FS_EmptySet
<1>9. Fits(log, <<>>, <<>>, 0, cuts)
    BY <1>2, <1>6, <1>8 DEF Fits
<1> QED
    BY <1>1, <1>4, <1>5, <1>9, DownFacts DEF CutInv

\* A line that was cut costs the record in it and the one that is appended to it; no
\* other is lost from the file, through any number of cuts, rewrites, ends and restarts,
\* and also while it cannot be read because a line was cut inside a character.
THEOREM CutsStayLocal == Spec => []CutsAreLocal
<1>1. ASSUME TypeOK, CutInv
      PROVE  CutsAreLocal
  <2> SUFFICES ASSUME ~ raced, ~ Rewriting
               PROVE  LET left == Whole(file)
                          lost == {i \in DOMAIN log :
                                     /\ log[i] \notin ToSet(left)
                                     /\ \A j \in (i + 1)..Len(log) :
                                          left = <<>> \/ log[j] # left[1]}
                      IN  Cardinality(lost) <= 2 * cuts
    BY DEF CutsAreLocal
  <2>1. PICK left : left = Whole(file)
    OBVIOUS
  <2>2. PICK safe : safe = Safe(file)
    OBVIOUS
  <2>3. PICK lost : lost = {i \in DOMAIN log :
                              /\ log[i] \notin ToSet(left)
                              /\ \A j \in (i + 1)..Len(log) : left = <<>> \/ log[j] # left[1]}
    OBVIOUS
  <2>4. Fits(log, safe, left, Open, cuts)
    BY <1>1, <2>1, <2>2 DEF CutInv
  <2>5. /\ log \in Seq(Records) /\ DOMAIN log = 1..Len(log) /\ Len(log) \in Nat /\ cuts \in Nat
        /\ left \in Seq(Records) /\ safe \in Seq(Records) /\ Open \in {0, 2}
    <3>1. LineFeed \in Token
      BY DEF Token
    <3> QED
      BY <1>1, <2>1, <2>2, <3>1, WholeFacts, SafeFacts DEF TypeOK, Open
  <2>6. \A i \in DOMAIN log : log[i] \notin ToSet(left) =>
          \A n \in 1..Len(left) : left[n] # log[i]
    BY <2>5 DEF ToSet
  <2>7. safe # <<>> => left # <<>> /\ 1 \in 1..Len(left) /\ left[1] = safe[1]
    <3>1. ASSUME safe # <<>>, NEW r \in Records, left = Append(safe, r)
          PROVE  left # <<>> /\ 1 \in 1..Len(left) /\ left[1] = safe[1]
      <4>1. 1 \in 1..Len(safe) /\ 1 \in 1..Len(left)
        BY <2>5, <3>1
      <4> QED
        BY <2>5, <3>1, <4>1
    <3>2. safe # <<>> => 1 \in 1..Len(safe)
      BY <2>5
    <3> QED
      BY <2>4, <3>1, <3>2 DEF Fits
  <2>8. ASSUME NEW i \in lost
        PROVE  i \in Lost(log, safe, left)
    <3>1. /\ i \in 1..Len(log) /\ \A n \in 1..Len(left) : left[n] # log[i]
          /\ \A j \in (i + 1)..Len(log) : left = <<>> \/ log[j] # left[1]
      BY <2>3, <2>5, <2>6
    <3>2. ASSUME safe # <<>>
          PROVE  \E j \in 1..Len(log) : j < i /\ log[j] = safe[1]
      <4>1. PICK j \in 1..Len(log) : log[j] = left[1]
        BY <2>4, <2>7, <3>2 DEF Fits, Ordered
      <4>2. j # i
        BY <2>7, <3>1, <3>2, <4>1
      <4>3. ~ (j \in (i + 1)..Len(log))
        BY <2>7, <3>1, <3>2, <4>1
      <4>4. j < i
        BY <2>5, <3>1, <4>1, <4>2, <4>3
      <4> QED
        BY <2>7, <3>2, <4>1, <4>4
    <3> QED
      BY <3>1, <3>2 DEF Lost
  <2>9. PICK n \in Nat : n = Cardinality(Lost(log, safe, left))
    BY <2>5, LostIsFinite
  <2>10. IsFiniteSet(lost) /\ Cardinality(lost) \in Nat /\ Cardinality(lost) <= n
    <3>1. lost \in SUBSET Lost(log, safe, left)
      BY <2>8
    <3> QED
      BY <2>5, <2>9, <3>1, LostIsFinite, FS_Subset, FS_CardinalityType
  <2>11. n + Open <= 2 * cuts
    BY <2>4, <2>9 DEF Fits
  <2>12. Cardinality(lost) <= 2 * cuts
    BY <2>5, <2>10, <2>11
  <2> QED
    BY <2>1, <2>3, <2>12
<1>2. IInv /\ LogInv /\ CutInv /\ [Next]_vars => LogInv' /\ CutInv'
    BY LogStep, CutStep DEF IInv
<1>3. IInv => TypeOK
    BY DEF IInv
<1> QED
    BY <1>1, <1>2, <1>3, CutsHold, Invariant, PTL DEF Spec

================================================================================
