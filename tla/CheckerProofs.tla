--------------------------- MODULE CheckerProofs ---------------------------
(* The checking thread of Checker.tla implements CheckService.tla, for any     *)
(* buffers, jobs and reports: proofs. What is in flight for a buffer is a      *)
(* recursive function of the queues; the lemmas about it go by induction on    *)
(* their length (Counting).                                                    *)
EXTENDS Checker, SequenceTheorems, WellFoundedInduction, TLAPS

\* Induction: a set of numbers with 0 and the successor of each of its members.
LEMMA Counting ==
    ASSUME NEW T \in SUBSET Nat, 0 \in T, \A n \in T : n + 1 \in T
    PROVE  T = Nat
<1>. DEFINE Less == {p \in Nat \X Nat : p[1] < p[2]}
<1>1. IsWellFoundedOn(Less, Nat)
  BY NatLessThanWellFounded DEF OpToRel
<1>2. \A m, n \in Nat : n < m => <<n, m>> \in Less
  OBVIOUS
<1>. HIDE DEF Less
<1>3. SUFFICES ASSUME Nat \ T # {} PROVE FALSE
  OBVIOUS
<1>4. PICK n \in Nat \ T : \A m \in Nat \ T : ~(<<m, n>> \in Less)
  BY <1>1, <1>3, WFMin
<1>5. n # 0 /\ n - 1 \in Nat /\ n - 1 < n /\ (n - 1) + 1 = n
  BY <1>4
<1>6. n - 1 \in T
  BY <1>2, <1>4, <1>5
<1>7. (n - 1) + 1 \in T
  BY <1>6
<1>. QED
  BY <1>4, <1>5, <1>7

\* What has been gathered of a queue, element by element.
Gathers(f, u, queue) ==
    f = [n \in 0 .. Len(queue) |->
            IF n = 0 THEN <<>>
            ELSE IF queue[n].uri = u THEN Append(f[n - 1], queue[n])
            ELSE f[n - 1]]

LEMMA OfGathers ==
    ASSUME NEW S, NEW queue \in Seq(S), NEW u
    PROVE  \E f : Gathers(f, u, queue) /\ Of(u, queue) = f[Len(queue)]
<1>. DEFINE Step(f, n) == IF n = 0 THEN <<>>
                          ELSE IF queue[n].uri = u THEN Append(f[n - 1], queue[n])
                          ELSE f[n - 1]
            Upto(f, n) == f = [m \in 0 .. n |-> Step(f, m)]
            T == {n \in Nat : \E f : Upto(f, n)}
<1>1. 0 \in T
  <2>. DEFINE f == [m \in 0 .. 0 |-> <<>>]
  <2>1. Upto(f, 0)
    OBVIOUS
  <2>. QED
    BY <2>1
<1>2. ASSUME NEW n \in T PROVE n + 1 \in T
  <2>1. PICK f : Upto(f, n)
    OBVIOUS
  <2>. DEFINE g == [m \in 0 .. n + 1 |-> IF m = n + 1 THEN Step(f, m) ELSE f[m]]
  <2>2. ASSUME NEW m \in 0 .. n + 1 PROVE Step(g, m) = g[m]
    <3>1. CASE m = 0
      BY <2>1, <3>1
    <3>2. CASE m # 0
      <4>1. m - 1 \in 0 .. n /\ m - 1 \in 0 .. n + 1 /\ m - 1 # n + 1
        BY <3>2
      <4>2. g[m - 1] = f[m - 1]
        BY <4>1
      <4>3. Step(g, m) = Step(f, m)
        BY <4>2
      <4>4. CASE m = n + 1
        BY <4>3, <4>4
      <4>5. CASE m # n + 1
        <5>1. m \in 0 .. n
          BY <4>5
        <5>2. f[m] = Step(f, m)
          BY <2>1, <5>1
        <5>. QED
          BY <4>3, <4>5, <5>2
      <4>. QED
        BY <4>4, <4>5
    <3>. QED
      BY <3>1, <3>2
  <2>. HIDE DEF Step
  <2>3. Upto(g, n + 1)
    BY <2>2
  <2>4. n + 1 \in Nat
    OBVIOUS
  <2>. QED
    BY <2>3, <2>4
<1>3. Len(queue) \in T
  <2>. HIDE DEF T
  <2>1. T = Nat
    <3>1. T \in SUBSET Nat
      BY DEF T
    <3>. QED
      BY <1>1, <1>2, <3>1, Counting
  <2>. QED
    BY <2>1
<1>4. PICK f : Gathers(f, u, queue)
  BY <1>3 DEF Gathers
<1>. DEFINE g == CHOOSE g : Gathers(g, u, queue)
<1>5. Gathers(g, u, queue)
  BY <1>4
<1>6. Of(u, queue) = g[Len(queue)]
  BY Zenon DEF Of, Gathers
<1>. QED
  BY <1>5, <1>6

\* The same, step by step, with its type.
Selects(f, S, u, queue) ==
    /\ Of(u, queue) = f[Len(queue)]
    /\ f[0] = <<>>
    /\ \A n \in 1 .. Len(queue) :
          f[n] = IF queue[n].uri = u THEN Append(f[n - 1], queue[n]) ELSE f[n - 1]
    /\ \A n \in 0 .. Len(queue) : f[n] \in Seq(S)

LEMMA OfSelects ==
    ASSUME NEW S, NEW queue \in Seq(S), NEW u
    PROVE  \E f : Selects(f, S, u, queue)
<1>1. PICK f : Gathers(f, u, queue) /\ Of(u, queue) = f[Len(queue)]
  BY OfGathers
<1>0. Len(queue) \in Nat /\ \A n \in 1 .. Len(queue) : queue[n] \in S
  OBVIOUS
<1>2. f[0] = <<>>
  BY <1>0, <1>1 DEF Gathers
<1>3. ASSUME NEW n \in 1 .. Len(queue)
      PROVE  f[n] = IF queue[n].uri = u THEN Append(f[n - 1], queue[n]) ELSE f[n - 1]
  <2>1. n \in 0 .. Len(queue) /\ n # 0
    BY <1>0
  <2>. QED
    BY <1>1, <2>1, Zenon DEF Gathers
<1>. DEFINE T == {n \in Nat : n <= Len(queue) => f[n] \in Seq(S)}
<1>4. T = Nat
  <2>1. 0 \in T
    <3>1. <<>> \in Seq(S)
      OBVIOUS
    <3>. QED
      BY <1>2, <3>1
  <2>2. ASSUME NEW n \in T PROVE n + 1 \in T
    <3>0. n \in Nat /\ n + 1 \in Nat /\ (n + 1) - 1 = n
      OBVIOUS
    <3>1. ASSUME n + 1 <= Len(queue) PROVE f[n + 1] \in Seq(S)
      <4>1. n + 1 \in 1 .. Len(queue) /\ n <= Len(queue)
        BY <1>0, <3>0, <3>1
      <4>2. f[n] \in Seq(S) /\ queue[n + 1] \in S
        BY <1>0, <4>1
      <4>3. f[n + 1] = IF queue[n + 1].uri = u THEN Append(f[n], queue[n + 1]) ELSE f[n]
        BY <1>3, <3>0, <4>1
      <4>4. Append(f[n], queue[n + 1]) \in Seq(S)
        BY <4>2
      <4>. QED
        BY <4>2, <4>3, <4>4, Zenon
    <3>. QED
      BY <3>0, <3>1
  <2>3. T \in SUBSET Nat
    OBVIOUS
  <2>. HIDE DEF T
  <2>. QED
    BY <2>1, <2>2, <2>3, Counting
<1>5. \A n \in 0 .. Len(queue) : f[n] \in Seq(S)
  BY <1>0, <1>4
<1>. QED
  BY <1>1, <1>2, <1>3, <1>5 DEF Selects

LEMMA OfEmpty == ASSUME NEW u PROVE Of(u, <<>>) = <<>>
<1>1. <<>> \in Seq({}) /\ Len(<<>>) = 0
  OBVIOUS
<1>2. PICK f : Selects(f, {}, u, <<>>)
  BY <1>1, OfSelects, Zenon
<1>. QED
  BY <1>1, <1>2, Zenon DEF Selects

LEMMA OfType ==
    ASSUME NEW S, NEW queue \in Seq(S), NEW u
    PROVE  Of(u, queue) \in Seq(S)
<1>1. Len(queue) \in 0 .. Len(queue)
  OBVIOUS
<1>. QED
  BY <1>1, OfSelects DEF Selects

\* What is appended to two sequences is appended to the second.
AppendsLast(S) == \A a, b \in Seq(S), x \in S : Append(a \o b, x) = a \o Append(b, x)

LEMMA AppendedLast == ASSUME NEW S PROVE AppendsLast(S)
<1>. SUFFICES ASSUME NEW a \in Seq(S), NEW b \in Seq(S), NEW x \in S
              PROVE  Append(a \o b, x) = a \o Append(b, x)
  BY DEF AppendsLast
<1>. QED
  OBVIOUS

\* The jobs of a buffer in two queues, one after the other.
LEMMA OfConcat ==
    ASSUME NEW S, NEW p \in Seq(S), NEW q \in Seq(S), NEW u
    PROVE  Of(u, p \o q) = Of(u, p) \o Of(u, q)
<1>. DEFINE r == p \o q
<1>0. /\ r \in Seq(S) /\ Len(r) = Len(p) + Len(q) /\ Len(p) \in Nat /\ Len(q) \in Nat
      /\ \A n \in 1 .. Len(p) : r[n] = p[n]
      /\ \A n \in 1 .. Len(q) : r[Len(p) + n] = q[n] /\ q[n] \in S
  BY ConcatProperties
<1>1. PICK f : Selects(f, S, u, p)
  BY OfSelects
<1>2. PICK g : Selects(g, S, u, q)
  BY OfSelects
<1>. HIDE DEF r
<1>3. PICK h : Selects(h, S, u, r)
  BY <1>0, OfSelects
<1>4. h[Len(p)] = f[Len(p)]
  <2>. DEFINE T == {n \in Nat : n <= Len(p) => h[n] = f[n]}
  <2>1. 0 \in T
    BY <1>1, <1>3 DEF Selects
  <2>2. ASSUME NEW n \in T PROVE n + 1 \in T
    <3>0. n \in Nat /\ n + 1 \in Nat /\ (n + 1) - 1 = n
      OBVIOUS
    <3>1. ASSUME n + 1 <= Len(p) PROVE h[n + 1] = f[n + 1]
      <4>1. n + 1 \in 1 .. Len(p) /\ n + 1 \in 1 .. Len(r) /\ n <= Len(p)
        BY <1>0, <3>0, <3>1
      <4>2. h[n] = f[n] /\ r[n + 1] = p[n + 1]
        BY <1>0, <4>1
      <4>3. f[n + 1] = IF p[n + 1].uri = u THEN Append(f[n], p[n + 1]) ELSE f[n]
        BY <1>1, <3>0, <4>1 DEF Selects
      <4>4. h[n + 1] = IF r[n + 1].uri = u THEN Append(h[n], r[n + 1]) ELSE h[n]
        BY <1>3, <3>0, <4>1 DEF Selects
      <4>. QED
        BY <4>2, <4>3, <4>4, Zenon
    <3>. QED
      BY <3>0, <3>1
  <2>3. T \in SUBSET Nat
    OBVIOUS
  <2>4. T = Nat
    <3>. HIDE DEF T
    <3>. QED
      BY <2>1, <2>2, <2>3, Counting
  <2>. QED
    BY <1>0, <2>4
<1>. DEFINE front == f[Len(p)]
<1>5. front \in Seq(S)
  BY <1>0, <1>1 DEF Selects
<1>. HIDE DEF front
<1>6. AppendsLast(S)
  BY AppendedLast, Zenon
<1>7. h[Len(p) + Len(q)] = front \o g[Len(q)]
  <2>. DEFINE T == {n \in Nat : n <= Len(q) => h[Len(p) + n] = front \o g[n]}
  <2>1. 0 \in T
    <3>1. front \o <<>> = front /\ Len(p) + 0 = Len(p)
      BY <1>0, <1>5, ConcatEmptySeq
    <3>2. h[Len(p) + 0] = front \o g[0]
      BY <1>2, <1>4, <3>1 DEF front, Selects
    <3>. QED
      BY <3>2
  <2>2. ASSUME NEW n \in T PROVE n + 1 \in T
    <3>0. n \in Nat /\ n + 1 \in Nat /\ (n + 1) - 1 = n
      OBVIOUS
    <3>1. ASSUME n + 1 <= Len(q) PROVE h[Len(p) + (n + 1)] = front \o g[n + 1]
      <4>. DEFINE k == Len(p) + (n + 1)
      <4>1. /\ n + 1 \in 1 .. Len(q) /\ k \in 1 .. Len(r)
            /\ n <= Len(q) /\ k - 1 = Len(p) + n /\ n \in 0 .. Len(q)
        BY <1>0, <3>0, <3>1
      <4>2. h[Len(p) + n] = front \o g[n] /\ r[k] = q[n + 1] /\ q[n + 1] \in S
        BY <1>0, <4>1
      <4>3. g[n] \in Seq(S)
        BY <1>2, <4>1 DEF Selects
      <4>. HIDE DEF k
      <4>4. h[k] = IF r[k].uri = u THEN Append(h[k - 1], r[k]) ELSE h[k - 1]
        BY <1>3, <4>1 DEF Selects
      <4>5. g[n + 1] = IF q[n + 1].uri = u THEN Append(g[n], q[n + 1]) ELSE g[n]
        BY <1>2, <3>0, <4>1 DEF Selects
      <4>7. Append(front \o g[n], q[n + 1]) = front \o Append(g[n], q[n + 1])
        BY <1>5, <4>2, <4>3, <1>6, Zenon DEF AppendsLast
      <4>6. r[k] = q[n + 1] /\ h[k - 1] = front \o g[n]
        BY <4>1, <4>2, Zenon DEF k
      <4>8. h[k] = front \o g[n + 1]
        <5>1. CASE q[n + 1].uri = u
          BY <4>4, <4>5, <4>6, <4>7, <5>1, Zenon
        <5>2. CASE q[n + 1].uri # u
          BY <4>4, <4>5, <4>6, <5>2, Zenon
        <5>. QED
          BY <5>1, <5>2
      <4>. QED
        BY <4>8 DEF k
    <3>. QED
      BY <3>0, <3>1
  <2>3. T \in SUBSET Nat
    OBVIOUS
  <2>4. T = Nat
    <3>. HIDE DEF T
    <3>. QED
      BY <2>1, <2>2, <2>3, Counting
  <2>5. Len(q) \in T
    <3>. HIDE DEF T
    <3>. QED
      BY <1>0, <2>4
  <2>6. Len(q) <= Len(q)
    BY <1>0
  <2>. QED
    BY <2>5, <2>6
<1>8. Of(u, r) = h[Len(p) + Len(q)] /\ Of(u, p) = front /\ Of(u, q) = g[Len(q)]
  BY <1>0, <1>1, <1>2, <1>3, Zenon DEF Selects, front
<1>. QED
  BY <1>7, <1>8, Zenon DEF r

LEMMA OfSingle ==
    ASSUME NEW S, NEW job \in S, NEW u
    PROVE  Of(u, <<job>>) = IF job.uri = u THEN <<job>> ELSE <<>>
<1>. DEFINE q == <<job>>
<1>1. q \in Seq(S) /\ Len(q) = 1 /\ q[1] = job /\ 1 - 1 = 0
      /\ 1 \in 1 .. Len(q) /\ Append(<<>>, job) = q
  OBVIOUS
<1>. HIDE DEF q
<1>2. PICK f : Selects(f, S, u, q)
  BY <1>1, OfSelects
<1>3. f[1] = IF q[1].uri = u THEN Append(f[1 - 1], q[1]) ELSE f[1 - 1]
  BY <1>1, <1>2, Zenon DEF Selects
<1>4. f[1] = IF job.uri = u THEN q ELSE <<>>
  BY <1>1, <1>2, <1>3, Zenon DEF Selects
<1>5. Of(u, q) = f[1]
  BY <1>1, <1>2, Zenon DEF Selects
<1>. QED
  BY <1>4, <1>5, Zenon DEF q

\* None of a buffer in a queue without jobs of it.
LEMMA OfNone ==
    ASSUME NEW S, NEW q \in Seq(S), NEW u, \A i \in 1 .. Len(q) : q[i].uri # u
    PROVE  Of(u, q) = <<>>
<1>1. PICK f : Selects(f, S, u, q)
  BY OfSelects
<1>. DEFINE T == {n \in Nat : n <= Len(q) => f[n] = <<>>}
<1>0. Len(q) \in Nat
  OBVIOUS
<1>2. 0 \in T
  BY <1>1 DEF Selects
<1>3. ASSUME NEW n \in T PROVE n + 1 \in T
  <2>0. n \in Nat /\ n + 1 \in Nat /\ (n + 1) - 1 = n
    OBVIOUS
  <2>1. ASSUME n + 1 <= Len(q) PROVE f[n + 1] = <<>>
    <3>1. n + 1 \in 1 .. Len(q) /\ n <= Len(q)
      BY <1>0, <2>0, <2>1
    <3>2. f[n] = <<>>
      BY <3>1
    <3>. QED
      BY <1>1, <2>0, <3>1, <3>2 DEF Selects
  <2>. QED
    BY <2>0, <2>1
<1>4. T \in SUBSET Nat
  OBVIOUS
<1>5. T = Nat
  <2>. HIDE DEF T
  <2>. QED
    BY <1>2, <1>3, <1>4, Counting
<1>. QED
  BY <1>0, <1>1, <1>5 DEF Selects

\* No two jobs of one buffer.
OneEach(queue) ==
    \A i, j \in 1 .. Len(queue) : queue[i].uri = queue[j].uri => i = j

\* Then the jobs of a buffer are the one there is.
LEMMA OfOne ==
    ASSUME NEW S, NEW q \in Seq(S), OneEach(q), NEW i \in 1 .. Len(q)
    PROVE  Of(q[i].uri, q) = <<q[i]>>
<1>. DEFINE u == q[i].uri
            got(n) == IF n < i THEN <<>> ELSE <<q[i]>>
<1>0. Len(q) \in Nat /\ i \in Nat /\ i >= 1 /\ i <= Len(q)
  OBVIOUS
<1>1. PICK f : Selects(f, S, u, q)
  BY OfSelects
<1>2. \A n \in 1 .. Len(q) : q[n].uri = u <=> n = i
  BY DEF OneEach
<1>. HIDE DEF u
<1>. DEFINE T == {n \in Nat : n <= Len(q) => f[n] = got(n)}
<1>3. 0 \in T
  BY <1>0, <1>1 DEF Selects
<1>4. ASSUME NEW n \in T PROVE n + 1 \in T
  <2>0. n \in Nat /\ n + 1 \in Nat /\ (n + 1) - 1 = n
    OBVIOUS
  <2>1. ASSUME n + 1 <= Len(q) PROVE f[n + 1] = got(n + 1)
    <3>1. n + 1 \in 1 .. Len(q) /\ n <= Len(q)
      BY <1>0, <2>0, <2>1
    <3>2. f[n] = got(n)
      BY <3>1
    <3>3. f[n + 1] = IF n + 1 = i THEN Append(f[n], q[n + 1]) ELSE f[n]
      BY <1>1, <1>2, <2>0, <3>1 DEF Selects
    <3>4. CASE n + 1 = i
      <4>1. f[n] = <<>> /\ Append(<<>>, q[i]) = <<q[i]>> /\ got(n + 1) = <<q[i]>>
        BY <1>0, <2>0, <3>2, <3>4
      <4>. QED
        BY <3>3, <3>4, <4>1
    <3>5. CASE n + 1 # i
      <4>1. n < i <=> n + 1 < i
        BY <1>0, <2>0, <3>5
      <4>. QED
        BY <3>2, <3>3, <3>5, <4>1
    <3>. QED
      BY <3>4, <3>5
  <2>. QED
    BY <2>0, <2>1
<1>5. T \in SUBSET Nat
  OBVIOUS
<1>6. T = Nat
  <2>. HIDE DEF T
  <2>. QED
    BY <1>3, <1>4, <1>5, Counting
<1>7. Of(u, q) = f[Len(q)]
  BY <1>1 DEF Selects
<1>. QED
  BY <1>0, <1>6, <1>7 DEF u

\* Two such queues with the same job of a buffer, or neither with one.
LEMMA OfSame ==
    ASSUME NEW S, NEW p \in Seq(S), NEW q \in Seq(S), OneEach(p), OneEach(q), NEW u,
           \A i \in 1 .. Len(p) : p[i].uri = u => \E j \in 1 .. Len(q) : q[j] = p[i],
           \A j \in 1 .. Len(q) : q[j].uri = u => \E i \in 1 .. Len(p) : p[i] = q[j]
    PROVE  Of(u, p) = Of(u, q)
<1>1. CASE \E i \in 1 .. Len(p) : p[i].uri = u
  <2>1. PICK i \in 1 .. Len(p) : p[i].uri = u
    BY <1>1
  <2>2. PICK j \in 1 .. Len(q) : q[j] = p[i]
    BY <2>1
  <2>3. Of(p[i].uri, p) = <<p[i]>> /\ Of(q[j].uri, q) = <<q[j]>>
    BY OfOne
  <2>. QED
    BY <2>1, <2>2, <2>3, Zenon
<1>2. CASE ~ \E i \in 1 .. Len(p) : p[i].uri = u
  <2>1. \A j \in 1 .. Len(q) : q[j].uri # u
    BY <1>2
  <2>2. \A i \in 1 .. Len(p) : p[i].uri # u
    BY <1>2
  <2>3. Of(u, p) = <<>> /\ Of(u, q) = <<>>
    BY <2>1, <2>2, OfNone
  <2>. QED
    BY <2>3
<1>. QED
  BY <1>1, <1>2

LEMMA OfFew ==
    ASSUME NEW S, NEW q \in Seq(S), OneEach(q), NEW u
    PROVE  Of(u, q) = <<>> \/ \E x \in S : Of(u, q) = <<x>>
<1>1. CASE \E i \in 1 .. Len(q) : q[i].uri = u
  <2>1. PICK i \in 1 .. Len(q) : q[i].uri = u
    BY <1>1
  <2>2. Of(q[i].uri, q) = <<q[i]>> /\ q[i] \in S
    BY OfOne
  <2>. QED
    BY <2>1, <2>2, Zenon
<1>2. CASE \A i \in 1 .. Len(q) : q[i].uri # u
  BY <1>2, OfNone
<1>. QED
  BY <1>1, <1>2

\* A batch reversed: the same jobs.
LEMMA Reversed ==
    ASSUME NEW S, NEW q \in Seq(S)
    PROVE  /\ Reverse(q) \in Seq(S) /\ Len(Reverse(q)) = Len(q)
           /\ \A i \in 1 .. Len(q) : /\ Len(q) - i + 1 \in 1 .. Len(q)
                                     /\ Reverse(q)[i] = q[Len(q) - i + 1]
                                     /\ q[i] = Reverse(q)[Len(q) - i + 1]
           /\ OneEach(q) => OneEach(Reverse(q))
<1>. DEFINE r == Reverse(q)
<1>0. Len(q) \in Nat
  OBVIOUS
<1>1. ASSUME NEW i \in 1 .. Len(q)
      PROVE  Len(q) - i + 1 \in 1 .. Len(q) /\ r[i] = q[Len(q) - i + 1] /\ r[i] \in S
  BY <1>0 DEF Reverse
<1>2. r \in Seq(S) /\ Len(r) = Len(q)
  <2>1. r \in [1 .. Len(q) -> S]
    BY <1>1 DEF Reverse
  <2>. HIDE DEF r
  <2>. QED
    BY <1>0, <2>1, SeqDef
<1>. HIDE DEF r
<1>3. ASSUME NEW i \in 1 .. Len(q) PROVE q[i] = r[Len(q) - i + 1]
  <2>1. Len(q) - (Len(q) - i + 1) + 1 = i
    BY <1>0
  <2>. QED
    BY <1>1, <2>1
<1>4. OneEach(q) => OneEach(r)
  <2>. SUFFICES ASSUME OneEach(q), NEW i \in 1 .. Len(r), NEW j \in 1 .. Len(r), r[i].uri = r[j].uri
                PROVE  i = j
    BY DEF OneEach
  <2>0. i \in 1 .. Len(q) /\ j \in 1 .. Len(q)
    BY <1>2
  <2>1. Len(q) - i + 1 = Len(q) - j + 1
    <3>1. /\ Len(q) - i + 1 \in 1 .. Len(q) /\ r[i] = q[Len(q) - i + 1]
          /\ Len(q) - j + 1 \in 1 .. Len(q) /\ r[j] = q[Len(q) - j + 1]
      BY <1>1, <2>0
    <3>. QED
      BY <3>1 DEF OneEach
  <2>. QED
    BY <1>0, <2>0, <2>1
<1>. QED
  BY <1>1, <1>2, <1>3, <1>4 DEF r

LEMMA ReversedAppend ==
    ASSUME NEW S, NEW q \in Seq(S), NEW x \in S
    PROVE  Reverse(Append(q, x)) = <<x>> \o Reverse(q)
<1>. DEFINE r == Reverse(q)
            p == Append(q, x)
            s == Reverse(p)
            t == <<x>> \o r
<1>0. Len(q) \in Nat /\ p \in Seq(S) /\ Len(p) = Len(q) + 1 /\ p[Len(q) + 1] = x
      /\ \A i \in 1 .. Len(q) : p[i] = q[i]
  OBVIOUS
<1>. HIDE DEF r, p
<1>1. r \in Seq(S) /\ Len(r) = Len(q) /\ \A i \in 1 .. Len(q) : r[i] = q[Len(q) - i + 1]
  BY Reversed DEF r
<1>2. s \in Seq(S) /\ Len(s) = Len(p) /\ \A i \in 1 .. Len(p) : s[i] = p[Len(p) - i + 1]
  BY <1>0, Reversed
<1>3. /\ t \in Seq(S) /\ Len(t) = 1 + Len(r)
      /\ \A i \in 1 .. 1 + Len(r) : t[i] = IF i <= 1 THEN x ELSE r[i - 1]
  <2>1. <<x>> \in Seq(S) /\ Len(<<x>>) = 1 /\ <<x>>[1] = x
    OBVIOUS
  <2>2. /\ t \in Seq(S) /\ Len(t) = 1 + Len(r)
        /\ \A i \in 1 .. 1 + Len(r) : t[i] = IF i <= 1 THEN <<x>>[i] ELSE r[i - 1]
    BY <1>1, <2>1, ConcatProperties
  <2>. HIDE DEF t
  <2>. QED
    BY <2>1, <2>2
<1>. HIDE DEF s, t
<1>4. Len(s) = Len(t)
  BY <1>0, <1>1, <1>2, <1>3
<1>5. ASSUME NEW i \in 1 .. Len(s) PROVE s[i] = t[i]
  <2>1. CASE i = 1
    <3>1. i \in 1 .. Len(p) /\ i \in 1 .. 1 + Len(r) /\ i <= 1 /\ Len(p) - i + 1 = Len(q) + 1
      BY <1>0, <1>1, <1>2, <2>1
    <3>2. s[i] = x
      BY <1>0, <1>2, <3>1
    <3>3. t[i] = x
      BY <1>3, <3>1
    <3>. QED
      BY <3>2, <3>3
  <2>2. CASE i # 1
    <3>1. /\ i - 1 \in 1 .. Len(q) /\ Len(q) - (i - 1) + 1 = Len(p) - i + 1
          /\ Len(p) - i + 1 \in 1 .. Len(q) /\ i \in 1 .. Len(p) /\ i \in 1 .. 1 + Len(r) /\ ~(i <= 1)
      BY <1>0, <1>1, <1>2, <2>2
    <3>2. s[i] = q[Len(p) - i + 1]
      BY <1>0, <1>2, <3>1
    <3>3. t[i] = q[Len(q) - (i - 1) + 1]
      BY <1>1, <1>3, <3>1
    <3>. QED
      BY <3>1, <3>2, <3>3
  <2>. QED
    BY <2>1, <2>2
<1>6. s = t
  BY <1>2, <1>3, <1>4, <1>5, SeqEqual
<1>. QED
  BY <1>6 DEF s, t, p, r

\* What is left of a batch without the job of one buffer: each of the others, once.
Dropped(s, name) ==
    LET Same(queued) == queued.uri = name
    IN RemoveFirstMatch(s, Same)

LEMMA WithoutLeaves ==
    ASSUME NEW S, NEW s \in Seq(S), OneEach(s), NEW name
    PROVE  LET r == Dropped(s, name)
           IN /\ r \in Seq(S) /\ OneEach(r)
              /\ \A i \in 1 .. Len(r) :
                    r[i].uri # name /\ \E j \in 1 .. Len(s) : r[i] = s[j]
              /\ \A j \in 1 .. Len(s) :
                    s[j].uri # name => \E i \in 1 .. Len(r) : r[i] = s[j]
<1>. DEFINE Same(queued) == queued.uri = name
            I == {i \in 1 .. Len(s) : s[i].uri = name}
            k == SelectInSeq(s, Same)
            r == Dropped(s, name)
<1>1. CASE I = {}
  <2>1. r = s
    BY <1>1 DEF Dropped, RemoveFirstMatch
  <2>2. \A i \in 1 .. Len(s) : s[i].uri # name
    BY <1>1
  <2>. HIDE DEF r
  <2>. QED
    BY <2>1, <2>2 DEF r
<1>2. CASE I # {}
  <2>1. PICK i \in 1 .. Len(s) : s[i].uri = name
    BY <1>2
  <2>2. I = {i}
    BY <2>1 DEF OneEach
  <2>3. k = i
    <3>1. k = Min(I)
      BY <1>2 DEF SelectInSeq
    <3>2. i <= i
      OBVIOUS
    <3>. HIDE DEF I, k
    <3>. QED
      BY <2>2, <3>1, <3>2 DEF Min
  <2>4. r = SubSeq(s, 1, i - 1) \o SubSeq(s, i + 1, Len(s))
    <3>1. r = RemoveAt(s, k)
      BY <1>2 DEF Dropped, RemoveFirstMatch
    <3>. HIDE DEF k, r
    <3>. QED
      BY <2>3, <3>1 DEF RemoveAt
  <2>. HIDE DEF r, I, k
  <2>5. /\ r \in Seq(S) /\ Len(r) = Len(s) - 1 /\ Len(s) \in Nat
        /\ \A j \in 1 .. Len(r) : r[j] = s[IF j < i THEN j ELSE j + 1]
    <3>. DEFINE a == SubSeq(s, 1, i - 1)
                b == SubSeq(s, i + 1, Len(s))
    <3>1. a \in Seq(S) /\ Len(a) = i - 1 /\ \A j \in 1 .. i - 1 : a[j] = s[j]
      OBVIOUS
    <3>2. b \in Seq(S) /\ Len(b) = Len(s) - i /\ \A j \in 1 .. Len(s) - i : b[j] = s[j + i]
      OBVIOUS
    <3>. HIDE DEF a, b
    <3>3. r \in Seq(S) /\ Len(r) = Len(a) + Len(b)
          /\ \A j \in 1 .. Len(a) + Len(b) : r[j] = IF j <= Len(a) THEN a[j] ELSE b[j - Len(a)]
      BY <2>4, <3>1, <3>2, ConcatProperties DEF a, b
    <3>4. ASSUME NEW j \in 1 .. Len(r) PROVE r[j] = s[IF j < i THEN j ELSE j + 1]
      <4>1. CASE j < i
        BY <3>1, <3>2, <3>3, <4>1
      <4>2. CASE ~(j < i)
        <5>1. /\ j - Len(a) \in 1 .. Len(s) - i /\ (j - Len(a)) + i = j + 1
              /\ ~(j <= Len(a)) /\ j \in 1 .. Len(a) + Len(b)
          BY <3>1, <3>2, <3>3, <4>2
        <5>2. b[j - Len(a)] = s[(j - Len(a)) + i]
          BY <3>2, <5>1
        <5>. QED
          BY <3>3, <4>2, <5>1, <5>2
      <4>. QED
        BY <4>1, <4>2
    <3>. QED
      BY <3>1, <3>2, <3>3, <3>4
  <2>6. ASSUME NEW j \in 1 .. Len(r)
        PROVE  /\ r[j].uri # name
               /\ \E l \in 1 .. Len(s) : r[j] = s[l] /\ l = IF j < i THEN j ELSE j + 1
    <3>1. (IF j < i THEN j ELSE j + 1) \in 1 .. Len(s) /\ (IF j < i THEN j ELSE j + 1) # i
      BY <2>5
    <3>. QED
      BY <2>1, <2>5, <3>1 DEF OneEach
  <2>7. OneEach(r)
    <3>. SUFFICES ASSUME NEW j \in 1 .. Len(r), NEW m \in 1 .. Len(r), r[j].uri = r[m].uri PROVE j = m
      BY DEF OneEach
    <3>1. (IF j < i THEN j ELSE j + 1) = (IF m < i THEN m ELSE m + 1)
      BY <2>6 DEF OneEach
    <3>. QED
      BY <2>5, <3>1
  <2>8. ASSUME NEW j \in 1 .. Len(s), s[j].uri # name PROVE \E m \in 1 .. Len(r) : r[m] = s[j]
    <3>1. j # i
      BY <2>1, <2>8
    <3>2. CASE j < i
      <4>1. j \in 1 .. Len(r)
        BY <2>5, <3>2
      <4>. QED
        BY <2>5, <3>2, <4>1
    <3>3. CASE j > i
      <4>1. j - 1 \in 1 .. Len(r) /\ ~(j - 1 < i) /\ (j - 1) + 1 = j
        BY <2>5, <3>3
      <4>. QED
        BY <2>5, <4>1
    <3>. QED
      BY <3>1, <3>2, <3>3
  <2>. QED
    BY <2>5, <2>6, <2>7, <2>8 DEF r
<1>. QED
  BY <1>1, <1>2

-----------------------------------------------------------------------------
(* The thread: types, and one job of a buffer at most while it gathers.     *)

CheckerInv ==
    /\ CheckerTypeOK
    /\ latest \in [Uri -> 0 .. MaxVersion]
    /\ phase = "gathering" => OneEach(pending)

LEMMA InitChecker == ASSUME CheckerAssumption, Init PROVE CheckerInv
BY DEF Init, CheckerInit, CheckerInv, CheckerTypeOK, CheckerAssumption

\* The first of a queue, and the rest.
LEMMA HeadAndTail ==
    ASSUME NEW S, NEW q \in Seq(S), q # <<>>
    PROVE  Head(q) \in S /\ Tail(q) \in Seq(S) /\ q = <<Head(q)>> \o Tail(q)
<1>. DEFINE h == Head(q)
            t == Tail(q)
<1>1. h \in S /\ t \in Seq(S) /\ Len(t) = Len(q) - 1 /\ Len(q) \in Nat \ {0}
      /\ h = q[1] /\ \A i \in 1 .. Len(t) : t[i] = q[i + 1]
  BY HeadTailProperties
<1>. HIDE DEF h, t
<1>2. <<h>> \in Seq(S) /\ Len(<<h>>) = 1 /\ <<h>>[1] = h
  BY <1>1
<1>. DEFINE s == <<h>>
<1>. HIDE DEF s
<1>3. /\ s \o t \in Seq(S) /\ Len(s \o t) = Len(s) + Len(t)
      /\ \A i \in 1 .. Len(s) + Len(t) : (s \o t)[i] = IF i <= Len(s) THEN s[i] ELSE t[i - Len(s)]
  BY <1>1, <1>2, ConcatProperties DEF s
<1>. DEFINE p == s \o t
<1>. HIDE DEF p
<1>4. Len(p) = Len(q)
  BY <1>1, <1>2, <1>3 DEF p, s
<1>5. ASSUME NEW i \in 1 .. Len(q) PROVE p[i] = q[i]
  <2>1. i \in 1 .. Len(s) + Len(t) /\ Len(s) = 1 /\ s[1] = h
    BY <1>1, <1>2 DEF s
  <2>2. CASE i = 1
    BY <1>1, <1>3, <2>1, <2>2 DEF p
  <2>3. CASE i # 1
    <3>1. i - 1 \in 1 .. Len(t) /\ (i - 1) + 1 = i /\ ~(i <= 1)
      BY <1>1, <2>3
    <3>2. t[i - 1] = q[i]
      BY <1>1, <3>1
    <3>. QED
      BY <1>3, <2>1, <3>1, <3>2 DEF p
  <2>. QED
    BY <2>2, <2>3
<1>6. p = q
  BY <1>3, <1>4, <1>5, SeqEqual DEF p
<1>. QED
  BY <1>1, <1>6 DEF p, s, h, t

LEMMA OfFirst ==
    ASSUME NEW S, NEW q \in Seq(S), q # <<>>, NEW u
    PROVE  Of(u, q) = (IF Head(q).uri = u THEN <<Head(q)>> ELSE <<>>) \o Of(u, Tail(q))
<1>1. Head(q) \in S /\ Tail(q) \in Seq(S) /\ q = <<Head(q)>> \o Tail(q)
  BY HeadAndTail
<1>2. <<Head(q)>> \in Seq(S)
  BY <1>1
<1>3. Of(u, <<Head(q)>> \o Tail(q)) = Of(u, <<Head(q)>>) \o Of(u, Tail(q))
  BY <1>1, <1>2, OfConcat
<1>4. Of(u, <<Head(q)>>) = IF Head(q).uri = u THEN <<Head(q)>> ELSE <<>>
  BY <1>1, OfSingle
<1>. QED
  BY <1>1, <1>3, <1>4, Zenon

LEMMA TakeFirstInv ==
    ASSUME CheckerAssumption, CheckerInv, TakeFirst, UNCHANGED latest
    PROVE  CheckerInv' /\ \A u \in Uri : InFlight(u)' = InFlight(u)
<1>0. jobs \in Seq(Job) /\ jobs # <<>> /\ phase = "idle" /\ pending = <<>> /\ results \in Seq(Checks)
  BY DEF CheckerInv, CheckerTypeOK, TakeFirst
<1>1. Head(jobs) \in Job /\ jobs' \in Seq(Job) /\ jobs = <<Head(jobs)>> \o jobs'
  BY <1>0, HeadAndTail DEF TakeFirst
<1>2. pending' = <<Head(jobs)>> /\ pending' \in Seq(Job) /\ Len(pending') = 1 /\ pending' # <<>>
  BY <1>1 DEF TakeFirst
<1>3. OneEach(pending')
  BY <1>2 DEF OneEach
<1>4. CheckerInv'
  BY <1>0, <1>1, <1>2, <1>3 DEF CheckerInv, CheckerTypeOK, TakeFirst
<1>5. Reverse(pending') = pending'
  <2>1. /\ Reverse(pending') \in Seq(Job) /\ Len(Reverse(pending')) = 1
        /\ \A i \in 1 .. 1 : Reverse(pending')[i] = pending'[1 - i + 1]
    BY <1>2, Reversed
  <2>2. \A i \in 1 .. 1 : Reverse(pending')[i] = pending'[i]
    BY <2>1
  <2>. QED
    BY <1>2, <2>1, <2>2, SeqEqual
<1>6. pending \o jobs = jobs
  BY <1>0, ConcatEmptySeq
<1>7. Reverse(pending') \o jobs' = pending \o jobs
  BY <1>1, <1>2, <1>5, <1>6
<1>8. phase' = "gathering"
  BY DEF TakeFirst
<1>. QED
  BY <1>0, <1>4, <1>7, <1>8 DEF InFlight

LEMMA SettleInv ==
    ASSUME CheckerAssumption, CheckerInv, Settle, UNCHANGED latest
    PROVE  CheckerInv' /\ \A u \in Uri : InFlight(u)' = InFlight(u)
<1>0. pending \in Seq(Job) /\ pending # <<>> /\ phase = "gathering"
  BY DEF CheckerInv, CheckerTypeOK, Settle
<1>1. pending' \in Seq(Job) /\ Len(pending') = Len(pending)
  BY <1>0, Reversed DEF Settle
<1>2. pending' # <<>>
  BY <1>0, <1>1
<1>3. CheckerInv'
  BY <1>1, <1>2 DEF CheckerInv, CheckerTypeOK, Settle
<1>. QED
  BY <1>0, <1>3 DEF InFlight, Settle

LEMMA ReversedSame ==
    ASSUME NEW S, NEW q \in Seq(S)
    PROVE  /\ \A i \in 1 .. Len(Reverse(q)) : \E j \in 1 .. Len(q) : Reverse(q)[i] = q[j]
           /\ \A j \in 1 .. Len(q) : \E i \in 1 .. Len(Reverse(q)) : Reverse(q)[i] = q[j]
<1>1. Len(Reverse(q)) = Len(q)
  BY Reversed
<1>2. ASSUME NEW i \in 1 .. Len(q)
      PROVE  /\ \E j \in 1 .. Len(q) : Reverse(q)[i] = q[j]
             /\ \E j \in 1 .. Len(q) : Reverse(q)[j] = q[i]
  <2>1. /\ Len(q) - i + 1 \in 1 .. Len(q) /\ Reverse(q)[i] = q[Len(q) - i + 1]
        /\ q[i] = Reverse(q)[Len(q) - i + 1]
    BY Reversed
  <2>. QED
    BY <2>1, Zenon
<1>. QED
  BY <1>1, <1>2, Zenon

LEMMA GatherInv ==
    ASSUME CheckerAssumption, CheckerInv, Gather, UNCHANGED latest
    PROVE  /\ CheckerInv'
           /\ \/ \A u \in Uri : InFlight(u)' = InFlight(u)
              \/ \E u \in Uri :
                    /\ Len(InFlight(u)) > 1
                    /\ InFlight(u)' = Tail(InFlight(u))
                    /\ \A v \in Uri \ {u} : InFlight(v)' = InFlight(v)
<1>a. PICK h : h = Head(jobs)
  OBVIOUS
<1>b. PICK rest : rest = Tail(jobs)
  OBVIOUS
<1>c. PICK w : w = Dropped(pending, h.uri)
  OBVIOUS
<1>d. PICK before, after : before = Reverse(pending) /\ after = Reverse(w)
  OBVIOUS
<1>0. /\ jobs \in Seq(Job) /\ jobs # <<>> /\ pending \in Seq(Job) /\ phase = "gathering"
      /\ OneEach(pending) /\ jobs' = rest /\ phase' = "gathering"
  BY <1>b DEF CheckerInv, CheckerTypeOK, Gather
<1>1. h \in Job /\ rest \in Seq(Job) /\ h.uri \in Uri
  BY <1>0, <1>a, <1>b, HeadAndTail DEF CheckerAssumption
<1>2. pending' = Append(w, h)
  <2>1. pending' = Append(Dropped(pending, Head(jobs).uri), Head(jobs))
    BY Zenon DEF Gather, Dropped
  <2>. QED
    BY <1>a, <1>c, <2>1
<1>3. /\ w \in Seq(Job) /\ OneEach(w)
      /\ \A i \in 1 .. Len(w) : w[i].uri # h.uri /\ \E j \in 1 .. Len(pending) : w[i] = pending[j]
      /\ \A j \in 1 .. Len(pending) :
            pending[j].uri # h.uri => \E i \in 1 .. Len(w) : w[i] = pending[j]
  BY <1>0, <1>c, WithoutLeaves
<1>4. /\ pending' \in Seq(Job) /\ Len(pending') = Len(w) + 1 /\ Len(w) \in Nat
      /\ pending'[Len(w) + 1] = h /\ \A i \in 1 .. Len(w) : pending'[i] = w[i]
  BY <1>1, <1>2, <1>3
<1>5. OneEach(pending')
  <2>. SUFFICES ASSUME NEW i \in 1 .. Len(pending'), NEW j \in 1 .. Len(pending'),
                       pending'[i].uri = pending'[j].uri
                PROVE  i = j
    BY DEF OneEach
  <2>1. \A k \in 1 .. Len(pending') : k \in 1 .. Len(w) \/ k = Len(w) + 1
    BY <1>4
  <2>2. CASE i \in 1 .. Len(w) /\ j \in 1 .. Len(w)
    BY <1>3, <1>4, <2>2 DEF OneEach
  <2>3. CASE i = Len(w) + 1 /\ j \in 1 .. Len(w)
    BY <1>3, <1>4, <2>3
  <2>4. CASE j = Len(w) + 1 /\ i \in 1 .. Len(w)
    BY <1>3, <1>4, <2>4
  <2>. QED
    BY <2>1, <2>2, <2>3, <2>4
<1>6. pending' # <<>>
  BY <1>4
<1>7. CheckerInv'
  BY <1>0, <1>1, <1>4, <1>5, <1>6 DEF CheckerInv, CheckerTypeOK, Gather
<1>8. Reverse(pending') = <<h>> \o after
  BY <1>1, <1>2, <1>3, <1>d, ReversedAppend
<1>9. before \in Seq(Job) /\ OneEach(before) /\ after \in Seq(Job) /\ OneEach(after)
  BY <1>0, <1>3, <1>d, Reversed
<1>x. /\ \A i \in 1 .. Len(before) : \E k \in 1 .. Len(pending) : before[i] = pending[k]
      /\ \A k \in 1 .. Len(pending) : \E i \in 1 .. Len(before) : before[i] = pending[k]
  <2>1. pending \in Seq(Job)
    BY <1>0
  <2>. QED
    BY <1>d, <2>1, ReversedSame
<1>y. /\ \A i \in 1 .. Len(after) : \E k \in 1 .. Len(w) : after[i] = w[k]
      /\ \A k \in 1 .. Len(w) : \E i \in 1 .. Len(after) : after[i] = w[k]
  <2>1. w \in Seq(Job)
    BY <1>3
  <2>. QED
    BY <1>d, <2>1, ReversedSame
<1>10. ASSUME NEW u
       PROVE  InFlight(u) = Of(u, before) \o ((IF h.uri = u THEN <<h>> ELSE <<>>) \o Of(u, rest))
  <2>1. InFlight(u) = Of(u, before \o jobs)
    BY <1>0, <1>d DEF InFlight
  <2>2. Of(u, before \o jobs) = Of(u, before) \o Of(u, jobs)
    BY <1>0, <1>9, OfConcat
  <2>3. Of(u, jobs) = (IF h.uri = u THEN <<h>> ELSE <<>>) \o Of(u, rest)
    BY <1>0, <1>a, <1>b, OfFirst
  <2>. QED
    BY <2>1, <2>2, <2>3
<1>11. ASSUME NEW u
       PROVE  InFlight(u)' = ((IF h.uri = u THEN <<h>> ELSE <<>>) \o Of(u, after)) \o Of(u, rest)
  <2>. DEFINE one == <<h>>
  <2>0. one \in Seq(Job)
    BY <1>1
  <2>1. InFlight(u)' = Of(u, (one \o after) \o rest)
    BY <1>0, <1>8 DEF InFlight
  <2>2. Of(u, one) = IF h.uri = u THEN <<h>> ELSE <<>>
    BY <1>1, OfSingle
  <2>. HIDE DEF one
  <2>3. one \o after \in Seq(Job)
    BY <1>9, <2>0
  <2>4. Of(u, (one \o after) \o rest) = Of(u, one \o after) \o Of(u, rest)
    BY <1>1, <2>3, OfConcat
  <2>5. Of(u, one \o after) = Of(u, one) \o Of(u, after)
    BY <1>9, <2>0, OfConcat
  <2>. QED
    BY <2>1, <2>2, <2>4, <2>5, Zenon
<1>12. ASSUME NEW u \in Uri, u # h.uri PROVE InFlight(u)' = InFlight(u)
  <2>1. Of(u, before) = Of(u, after)
    <3>1. ASSUME NEW i \in 1 .. Len(before), before[i].uri = u
          PROVE  \E j \in 1 .. Len(after) : after[j] = before[i]
      <4>1. PICK k \in 1 .. Len(pending) : before[i] = pending[k]
        BY <1>x
      <4>2. PICK l \in 1 .. Len(w) : w[l] = pending[k]
        BY <1>3, <1>12, <3>1, <4>1
      <4>3. \E j \in 1 .. Len(after) : after[j] = w[l]
        BY <1>y
      <4>. QED
        BY <4>1, <4>2, <4>3
    <3>2. ASSUME NEW j \in 1 .. Len(after), after[j].uri = u
          PROVE  \E i \in 1 .. Len(before) : before[i] = after[j]
      <4>1. PICK l \in 1 .. Len(w) : after[j] = w[l]
        BY <1>y
      <4>2. PICK k \in 1 .. Len(pending) : w[l] = pending[k]
        BY <1>3
      <4>3. \E i \in 1 .. Len(before) : before[i] = pending[k]
        BY <1>x
      <4>. QED
        BY <4>1, <4>2, <4>3
    <3>. QED
      BY <1>9, <3>1, <3>2, OfSame
  <2>2. Of(u, after) \in Seq(Job) /\ Of(u, rest) \in Seq(Job)
    BY <1>1, <1>9, OfType
  <2>3. <<>> \o Of(u, after) = Of(u, after) /\ <<>> \o Of(u, rest) = Of(u, rest)
    BY <2>2, ConcatEmptySeq
  <2>. QED
    BY <1>10, <1>11, <1>12, <2>1, <2>3
<1>e. PICK u : u = h.uri
  OBVIOUS
<1>f. PICK tail : tail = <<h>> \o Of(u, rest)
  OBVIOUS
<1>13. InFlight(u)' = tail /\ InFlight(u) = Of(u, before) \o tail
  <2>1. Of(u, after) = <<>>
    <3>1. ASSUME NEW i \in 1 .. Len(after) PROVE after[i].uri # u
      <4>1. PICK k \in 1 .. Len(w) : after[i] = w[k]
        BY <1>y
      <4>. QED
        BY <1>3, <1>e, <4>1
    <3>. QED
      BY <1>9, <3>1, OfNone
  <2>2. <<h>> \o <<>> = <<h>>
    BY <1>1, ConcatEmptySeq
  <2>3. InFlight(u)' = (<<h>> \o Of(u, after)) \o Of(u, rest)
    BY <1>11, <1>e
  <2>4. InFlight(u) = Of(u, before) \o (<<h>> \o Of(u, rest))
    BY <1>10, <1>e
  <2>. QED
    BY <1>f, <2>1, <2>2, <2>3, <2>4
<1>14. tail \in Seq(Job) /\ Len(tail) >= 1
  <2>1. Of(u, rest) \in Seq(Job)
    BY <1>1, OfType
  <2>. DEFINE t == Of(u, rest)
  <2>. HIDE DEF t
  <2>2. \A s \in Seq(Job) : <<h>> \o s \in Seq(Job) /\ Len(<<h>> \o s) >= 1
    BY <1>1
  <2>. QED
    BY <1>f, <2>1, <2>2 DEF t
<1>15. u \in Uri
  BY <1>1, <1>e
<1>16. Of(u, before) = <<>> \/ \E x \in Job : Of(u, before) = <<x>>
  BY <1>9, OfFew
<1>17. CASE Of(u, before) = <<>>
  <2>1. InFlight(u)' = InFlight(u)
    BY <1>13, <1>14, <1>17, ConcatEmptySeq
  <2>2. \A v \in Uri : InFlight(v)' = InFlight(v)
    BY <1>12, <1>e, <2>1
  <2>. QED
    BY <1>7, <2>2
<1>18. ASSUME NEW x \in Job, Of(u, before) = <<x>>
       PROVE  Len(InFlight(u)) > 1 /\ InFlight(u)' = Tail(InFlight(u))
  <2>1. Len(<<x>> \o tail) > 1 /\ Tail(<<x>> \o tail) = tail
    BY <1>14, <1>18
  <2>2. InFlight(u) = <<x>> \o tail
    BY <1>13, <1>18
  <2>. QED
    BY <1>13, <2>1, <2>2
<1>19. \A v \in Uri \ {u} : InFlight(v)' = InFlight(v)
  BY <1>12, <1>e
<1>. QED
  BY <1>7, <1>15, <1>16, <1>17, <1>18, <1>19

LEMMA CheckOneInv ==
    ASSUME CheckerAssumption, CheckerInv, NEW report \in Report, CheckOne(report), UNCHANGED latest
    PROVE  /\ CheckerInv'
           /\ \E u \in Uri :
                /\ InFlight(u) # <<>>
                /\ InFlight(u)' = Tail(InFlight(u))
                /\ \A v \in Uri \ {u} : InFlight(v)' = InFlight(v)
                /\ results' = Append(results,
                       [uri |-> u, version |-> Head(InFlight(u)).version, report |-> report])
<1>a. PICK h, rest : h = Head(pending) /\ rest = Tail(pending)
  OBVIOUS
<1>0. /\ jobs \in Seq(Job) /\ pending # <<>> /\ pending \in Seq(Job) /\ phase = "checking"
      /\ pending' = rest /\ jobs' = jobs /\ phase' \in {"idle", "checking"} /\ results \in Seq(Checks)
      /\ phase' = "idle" <=> Len(pending) = 1
  BY <1>a DEF CheckerInv, CheckerTypeOK, CheckOne
<1>1. h \in Job /\ rest \in Seq(Job) /\ pending = <<h>> \o rest
  BY <1>0, <1>a, HeadAndTail
<1>2. h.uri \in Uri /\ h.version \in 1 .. MaxVersion
  BY <1>1 DEF CheckerAssumption
<1>3. rest = <<>> <=> Len(pending) = 1
  <2>1. Len(rest) = Len(pending) - 1
    BY <1>0, <1>a, HeadTailProperties
  <2>2. Len(pending) \in Nat /\ (rest = <<>> <=> Len(rest) = 0)
    BY <1>0, <1>1, EmptySeq
  <2>. QED
    BY <2>1, <2>2
<1>4. results' = Append(results, [uri |-> h.uri, version |-> h.version, report |-> report])
  BY <1>a DEF CheckOne
<1>5. results' \in Seq(Checks)
  <2>1. [uri |-> h.uri, version |-> h.version, report |-> report] \in Checks
    BY <1>2 DEF Checks
  <2>. QED
    BY <1>0, <1>4, <2>1
<1>6. CheckerInv'
  <2>1. phase' \in {"idle", "gathering", "checking"} /\ (phase' = "idle" <=> pending' = <<>>)
    BY <1>0, <1>3
  <2>2. phase' # "gathering"
    BY <1>0
  <2>. QED
    BY <1>0, <1>1, <1>5, <2>1, <2>2 DEF CheckerInv, CheckerTypeOK
<1>. DEFINE now(u) == Of(u, rest \o jobs)
<1>7. \A u : InFlight(u)' = now(u)
  BY <1>0 DEF InFlight
<1>8. ASSUME NEW u
      PROVE  /\ now(u) \in Seq(Job)
             /\ InFlight(u) = (IF h.uri = u THEN <<h>> ELSE <<>>) \o now(u)
  <2>1. pending \o jobs # <<>> /\ pending \o jobs \in Seq(Job) /\ rest \o jobs \in Seq(Job)
    BY <1>0, <1>1
  <2>2. now(u) \in Seq(Job)
    BY <2>1, OfType
  <2>3. pending \o jobs = <<h>> \o (rest \o jobs)
    <3>1. <<h>> \in Seq(Job)
      BY <1>1
    <3>2. (<<h>> \o rest) \o jobs = <<h>> \o (rest \o jobs)
      BY <1>0, <1>1, <3>1
    <3>. QED
      BY <1>1, <3>2
  <2>4. Of(u, <<h>> \o (rest \o jobs)) = Of(u, <<h>>) \o now(u)
    <3>1. <<h>> \in Seq(Job)
      BY <1>1
    <3>2. PICK all : all = rest \o jobs
      OBVIOUS
    <3>3. Of(u, <<h>> \o all) = Of(u, <<h>>) \o Of(u, all)
      BY <2>1, <3>1, <3>2, OfConcat
    <3>. QED
      BY <3>2, <3>3
  <2>5. Of(u, <<h>>) = IF h.uri = u THEN <<h>> ELSE <<>>
    BY <1>1, OfSingle
  <2>6. InFlight(u) = Of(u, pending \o jobs)
    BY <1>0 DEF InFlight
  <2>. QED
    BY <2>2, <2>3, <2>4, <2>5, <2>6
<1>. HIDE DEF now
<1>9. \A v \in Uri \ {h.uri} : InFlight(v)' = InFlight(v)
  BY <1>7, <1>8, ConcatEmptySeq
<1>10. /\ InFlight(h.uri) # <<>> /\ InFlight(h.uri)' = Tail(InFlight(h.uri))
       /\ Head(InFlight(h.uri)) = h
  <2>0. PICK t : t = now(h.uri)
    OBVIOUS
  <2>1. t \in Seq(Job) /\ InFlight(h.uri) = <<h>> \o t /\ InFlight(h.uri)' = t
    BY <1>7, <1>8, <2>0
  <2>2. <<h>> \o t # <<>> /\ Tail(<<h>> \o t) = t /\ Head(<<h>> \o t) = h
    BY <1>1, <2>1
  <2>. QED
    BY <2>1, <2>2
<1>. QED
  BY <1>2, <1>4, <1>6, <1>9, <1>10

LEMMA ServerQueuesInv ==
    ASSUME CheckerAssumption, CheckerInv, NEW job \in Job, ServerQueues(job)
    PROVE  /\ CheckerInv'
           /\ job.uri \in Uri
           /\ InFlight(job.uri)' = Append(InFlight(job.uri), job)
           /\ \A v \in Uri \ {job.uri} : InFlight(v)' = InFlight(v)
           /\ UNCHANGED results
<1>a. PICK batch : batch = IF phase = "gathering" THEN Reverse(pending) ELSE pending
  OBVIOUS
<1>b. PICK q : q = batch \o jobs
  OBVIOUS
<1>. DEFINE one == <<job>>
<1>0. /\ jobs \in Seq(Job) /\ pending \in Seq(Job) /\ jobs' = jobs \o one
      /\ UNCHANGED <<pending, phase, results>>
      /\ latest' = [latest EXCEPT ![job.uri] = job.version]
  BY DEF CheckerInv, CheckerTypeOK, ServerQueues, Submit
<1>1. job.uri \in Uri /\ job.version \in 0 .. MaxVersion
  BY DEF CheckerAssumption
<1>2. one \in Seq(Job)
  OBVIOUS
<1>. HIDE DEF one
<1>3. jobs' \in Seq(Job)
  BY <1>0, <1>2
<1>4. CheckerInv'
  BY <1>0, <1>1, <1>3 DEF CheckerInv, CheckerTypeOK
<1>5. batch \in Seq(Job)
  BY <1>0, <1>a, Reversed
<1>6. \A u : InFlight(u) = Of(u, batch \o jobs) /\ InFlight(u)' = Of(u, batch \o jobs')
  BY <1>0, <1>a DEF InFlight
<1>7. batch \o jobs' = q \o one /\ q \in Seq(Job)
  <2>0. jobs \in Seq(Job)
    BY <1>0
  <2>1. (batch \o jobs) \o one = batch \o (jobs \o one)
    BY <1>2, <1>5, <2>0
  <2>2. batch \o jobs \in Seq(Job)
    BY <1>0, <1>5, ConcatProperties
  <2>. QED
    BY <1>0, <1>b, <2>1, <2>2
<1>8. ASSUME NEW u PROVE InFlight(u)' = InFlight(u) \o Of(u, one) /\ InFlight(u) \in Seq(Job)
  <2>1. Of(u, q \o one) = Of(u, q) \o Of(u, one)
    BY <1>2, <1>7, OfConcat
  <2>2. Of(u, q) \in Seq(Job)
    BY <1>7, OfType
  <2>. QED
    BY <1>6, <1>7, <1>b, <2>1, <2>2
<1>9. ASSUME NEW u PROVE Of(u, one) = IF job.uri = u THEN one ELSE <<>>
  BY OfSingle DEF one
<1>10. \A v \in Uri \ {job.uri} : InFlight(v)' = InFlight(v)
  BY <1>8, <1>9, ConcatEmptySeq
<1>11. InFlight(job.uri)' = Append(InFlight(job.uri), job)
  <2>1. InFlight(job.uri)' = InFlight(job.uri) \o <<job>> /\ InFlight(job.uri) \in Seq(Job)
    BY <1>8, <1>9 DEF one
  <2>2. \A s \in Seq(Job) : s \o <<job>> = Append(s, job)
    OBVIOUS
  <2>. QED
    BY <2>1, <2>2
<1>. QED
  BY <1>0, <1>1, <1>4, <1>10, <1>11

-----------------------------------------------------------------------------
(* The thread implements CheckService.                                      *)

\* Whatever the thread, the server and the channels do is a step of the service.
LEMMA StepServes ==
    ASSUME CheckerAssumption, CheckerInv, [Next]_vars
    PROVE  CheckerInv' /\ [Service!ServiceNext]_Service!serviceVars
<1>. DEFINE owed == [u \in Uri |-> InFlight(u)]
<1>1. ASSUME NEW job \in Job, ServerQueues(job)
      PROVE  CheckerInv' /\ [Service!ServiceNext]_Service!serviceVars
  <2>1. /\ CheckerInv' /\ job.uri \in Uri
        /\ InFlight(job.uri)' = Append(InFlight(job.uri), job)
        /\ \A v \in Uri \ {job.uri} : InFlight(v)' = InFlight(v)
        /\ UNCHANGED results
    BY <1>1, ServerQueuesInv
  <2>2. owed' = [owed EXCEPT ![job.uri] = Append(@, job)]
    BY <2>1
  <2>3. Service!Request(job)
    BY <2>1, <2>2 DEF Service!Request
  <2>. QED
    BY <2>1, <2>3 DEF Service!ServiceNext
<1>2. ASSUME ServerTakes PROVE CheckerInv' /\ [Service!ServiceNext]_Service!serviceVars
  <2>1. CheckerInv'
    BY <1>2 DEF ServerTakes, CheckerInv, CheckerTypeOK
  <2>2. \A u \in Uri : InFlight(u)' = InFlight(u)
    BY <1>2 DEF ServerTakes, InFlight
  <2>3. UNCHANGED owed
    BY <2>2
  <2>4. Service!Take
    BY <1>2, <2>3 DEF ServerTakes, Service!Take
  <2>. QED
    BY <2>1, <2>4 DEF Service!ServiceNext
<1>3. ASSUME TakeFirst \/ Settle, UNCHANGED latest
      PROVE  CheckerInv' /\ [Service!ServiceNext]_Service!serviceVars
  <2>1. CheckerInv' /\ \A u \in Uri : InFlight(u)' = InFlight(u)
    BY <1>3, TakeFirstInv, SettleInv
  <2>2. UNCHANGED <<owed, results>>
    BY <1>3, <2>1 DEF TakeFirst, Settle
  <2>. QED
    BY <2>1, <2>2 DEF Service!serviceVars
<1>4. ASSUME Gather, UNCHANGED latest
      PROVE  CheckerInv' /\ [Service!ServiceNext]_Service!serviceVars
  <2>1. CheckerInv' /\ UNCHANGED results
    BY <1>4, GatherInv DEF Gather
  <2>2. CASE \A u \in Uri : InFlight(u)' = InFlight(u)
    <3>1. UNCHANGED <<owed, results>>
      BY <2>1, <2>2
    <3>. QED
      BY <2>1, <3>1 DEF Service!serviceVars
  <2>3. ASSUME NEW u \in Uri, Len(InFlight(u)) > 1, InFlight(u)' = Tail(InFlight(u)),
               \A v \in Uri \ {u} : InFlight(v)' = InFlight(v)
        PROVE  Service!Supersede(u)
    <3>1. owed' = [owed EXCEPT ![u] = Tail(@)]
      BY <2>3
    <3>2. Len(owed[u]) > 1
      BY <2>3
    <3>. QED
      BY <2>1, <3>1, <3>2 DEF Service!Supersede
  <2>. QED
    BY <1>4, <2>1, <2>2, <2>3, GatherInv DEF Service!ServiceNext
<1>5. ASSUME NEW report \in Report, CheckOne(report), UNCHANGED latest
      PROVE  CheckerInv' /\ [Service!ServiceNext]_Service!serviceVars
  <2>1. CheckerInv'
    BY <1>5, CheckOneInv
  <2>2. PICK u \in Uri :
            /\ InFlight(u) # <<>>
            /\ InFlight(u)' = Tail(InFlight(u))
            /\ \A v \in Uri \ {u} : InFlight(v)' = InFlight(v)
            /\ results' = Append(results,
                   [uri |-> u, version |-> Head(InFlight(u)).version, report |-> report])
    BY <1>5, CheckOneInv
  <2>3. owed' = [owed EXCEPT ![u] = Tail(@)]
    BY <2>2
  <2>4. owed[u] = InFlight(u)
    OBVIOUS
  <2>5. Service!Deliver(u, report)
    BY <2>2, <2>3, <2>4 DEF Service!Deliver
  <2>. QED
    BY <2>1, <2>5 DEF Service!ServiceNext
<1>6. ASSUME UNCHANGED vars PROVE CheckerInv' /\ [Service!ServiceNext]_Service!serviceVars
  <2>1. \A u \in Uri : InFlight(u)' = InFlight(u)
    BY <1>6 DEF vars, checkerVars, InFlight
  <2>2. UNCHANGED <<owed, results>>
    BY <1>6, <2>1 DEF vars, checkerVars
  <2>. QED
    BY <1>6, <2>2 DEF vars, checkerVars, CheckerInv, CheckerTypeOK, Service!serviceVars
<1>. QED
  BY <1>1, <1>2, <1>3, <1>4, <1>5, <1>6 DEF Next, Thread

\* The checking thread implements CheckService.tla, whatever the buffers, the jobs
\* and the reports: a buffer's jobs are answered in the order they were queued,
\* each once, and one is passed over only while a later one waits.
THEOREM ChecksAsPromised == CheckerAssumption => (Spec => Service!ServiceSpec)
<1>. SUFFICES ASSUME CheckerAssumption PROVE Spec => Service!ServiceSpec
  OBVIOUS
<1>1. Init => CheckerInv
  BY InitChecker
<1>2. CheckerInv /\ [Next]_vars => CheckerInv'
  BY StepServes
<1>3. CheckerInv /\ [Next]_vars => [Service!ServiceNext]_Service!serviceVars
  BY StepServes
<1>4. Init => Service!ServiceInit
  <2>. SUFFICES ASSUME Init PROVE Service!ServiceInit
    OBVIOUS
  <2>1. <<>> \o <<>> = <<>>
    BY ConcatEmptySeq, EmptySeq
  <2>2. \A u \in Uri : InFlight(u) = <<>>
    BY <2>1, OfEmpty DEF Init, CheckerInit, InFlight
  <2>. QED
    BY <2>2 DEF Init, CheckerInit, Service!ServiceInit
<1>. QED
  BY <1>1, <1>2, <1>3, <1>4, PTL DEF Spec, Service!ServiceSpec

\* The thread's variables keep their types, and it holds one job of a buffer at
\* most while it gathers.
THEOREM CheckerTyped == CheckerAssumption => (Spec => []CheckerTypeOK)
<1>. SUFFICES ASSUME CheckerAssumption PROVE Spec => []CheckerTypeOK
  OBVIOUS
<1>1. Init => CheckerInv
  BY InitChecker
<1>2. CheckerInv /\ [Next]_vars => CheckerInv'
  BY StepServes
<1>3. CheckerInv => CheckerTypeOK
  BY DEF CheckerInv
<1>. QED
  BY <1>1, <1>2, <1>3, PTL DEF Spec
=============================================================================
