--------------------------- MODULE AlgorithmProofs ---------------------------
(***************************************************************************)
(* What MCAlgorithms.tla checks on small instances and holds of all of     *)
(* them: the walk of inference keeps to the types of the locals, the       *)
(* extension answers and removes what it should, and imports lead to what  *)
(* they led to when files move.                                            *)
(***************************************************************************)
EXTENDS Walk, SequenceTheorems, WellFoundedInduction, TLAPS

CONSTANTS
    Version,    \* of the Zed extension: the versions of it and of Janet
    None,       \* no directory
    Roots,      \* of imports: the roots of the workspace
    Projects    \* the directories with a `project.janet`

VARIABLES
    dirs, extension, janet, cached, call, answer    \* of the Zed extension

E == INSTANCE Install
I == INSTANCE Imports

-----------------------------------------------------------------------------
(* Of numbers. *)

\* Induction, of a set: what has 0 and with every number the next has them all.
LEMMA Counting ==
    ASSUME NEW T \in SUBSET Nat, 0 \in T, \A n \in T : n + 1 \in T
    PROVE  T = Nat
<1>. DEFINE Less == {p \in Nat \X Nat : p[1] < p[2]}
<1>1. IsWellFoundedOn(Less, Nat)
  BY NatLessThanWellFounded DEF OpToRel
<1>2. \A m, n \in Nat : n < m => <<n, m>> \in Less
  OBVIOUS
<1>. HIDE DEF Less
<1>3. SUFFICES ASSUME Nat \ T # {} PROVE FALSE
  OBVIOUS
<1>4. PICK n \in Nat \ T : \A m \in Nat \ T : ~(<<m, n>> \in Less)
  BY <1>1, <1>3, WFMin
<1>5. n # 0 /\ n - 1 \in Nat /\ n - 1 < n /\ (n - 1) + 1 = n
  BY <1>4
<1>6. n - 1 \in T
  BY <1>2, <1>4, <1>5
<1>7. (n - 1) + 1 \in T
  BY <1>6
<1>. QED
  BY <1>4, <1>5, <1>7

----
(* Facts put in place and taken back, one at a time.                             *)

PutBy(put, now, facts) ==
    put = [n \in 0 .. Len(facts) |-> IF n = 0 THEN now ELSE PutOne(put[n - 1], facts[n])]

\* Facts are put in place one after the other.
LEMMA PutSteps ==
    ASSUME NEW now, NEW facts, Len(facts) \in Nat
    PROVE  \E put : PutBy(put, now, facts) /\ Put(now, facts) = put[Len(facts)]
<1>. DEFINE StepOf(f, n) == IF n = 0 THEN now ELSE PutOne(f[n - 1], facts[n])
            Upto(f, n) == f = [m \in 0 .. n |-> StepOf(f, m)]
            T == {n \in Nat : \E f : Upto(f, n)}
<1>1. 0 \in T
  <2>. DEFINE f == [m \in 0 .. 0 |-> now]
  <2>1. Upto(f, 0)
    OBVIOUS
  <2>. QED
    BY <2>1
<1>2. ASSUME NEW n \in T PROVE n + 1 \in T
  <2>1. PICK f : Upto(f, n)
    OBVIOUS
  <2>. DEFINE g == [m \in 0 .. n + 1 |-> IF m = n + 1 THEN StepOf(f, m) ELSE f[m]]
  <2>2. ASSUME NEW m \in 0 .. n + 1 PROVE StepOf(g, m) = g[m]
    <3>1. CASE m = 0
      BY <2>1, <3>1
    <3>2. CASE m # 0
      <4>1. m - 1 \in 0 .. n /\ m - 1 \in 0 .. n + 1 /\ m - 1 # n + 1
        BY <3>2
      <4>2. g[m - 1] = f[m - 1]
        BY <4>1
      <4>3. StepOf(g, m) = StepOf(f, m)
        BY <4>2
      <4>4. CASE m = n + 1
        BY <4>3, <4>4
      <4>5. CASE m # n + 1
        <5>1. m \in 0 .. n
          BY <4>5
        <5>2. f[m] = StepOf(f, m)
          BY <2>1, <5>1
        <5>. QED
          BY <4>3, <4>5, <5>2
      <4>. QED
        BY <4>4, <4>5
    <3>. QED
      BY <3>1, <3>2
  <2>. HIDE DEF StepOf
  <2>3. Upto(g, n + 1)
    BY <2>2
  <2>4. n + 1 \in Nat
    OBVIOUS
  <2>. QED
    BY <2>3, <2>4
<1>3. Len(facts) \in T
  <2>. HIDE DEF T
  <2>1. T = Nat
    <3>1. T \in SUBSET Nat
      BY DEF T
    <3>. QED
      BY <1>1, <1>2, <3>1, Counting
  <2>. QED
    BY <2>1
<1>4. PICK f : PutBy(f, now, facts)
  BY <1>3 DEF PutBy
<1>. DEFINE g == CHOOSE g : PutBy(g, now, facts)
<1>5. PutBy(g, now, facts)
  BY <1>4
<1>6. Put(now, facts) = g[Len(facts)]
  BY Zenon DEF Put, PutBy
<1>. QED
  BY <1>5, <1>6

\* The types that have been put back, entry by entry.
BackBy(back, now, mark) ==
    back = [n \in 0 .. Len(now.stack) - mark |->
                LET entry == now.stack[Len(now.stack) - n + 1]
                IN  IF n = 0 THEN now.types ELSE [back[n - 1] EXCEPT ![entry.local] = entry.was]]

\* What was narrowed is taken back one entry after the other.
LEMMA RestoredSteps ==
    ASSUME NEW now, NEW mark, Len(now.stack) - mark \in Nat
    PROVE  \E back : /\ BackBy(back, now, mark)
                     /\ Restored(now, mark) = [types |-> back[Len(now.stack) - mark],
                                               stack |-> SubSeq(now.stack, 1, mark)]
<1>. DEFINE Entry(n) == now.stack[Len(now.stack) - n + 1]
            Back(types, n) == [types EXCEPT ![Entry(n).local] = Entry(n).was]
            StepOf(f, n) == IF n = 0 THEN now.types ELSE Back(f[n - 1], n)
            Upto(f, n) == f = [m \in 0 .. n |-> StepOf(f, m)]
            T == {n \in Nat : \E f : Upto(f, n)}
<1>1. 0 \in T
  <2>. DEFINE f == [m \in 0 .. 0 |-> now.types]
  <2>1. Upto(f, 0)
    OBVIOUS
  <2>. QED
    BY <2>1
<1>2. ASSUME NEW n \in T PROVE n + 1 \in T
  <2>1. PICK f : Upto(f, n)
    OBVIOUS
  <2>. DEFINE g == [m \in 0 .. n + 1 |-> IF m = n + 1 THEN StepOf(f, m) ELSE f[m]]
  <2>. HIDE DEF Entry, Back
  <2>2. ASSUME NEW m \in 0 .. n + 1 PROVE StepOf(g, m) = g[m]
    <3>1. CASE m = 0
      BY <2>1, <3>1
    <3>2. CASE m # 0
      <4>1. m - 1 \in 0 .. n /\ m - 1 \in 0 .. n + 1 /\ m - 1 # n + 1
        BY <3>2
      <4>2. g[m - 1] = f[m - 1]
        BY <4>1
      <4>3. StepOf(g, m) = StepOf(f, m)
        BY <4>2
      <4>4. CASE m = n + 1
        BY <4>3, <4>4
      <4>5. CASE m # n + 1
        <5>1. m \in 0 .. n
          BY <4>5
        <5>2. f[m] = StepOf(f, m)
          BY <2>1, <5>1
        <5>. QED
          BY <4>3, <4>5, <5>2
      <4>. QED
        BY <4>4, <4>5
    <3>. QED
      BY <3>1, <3>2
  <2>. HIDE DEF StepOf
  <2>3. Upto(g, n + 1)
    BY <2>2
  <2>4. n + 1 \in Nat
    OBVIOUS
  <2>. QED
    BY <2>3, <2>4
<1>3. Len(now.stack) - mark \in T
  <2>. HIDE DEF T
  <2>1. T = Nat
    <3>1. T \in SUBSET Nat
      BY DEF T
    <3>. QED
      BY <1>1, <1>2, <3>1, Counting
  <2>. QED
    BY <2>1
<1>4. PICK f : BackBy(f, now, mark)
  <2>1. PICK f : Upto(f, Len(now.stack) - mark)
    BY <1>3
  <2>2. BackBy(f, now, mark)
    BY <2>1, Zenon DEF BackBy
  <2>. QED
    BY <2>2
<1>. DEFINE g == CHOOSE g : BackBy(g, now, mark)
<1>5. BackBy(g, now, mark)
  BY <1>4
<1>6. Restored(now, mark) = [types |-> g[Len(now.stack) - mark], stack |-> SubSeq(now.stack, 1, mark)]
  BY Zenon DEF Restored, BackBy
<1>. QED
  BY <1>5, <1>6

----
(* What locals were. `T` is a set of types.                                       *)

Entries(T) == [local : Local, was : T]
FactsIn(T) == Seq([local : Local, ty : T])
Nows(T)    == [types : [Local -> T], stack : Seq(Entries(T))]

\* The narrowing `i` is the first of `x` after a mark; there is none.
FirstOf(now, mark, x, i) ==
    /\ i \in mark + 1 .. Len(now.stack) /\ now.stack[i].local = x
    /\ \A k \in mark + 1 .. i - 1 : now.stack[k].local # x
Untouched(now, mark, x) == \A i \in mark + 1 .. Len(now.stack) : now.stack[i].local # x

\* `t` is what `x` was at a mark.
WasAt(now, mark, x, t) ==
    /\ \A i \in Nat : FirstOf(now, mark, x, i) => t = now.stack[i].was
    /\ Untouched(now, mark, x) => t = now.types[x]

\* An entry is the first of its local just after the mark below it.
LEMMA FirstIs ==
    ASSUME NEW now, NEW x, Len(now.stack) \in Nat, NEW at \in 1 .. Len(now.stack), now.stack[at].local = x,
           NEW i \in Nat, FirstOf(now, at - 1, x, i)
    PROVE  i = at
<1>1. i \in at - 1 + 1 .. Len(now.stack) /\ \A k \in at - 1 + 1 .. i - 1 : now.stack[k].local # x
  BY DEF FirstOf
<1>2. i >= at /\ (i > at => at \in at - 1 + 1 .. i - 1)
  BY <1>1
<1>. QED
  BY <1>1, <1>2

\* What a stack of types and the types of now are made of.
LEMMA NowParts ==
    ASSUME NEW T, NEW now \in Nows(T)
    PROVE  /\ now.types \in [Local -> T] /\ now.stack \in Seq(Entries(T))
           /\ Len(now.stack) \in Nat /\ DOMAIN now.stack = 1 .. Len(now.stack)
           /\ \A i \in 1 .. Len(now.stack) :
                /\ now.stack[i] \in Entries(T)
                /\ now.stack[i].local \in Local /\ now.stack[i].was \in T
<1>1. now.types \in [Local -> T] /\ now.stack \in Seq(Entries(T))
  BY DEF Nows
<1>2. \A i \in 1 .. Len(now.stack) : now.stack[i] \in Entries(T)
  BY <1>1
<1>. QED
  BY <1>1, <1>2 DEF Entries

\* Taking back to a mark leaves each local what it was at the mark.
LEMMA RestoredIs ==
    ASSUME NEW T, NEW now \in Nows(T), NEW mark \in 0 .. Len(now.stack)
    PROVE  /\ Restored(now, mark) \in Nows(T)
           /\ Restored(now, mark).stack = SubSeq(now.stack, 1, mark)
           /\ Len(Restored(now, mark).stack) = mark
           /\ \A i \in 1 .. mark : Restored(now, mark).stack[i] = now.stack[i]
           /\ \A x \in Local : WasAt(now, mark, x, Restored(now, mark).types[x])
<1>. DEFINE len == Len(now.stack)
<1>1. /\ now.types \in [Local -> T] /\ now.stack \in Seq(Entries(T)) /\ len \in Nat
      /\ \A i \in 1 .. len : now.stack[i].local \in Local /\ now.stack[i].was \in T
  BY NowParts
<1>2. mark \in Nat /\ len - mark \in Nat
  BY <1>1
<1>3. PICK back : /\ BackBy(back, now, mark)
                  /\ Restored(now, mark) = [types |-> back[len - mark], stack |-> SubSeq(now.stack, 1, mark)]
  BY <1>2, RestoredSteps
<1>4. back[0] = now.types
  BY <1>2, <1>3 DEF BackBy
<1>5. ASSUME NEW n \in 1 .. len - mark
      PROVE  back[n] = [back[n - 1] EXCEPT ![now.stack[len - n + 1].local] = now.stack[len - n + 1].was]
  <2>1. n \in 0 .. len - mark /\ n # 0
    BY <1>2
  <2>. QED
    BY <1>3, <2>1, Zenon DEF BackBy
<1>. DEFINE Right(n) == back[n] \in [Local -> T] /\ \A x \in Local : WasAt(now, len - n, x, back[n][x])
            U == {n \in Nat : n <= len - mark => Right(n)}
<1>6. 0 \in U
  <2>1. \A x \in Local : \A i : ~FirstOf(now, len - 0, x, i)
    BY <1>1 DEF FirstOf
  <2>2. Right(0)
    BY <1>1, <1>4, <2>1 DEF WasAt
  <2>. QED
    BY <2>2
<1>7. ASSUME NEW n \in U PROVE n + 1 \in U
  <2>0. n \in Nat /\ n + 1 \in Nat /\ (n + 1) - 1 = n
    OBVIOUS
  <2>1. ASSUME n + 1 <= len - mark PROVE Right(n + 1)
    <3>1. n + 1 \in 1 .. len - mark /\ n <= len - mark
      BY <1>2, <2>0, <2>1
    <3>2. Right(n)
      BY <3>1
    <3>. DEFINE at == len - n
                entry == now.stack[at]
    <3>3. at \in 1 .. len /\ at - 1 = len - (n + 1) /\ at = len - (n + 1) + 1 /\ at - 1 \in Nat
      BY <1>1, <1>2, <2>0, <3>1
    <3>4. entry.local \in Local /\ entry.was \in T
      BY <1>1, <3>3
    <3>5. back[n + 1] = [back[n] EXCEPT ![entry.local] = entry.was]
      BY <1>5, <2>0, <3>1, <3>3
    <3>6. back[n + 1] \in [Local -> T]
      BY <3>2, <3>4, <3>5
    <3>7. ASSUME NEW x \in Local PROVE WasAt(now, at - 1, x, back[n + 1][x])
      <4>1. WasAt(now, at, x, back[n][x])
        BY <3>2
      <4>2. CASE x = entry.local
        <5>1. back[n + 1][x] = entry.was
          BY <3>2, <3>5, <4>2
        <5>2. ~Untouched(now, at - 1, x)
          <6>1. at \in (at - 1) + 1 .. len
            BY <1>1, <3>3
          <6>. HIDE DEF at
          <6>. QED
            BY <4>2, <6>1 DEF Untouched
        <5>3. ASSUME NEW i \in Nat, FirstOf(now, at - 1, x, i) PROVE i = at
          <6>1. now.stack[at].local = x /\ at \in 1 .. Len(now.stack) /\ Len(now.stack) \in Nat
            BY <1>1, <3>3, <4>2
          <6>. HIDE DEF at
          <6>. QED
            BY <5>3, <6>1, FirstIs
        <5>. QED
          BY <5>1, <5>2, <5>3 DEF WasAt
      <4>3. CASE x # entry.local
        <5>1. back[n + 1][x] = back[n][x]
          BY <3>2, <3>5, <4>3
        <5>2. ASSUME NEW i \in Nat, FirstOf(now, at - 1, x, i) PROVE FirstOf(now, at, x, i)
          BY <1>1, <3>3, <4>3, <5>2 DEF FirstOf
        <5>3. Untouched(now, at - 1, x) => Untouched(now, at, x)
          BY <1>1, <3>3 DEF Untouched
        <5>. QED
          BY <4>1, <5>1, <5>2, <5>3 DEF WasAt
      <4>. QED
        BY <4>2, <4>3
    <3>. QED
      BY <3>3, <3>6, <3>7
  <2>. HIDE DEF Right
  <2>. QED
    BY <2>0, <2>1
<1>8. Right(len - mark)
  <2>1. U \in SUBSET Nat
    OBVIOUS
  <2>. HIDE DEF U, Right
  <2>2. U = Nat
    BY <1>6, <1>7, <2>1, Counting
  <2>. QED
    BY <1>2, <2>2 DEF U
<1>9. len - (len - mark) = mark
  BY <1>1, <1>2
<1>10. SubSeq(now.stack, 1, mark) \in Seq(Entries(T)) /\ Len(SubSeq(now.stack, 1, mark)) = mark
  BY <1>1, <1>2
<1>11. \A i \in 1 .. mark : SubSeq(now.stack, 1, mark)[i] = now.stack[i]
  BY <1>1, <1>2
<1>12. Restored(now, mark).types = back[len - mark] /\ Restored(now, mark).stack = SubSeq(now.stack, 1, mark)
  BY <1>3
<1>13. Restored(now, mark) \in Nows(T)
  BY <1>3, <1>8, <1>10 DEF Nows
<1>. QED
  BY <1>8, <1>9, <1>10, <1>11, <1>12, <1>13

\* A fact, put in place.
LEMMA PutOneIs ==
    ASSUME NEW T, NEW now \in Nows(T), NEW fact \in [local : Local, ty : T]
    PROVE  LET next == PutOne(now, fact)
           IN  /\ next \in Nows(T)
               /\ Len(next.stack) = Len(now.stack) + 1
               /\ \A i \in 1 .. Len(now.stack) : next.stack[i] = now.stack[i]
               /\ next.stack[Len(now.stack) + 1].local = fact.local
               /\ next.stack[Len(now.stack) + 1].was = now.types[fact.local]
               /\ next.types[fact.local] = fact.ty
               /\ \A x \in Local : x # fact.local => next.types[x] = now.types[x]
<1>. DEFINE entry == [local |-> fact.local, was |-> now.types[fact.local]]
<1>1. /\ now.types \in [Local -> T] /\ now.stack \in Seq(Entries(T)) /\ Len(now.stack) \in Nat
  BY NowParts
<1>2. fact.local \in Local /\ fact.ty \in T
  OBVIOUS
<1>3. entry \in Entries(T)
  BY <1>1, <1>2 DEF Entries
<1>4. PutOne(now, fact).types = [now.types EXCEPT ![fact.local] = fact.ty]
      /\ PutOne(now, fact).stack = Append(now.stack, entry)
      /\ PutOne(now, fact) = [types |-> [now.types EXCEPT ![fact.local] = fact.ty], stack |-> Append(now.stack, entry)]
  BY DEF PutOne
<1>. HIDE DEF entry
<1>5. /\ Append(now.stack, entry) \in Seq(Entries(T))
      /\ Len(Append(now.stack, entry)) = Len(now.stack) + 1
      /\ \A i \in 1 .. Len(now.stack) : Append(now.stack, entry)[i] = now.stack[i]
      /\ Append(now.stack, entry)[Len(now.stack) + 1] = entry
  BY <1>1, <1>3
<1>6. [now.types EXCEPT ![fact.local] = fact.ty] \in [Local -> T]
  BY <1>1, <1>2
<1>7. PutOne(now, fact) \in Nows(T)
  BY <1>4, <1>5, <1>6 DEF Nows
<1>8. /\ PutOne(now, fact).types[fact.local] = fact.ty
      /\ \A x \in Local : x # fact.local => PutOne(now, fact).types[x] = now.types[x]
  BY <1>1, <1>2, <1>4
<1>9. entry.local = fact.local /\ entry.was = now.types[fact.local]
  BY DEF entry
<1>. QED
  BY <1>4, <1>5, <1>7, <1>8, <1>9

\* A local that was narrowed was narrowed a first time.
LEMMA FirstThere ==
    ASSUME NEW T, NEW now \in Nows(T), NEW mark \in Nat, NEW x
    PROVE  Untouched(now, mark, x) \/ \E i \in Nat : FirstOf(now, mark, x, i)
<1>. SUFFICES ASSUME ~Untouched(now, mark, x) PROVE \E i \in Nat : FirstOf(now, mark, x, i)
  OBVIOUS
<1>. DEFINE Less == {p \in Nat \X Nat : p[1] < p[2]}
            At == {i \in mark + 1 .. Len(now.stack) : now.stack[i].local = x}
<1>0. Len(now.stack) \in Nat
  BY NowParts
<1>1. IsWellFoundedOn(Less, Nat)
  BY NatLessThanWellFounded DEF OpToRel
<1>2. \A m, n \in Nat : n < m => <<n, m>> \in Less
  OBVIOUS
<1>3. At \subseteq Nat /\ At # {}
  BY <1>0 DEF Untouched
<1>4. \A i \in At : i \in mark + 1 .. Len(now.stack) /\ now.stack[i].local = x
  OBVIOUS
<1>5. \A i \in mark + 1 .. Len(now.stack) : now.stack[i].local = x => i \in At
  OBVIOUS
<1>. HIDE DEF Less, At
<1>6. PICK i \in At : \A k \in At : ~(<<k, i>> \in Less)
  BY <1>1, <1>3, WFMin
<1>7. \A k \in At : ~(k < i)
  BY <1>2, <1>3, <1>6
<1>8. ASSUME NEW k \in mark + 1 .. i - 1 PROVE now.stack[k].local # x
  <2>1. i \in mark + 1 .. Len(now.stack) /\ i \in Nat
    BY <1>3, <1>4
  <2>2. k \in mark + 1 .. Len(now.stack) /\ k < i
    BY <1>0, <2>1
  <2>. QED
    BY <1>5, <1>7, <2>2
<1>9. FirstOf(now, mark, x, i)
  BY <1>4, <1>8 DEF FirstOf
<1>. QED
  BY <1>3, <1>9

----
(* Values that are of what the locals were at a mark, and, of the locals that can be *)
(* assigned, of all they were before it; of the others, of what they were since `low`. *)

Held(env, now, mark, low, free) ==
    \A x \in Local :
        /\ \A i \in Nat : FirstOf(now, mark, x, i) => IsOf(env[x], now.stack[i].was)
        /\ Untouched(now, mark, x) => IsOf(env[x], now.types[x])
        /\ \A i \in 1 .. mark : (x \in free \/ i > low) /\ now.stack[i].local = x => IsOf(env[x], now.stack[i].was)

\* What is held at the end is held of the types there are.
LEMMA HeldNow ==
    ASSUME NEW T, NEW now \in Nows(T), NEW env, NEW low, NEW free, Held(env, now, Len(now.stack), low, free),
           NEW x \in Local
    PROVE  IsOf(env[x], now.types[x])
<1>1. Untouched(now, Len(now.stack), x)
  BY NowParts DEF Untouched
<1>. QED
  BY <1>1 DEF Held

\* What is held at a mark is held before it.
LEMMA HeldBefore ==
    ASSUME NEW T, NEW now \in Nows(T), NEW env, NEW low \in Nat, NEW free,
           NEW mark \in 0 .. Len(now.stack), NEW before \in low .. mark, Held(env, now, mark, low, free)
    PROVE  Held(env, now, before, low, free)
<1>0. Len(now.stack) \in Nat
  BY NowParts
<1>1. ASSUME NEW x \in Local, NEW i \in Nat, FirstOf(now, before, x, i)
      PROVE  IsOf(env[x], now.stack[i].was)
  <2>1. i \in before + 1 .. Len(now.stack) /\ now.stack[i].local = x
        /\ \A k \in before + 1 .. i - 1 : now.stack[k].local # x
    BY <1>1 DEF FirstOf
  <2>2. CASE i <= mark
    <3>1. i \in 1 .. mark /\ i > low
      BY <1>0, <2>1, <2>2
    <3>. QED
      BY <2>1, <3>1 DEF Held
  <2>3. CASE i > mark
    <3>1. i \in mark + 1 .. Len(now.stack) /\ \A k \in mark + 1 .. i - 1 : k \in before + 1 .. i - 1
      BY <1>0, <2>1, <2>3
    <3>2. FirstOf(now, mark, x, i)
      BY <2>1, <3>1 DEF FirstOf
    <3>. QED
      BY <3>2 DEF Held
  <2>. QED
    BY <1>0, <2>1, <2>2, <2>3
<1>2. ASSUME NEW x \in Local, Untouched(now, before, x)
      PROVE  IsOf(env[x], now.types[x])
  <2>1. \A i \in mark + 1 .. Len(now.stack) : i \in before + 1 .. Len(now.stack)
    BY <1>0
  <2>2. Untouched(now, mark, x)
    BY <1>2, <2>1 DEF Untouched
  <2>. QED
    BY <2>2 DEF Held
<1>3. \A i \in 1 .. before : i \in 1 .. mark
  BY <1>0
<1>. QED
  BY <1>1, <1>2, <1>3 DEF Held

\* With less asked of the locals nobody assigns.
LEMMA HeldHigher ==
    ASSUME NEW now, NEW env, NEW low \in Nat, NEW higher \in Nat, low <= higher, NEW free, NEW mark \in Nat,
           Held(env, now, mark, low, free)
    PROVE  Held(env, now, mark, higher, free)
<1>1. \A i \in 1 .. mark : i > higher => i > low
  OBVIOUS
<1>. QED
  BY <1>1 DEF Held

\* `next` is as `now` up to a mark.
AsBefore(now, next, mark) ==
    \A env, free : \A low \in Nat : \A m \in 0 .. mark :
        Held(env, now, m, low, free) => Held(env, next, m, low, free)

\* Taking back changes nothing of what is below the mark.
LEMMA RestoredAsBefore ==
    ASSUME NEW T, NEW now \in Nows(T), NEW mark \in 0 .. Len(now.stack)
    PROVE  AsBefore(now, Restored(now, mark), mark)
<1>. DEFINE next == Restored(now, mark)
<1>1. /\ Len(next.stack) = mark /\ mark \in Nat /\ Len(now.stack) \in Nat
      /\ \A i \in 1 .. mark : next.stack[i] = now.stack[i]
      /\ \A x \in Local : WasAt(now, mark, x, next.types[x])
  BY RestoredIs, NowParts
<1>. HIDE DEF next
<1>. SUFFICES ASSUME NEW env, NEW free, NEW low \in Nat, NEW m \in 0 .. mark, Held(env, now, m, low, free)
              PROVE  Held(env, next, m, low, free)
  BY DEF AsBefore, next
<1>2. ASSUME NEW x \in Local, NEW i \in Nat, FirstOf(next, m, x, i)
      PROVE  IsOf(env[x], next.stack[i].was)
  <2>1. i \in m + 1 .. mark /\ next.stack[i].local = x /\ \A k \in m + 1 .. i - 1 : next.stack[k].local # x
    BY <1>1, <1>2 DEF FirstOf
  <2>2. i \in 1 .. mark /\ i \in m + 1 .. Len(now.stack) /\ \A k \in m + 1 .. i - 1 : k \in 1 .. mark
    BY <1>1, <2>1
  <2>3. FirstOf(now, m, x, i) /\ next.stack[i] = now.stack[i]
    BY <1>1, <2>1, <2>2 DEF FirstOf
  <2>. QED
    BY <2>3 DEF Held
<1>3. ASSUME NEW x \in Local, Untouched(next, m, x) PROVE IsOf(env[x], next.types[x])
  <2>1. \A k \in m + 1 .. mark : k \in 1 .. mark /\ next.stack[k].local # x
    BY <1>1, <1>3 DEF Untouched
  <2>2. \A k \in m + 1 .. mark : now.stack[k].local # x
    BY <1>1, <2>1
  <2>3. CASE Untouched(now, mark, x)
    <3>1. \A k \in m + 1 .. Len(now.stack) : k \in m + 1 .. mark \/ k \in mark + 1 .. Len(now.stack)
      BY <1>1
    <3>2. Untouched(now, m, x)
      BY <2>2, <2>3, <3>1 DEF Untouched
    <3>3. next.types[x] = now.types[x]
      BY <1>1, <2>3 DEF WasAt
    <3>. QED
      BY <3>2, <3>3 DEF Held
  <2>4. CASE ~Untouched(now, mark, x)
    <3>1. PICK i \in Nat : FirstOf(now, mark, x, i)
      BY <1>1, <2>4, FirstThere
    <3>2. i \in mark + 1 .. Len(now.stack) /\ now.stack[i].local = x
          /\ \A k \in mark + 1 .. i - 1 : now.stack[k].local # x
      BY <3>1 DEF FirstOf
    <3>3. i \in m + 1 .. Len(now.stack)
          /\ \A k \in m + 1 .. i - 1 : k \in m + 1 .. mark \/ k \in mark + 1 .. i - 1
      BY <1>1, <3>2
    <3>4. FirstOf(now, m, x, i)
      BY <2>2, <3>2, <3>3 DEF FirstOf
    <3>5. next.types[x] = now.stack[i].was
      BY <1>1, <3>1 DEF WasAt
    <3>. QED
      BY <3>4, <3>5 DEF Held
  <2>. QED
    BY <2>3, <2>4
<1>4. ASSUME NEW x \in Local, NEW i \in 1 .. m, x \in free \/ i > low, next.stack[i].local = x
      PROVE  IsOf(env[x], next.stack[i].was)
  <2>1. i \in 1 .. mark
    BY <1>1
  <2>2. next.stack[i] = now.stack[i]
    BY <1>1, <2>1
  <2>. QED
    BY <1>4, <2>2 DEF Held
<1>. QED
  BY <1>2, <1>3, <1>4 DEF Held

\* A fact put in place changes nothing of what was below it.
LEMMA PutOneAsBefore ==
    ASSUME NEW T, NEW now \in Nows(T), NEW fact \in [local : Local, ty : T]
    PROVE  AsBefore(now, PutOne(now, fact), Len(now.stack))
<1>. DEFINE next == PutOne(now, fact)
            len == Len(now.stack)
<1>1. /\ Len(next.stack) = len + 1 /\ len \in Nat
      /\ \A i \in 1 .. len : next.stack[i] = now.stack[i]
      /\ next.stack[len + 1].local = fact.local /\ next.stack[len + 1].was = now.types[fact.local]
      /\ \A x \in Local : x # fact.local => next.types[x] = now.types[x]
  BY PutOneIs, NowParts
<1>. HIDE DEF next
<1>. SUFFICES ASSUME NEW env, NEW free, NEW low \in Nat, NEW m \in 0 .. len, Held(env, now, m, low, free)
              PROVE  Held(env, next, m, low, free)
  BY DEF AsBefore, next
<1>. HIDE DEF len
<1>0. Len(now.stack) = len
  BY DEF len
<1>2. ASSUME NEW x \in Local, NEW i \in Nat, FirstOf(next, m, x, i)
      PROVE  IsOf(env[x], next.stack[i].was)
  <2>1. i \in m + 1 .. len + 1 /\ next.stack[i].local = x /\ \A k \in m + 1 .. i - 1 : next.stack[k].local # x
    BY <1>1, <1>2 DEF FirstOf
  <2>2. \A k \in m + 1 .. i - 1 : k \in 1 .. len
    BY <1>1, <2>1
  <2>3. \A k \in m + 1 .. i - 1 : now.stack[k].local # x
    BY <1>1, <2>1, <2>2
  <2>4. CASE i # len + 1
    <3>1. i \in 1 .. len /\ i \in m + 1 .. len
      BY <1>1, <2>1, <2>4
    <3>2. FirstOf(now, m, x, i) /\ next.stack[i] = now.stack[i]
      BY <1>0, <1>1, <2>1, <2>3, <3>1 DEF FirstOf
    <3>. QED
      BY <3>2 DEF Held
  <2>5. CASE i = len + 1
    <3>1. x = fact.local /\ next.stack[i].was = now.types[x]
      BY <1>1, <2>1, <2>5
    <3>2. \A k \in m + 1 .. len : k \in m + 1 .. i - 1
      BY <1>1, <2>5
    <3>3. Untouched(now, m, x)
      BY <1>0, <2>3, <3>2 DEF Untouched
    <3>. QED
      BY <3>1, <3>3 DEF Held
  <2>. QED
    BY <2>4, <2>5
<1>3. ASSUME NEW x \in Local, Untouched(next, m, x) PROVE IsOf(env[x], next.types[x])
  <2>1. \A k \in m + 1 .. len : k \in 1 .. len /\ k \in m + 1 .. Len(next.stack)
    BY <1>1
  <2>2. len + 1 \in m + 1 .. Len(next.stack)
    BY <1>1
  <2>3. Untouched(now, m, x)
    BY <1>0, <1>1, <1>3, <2>1 DEF Untouched
  <2>4. x # fact.local
    BY <1>1, <1>3, <2>2 DEF Untouched
  <2>. QED
    BY <1>1, <2>3, <2>4 DEF Held
<1>4. ASSUME NEW x \in Local, NEW i \in 1 .. m, x \in free \/ i > low, next.stack[i].local = x
      PROVE  IsOf(env[x], next.stack[i].was)
  <2>1. i \in 1 .. len
    BY <1>1
  <2>2. next.stack[i] = now.stack[i]
    BY <1>1, <2>1
  <2>. QED
    BY <1>4, <2>2 DEF Held
<1>. QED
  BY <1>2, <1>3, <1>4 DEF Held

\* Steps that change nothing below a mark, one after the other.
LEMMA AsBeforeChain ==
    ASSUME NEW a, NEW b, NEW c, NEW m \in Nat, NEW n \in 0 .. m, AsBefore(a, b, m), AsBefore(b, c, n)
    PROVE  AsBefore(a, c, n)
<1>1. \A k \in 0 .. n : k \in 0 .. m
  OBVIOUS
<1>. QED
  BY <1>1 DEF AsBefore

\* Nothing changes where nothing is done.
LEMMA AsBeforeSelf == ASSUME NEW now, NEW m PROVE AsBefore(now, now, m)
BY DEF AsBefore

\* Values of which a fact is true are of the types it puts in place.
LEMMA PutOneHolds ==
    ASSUME NEW T, NEW now \in Nows(T), NEW fact \in [local : Local, ty : T],
           NEW env, NEW low \in Nat, NEW free,
           Held(env, now, Len(now.stack), low, free), IsOf(env[fact.local], fact.ty)
    PROVE  Held(env, PutOne(now, fact), Len(now.stack) + 1, low, free)
<1>. DEFINE next == PutOne(now, fact)
            len == Len(now.stack)
<1>1. /\ Len(next.stack) = len + 1 /\ len \in Nat
      /\ \A i \in 1 .. len : next.stack[i] = now.stack[i]
      /\ next.stack[len + 1].local = fact.local /\ next.stack[len + 1].was = now.types[fact.local]
      /\ next.types[fact.local] = fact.ty
      /\ \A x \in Local : x # fact.local => next.types[x] = now.types[x]
  BY PutOneIs, NowParts
<1>2. \A x \in Local : IsOf(env[x], now.types[x])
  BY HeldNow
<1>3. fact.local \in Local
  OBVIOUS
<1>. HIDE DEF next
<1>4. \A x, i : ~FirstOf(next, len + 1, x, i)
  BY <1>1 DEF FirstOf
<1>5. ASSUME NEW x \in Local PROVE IsOf(env[x], next.types[x])
  BY <1>1, <1>2
<1>6. ASSUME NEW x \in Local, NEW i \in 1 .. len + 1, x \in free \/ i > low, next.stack[i].local = x
      PROVE  IsOf(env[x], next.stack[i].was)
  <2>1. CASE i = len + 1
    BY <1>1, <1>2, <1>3, <1>6, <2>1
  <2>2. CASE i # len + 1
    <3>1. i \in 1 .. len
      BY <1>1, <2>2
    <3>2. next.stack[i] = now.stack[i]
      BY <1>1, <3>1
    <3>. QED
      BY <1>6, <3>1, <3>2 DEF Held
  <2>. QED
    BY <2>1, <2>2
<1>7. Held(env, next, len + 1, low, free)
  BY <1>4, <1>5, <1>6 DEF Held
<1>. QED
  BY <1>7 DEF next

\* What facts are made of.
LEMMA FactParts ==
    ASSUME NEW T, NEW facts \in FactsIn(T)
    PROVE  /\ Len(facts) \in Nat /\ DOMAIN facts = 1 .. Len(facts)
           /\ \A i \in 1 .. Len(facts) : facts[i] \in [local : Local, ty : T]
<1>. DEFINE S == [local : Local, ty : T]
<1>1. facts \in Seq(S)
  BY DEF FactsIn
<1>. HIDE DEF S
<1>2. Len(facts) \in Nat /\ DOMAIN facts = 1 .. Len(facts) /\ \A i \in 1 .. Len(facts) : facts[i] \in S
  BY <1>1
<1>. QED
  BY <1>2 DEF S

\* Facts put in place are on the stack, and values they are true of are of the types then.
LEMMA PutIs ==
    ASSUME NEW T, NEW now \in Nows(T), NEW facts \in FactsIn(T)
    PROVE  /\ Put(now, facts) \in Nows(T)
           /\ Len(Put(now, facts).stack) = Len(now.stack) + Len(facts)
           /\ AsBefore(now, Put(now, facts), Len(now.stack))
           /\ \A env, free : \A low \in Nat :
                Held(env, now, Len(now.stack), low, free) /\ Satisfies(env, facts) =>
                    Held(env, Put(now, facts), Len(Put(now, facts).stack), low, free)
<1>. DEFINE len == Len(now.stack)
<1>1. Len(facts) \in Nat /\ DOMAIN facts = 1 .. Len(facts) /\ len \in Nat
      /\ \A i \in 1 .. Len(facts) : facts[i] \in [local : Local, ty : T]
  BY FactParts, NowParts
<1>2. PICK put : PutBy(put, now, facts) /\ Put(now, facts) = put[Len(facts)]
  BY <1>1, PutSteps
<1>3. put[0] = now
  BY <1>1, <1>2 DEF PutBy
<1>4. ASSUME NEW n \in 1 .. Len(facts) PROVE put[n] = PutOne(put[n - 1], facts[n])
  <2>1. n \in 0 .. Len(facts) /\ n # 0
    BY <1>1
  <2>. QED
    BY <1>2, <2>1, Zenon DEF PutBy
<1>. DEFINE Follow(n) == \A env, free : \A low \in Nat :
                Held(env, now, len, low, free) /\ Satisfies(env, facts) => Held(env, put[n], len + n, low, free)
            Right(n) == put[n] \in Nows(T) /\ Len(put[n].stack) = len + n /\ AsBefore(now, put[n], len) /\ Follow(n)
            U == {n \in Nat : n <= Len(facts) => Right(n)}
<1>5. 0 \in U
  <2>1. len + 0 = len
    BY <1>1
  <2>2. Right(0)
    BY <1>3, <2>1, AsBeforeSelf
  <2>. HIDE DEF Right
  <2>. QED
    BY <2>2
<1>6. ASSUME NEW n \in U PROVE n + 1 \in U
  <2>0. n \in Nat /\ n + 1 \in Nat /\ (n + 1) - 1 = n
    OBVIOUS
  <2>1. ASSUME n + 1 <= Len(facts) PROVE Right(n + 1)
    <3>1. n + 1 \in 1 .. Len(facts) /\ n <= Len(facts)
      BY <1>1, <2>0, <2>1
    <3>. DEFINE before == put[n]
                fact == facts[n + 1]
    <3>2. Right(n)
      BY <3>1
    <3>3. fact \in [local : Local, ty : T]
      BY <1>1, <3>1
    <3>4. put[n + 1] = PutOne(before, fact)
      BY <1>4, <2>0, <3>1
    <3>5. before \in Nows(T) /\ Len(before.stack) = len + n /\ AsBefore(now, before, len) /\ Follow(n)
      BY <3>2
    <3>. HIDE DEF before, fact, Right, Follow
    <3>9. len + n + 1 = len + (n + 1) /\ len + n \in Nat
      <4>1. len \in Nat /\ n \in Nat
        BY <1>1, <2>0
      <4>. HIDE DEF len
      <4>. QED
        BY <4>1
    <3>6. put[n + 1] \in Nows(T) /\ Len(put[n + 1].stack) = len + (n + 1)
      <4>1. PutOne(before, fact) \in Nows(T) /\ Len(PutOne(before, fact).stack) = Len(before.stack) + 1
        BY <3>3, <3>5, PutOneIs, ZenonT(60)
      <4>2. Len(put[n + 1].stack) = len + n + 1
        BY <3>4, <3>5, <4>1
      <4>. QED
        BY <3>4, <3>9, <4>1, <4>2
    <3>7. AsBefore(now, put[n + 1], len)
      <4>1. AsBefore(before, put[n + 1], len + n)
        BY <3>3, <3>4, <3>5, PutOneAsBefore
      <4>2. AsBefore(before, put[n + 1], len)
        <5>1. \A m \in 0 .. len : m \in 0 .. len + n
          BY <1>1, <2>0
        <5>. QED
          BY <4>1, <5>1 DEF AsBefore
      <4>3. len \in 0 .. len
        BY <1>1
      <4>. HIDE DEF len
      <4>. QED
        BY <1>1, <3>5, <4>2, <4>3, AsBeforeChain
    <3>8. Follow(n + 1)
      <4>. SUFFICES ASSUME NEW env, NEW free, NEW low \in Nat,
                           Held(env, now, len, low, free), Satisfies(env, facts)
                    PROVE  Held(env, put[n + 1], len + (n + 1), low, free)
        BY DEF Follow
      <4>1. Held(env, before, len + n, low, free)
        BY <3>5 DEF Follow, before
      <4>2. IsOf(env[fact.local], fact.ty)
        BY <1>1, <3>1 DEF Satisfies, fact
      <4>3. Held(env, PutOne(before, fact), Len(before.stack) + 1, low, free)
        BY <3>3, <3>5, <4>1, <4>2, PutOneHolds
      <4>. QED
        BY <3>4, <3>5, <3>9, <4>3
    <3>. QED
      BY <3>6, <3>7, <3>8 DEF Right
  <2>. HIDE DEF Right
  <2>. QED
    BY <2>0, <2>1
<1>7. Right(Len(facts))
  <2>1. U \in SUBSET Nat
    OBVIOUS
  <2>. HIDE DEF U, Right
  <2>2. U = Nat
    BY <1>5, <1>6, <2>1, Counting
  <2>. QED
    BY <1>1, <2>2 DEF U
<1>. QED
  BY <1>2, <1>7

\* No facts change nothing.
LEMMA PutNothing == ASSUME NEW now PROVE Put(now, <<>>) = now
<1>1. Len(<<>>) = 0 /\ Len(<<>>) \in Nat
  OBVIOUS
<1>2. PICK put : PutBy(put, now, <<>>) /\ Put(now, <<>>) = put[0]
  BY <1>1, PutSteps
<1>. QED
  BY <1>1, <1>2 DEF PutBy

----
(* The walk's invariant, of the types `now`, the forms `fs` it is in, the values `rs` *)
(* the locals can have, whether it has stopped, and the locals that can be assigned.  *)

Envs == [Local -> Value]
Kinds == {"if", "else", "when", "cond", "clause", "and", "or"}
FormsIn(T) ==
    [kind : Kinds, mark : Nat, facts : FactsIn(T) \X FactsIn(T), others : SUBSET Envs, out : SUBSET Envs,
     nevers : BOOLEAN, assigned : SUBSET Local]

\* Where the outermost form began.
Lower(now, fs) == IF fs = <<>> THEN Len(now.stack) ELSE fs[1].mark

\* Values from inside the form `i`: here, or left by a form in it.
Inside(env, fs, rs, i) == env \in rs \/ \E k \in i + 1 .. Len(fs) : env \in fs[k].out \cup fs[k].others

\* The side of its test that the branch the walk is in runs under.
SideOf(kind) == IF kind = "if" THEN 1 ELSE 2

FormRight(now, fs, rs, free, i) ==
    /\ fs[i].mark <= Len(now.stack) /\ \A k \in 1 .. i : fs[k].mark <= fs[i].mark
    /\ \A env \in fs[i].out \cup fs[i].others : Held(env, now, fs[i].mark, Lower(now, fs), free)
    /\ \A env \in fs[i].others : Satisfies(env, fs[i].facts[2])
    /\ fs[i].kind = "if" => fs[i].out = {}
    /\ fs[i].kind = "else" => fs[i].others = {}
    /\ fs[i].kind \in {"else", "cond"} /\ fs[i].nevers => fs[i].out = {}
    /\ fs[i].kind = "clause" => i > 1 /\ fs[i - 1].kind = "cond"
    /\ fs[i].kind \in {"if", "else"} /\ fs[i].assigned = {} =>
          \A env : Inside(env, fs, rs, i) => Satisfies(env, fs[i].facts[SideOf(fs[i].kind)])
    /\ fs[i].kind = "else" /\ fs[i].assigned = {} => \A env \in fs[i].out : Satisfies(env, fs[i].facts[1])

WellTyped(T, now, fs, rs, st, free) ==
    /\ now \in Nows(T) /\ fs \in Seq(FormsIn(T)) /\ rs \in SUBSET Envs /\ st \in BOOLEAN /\ free \in SUBSET Local

WalkState(T, now, fs, rs, st, free) ==
    /\ WellTyped(T, now, fs, rs, st, free)
    /\ \A env \in rs : Held(env, now, Len(now.stack), Lower(now, fs), free)
    /\ st => rs = {}
    /\ \A i \in 1 .. Len(fs) : FormRight(now, fs, rs, free, i)

\* What the forms around are made of.
LEMMA FormParts ==
    ASSUME NEW T, NEW fs \in Seq(FormsIn(T))
    PROVE  /\ Len(fs) \in Nat /\ DOMAIN fs = 1 .. Len(fs)
           /\ \A i \in 1 .. Len(fs) :
                /\ fs[i] \in FormsIn(T)
                /\ fs[i].kind \in Kinds /\ fs[i].mark \in Nat /\ fs[i].nevers \in BOOLEAN
                /\ fs[i].facts[1] \in FactsIn(T) /\ fs[i].facts[2] \in FactsIn(T)
                /\ fs[i].facts = <<fs[i].facts[1], fs[i].facts[2]>>
                /\ fs[i].others \in SUBSET Envs /\ fs[i].out \in SUBSET Envs /\ fs[i].assigned \in SUBSET Local
<1>. DEFINE S == FormsIn(T)
<1>1. fs \in Seq(S)
  OBVIOUS
<1>. HIDE DEF S
<1>2. Len(fs) \in Nat /\ DOMAIN fs = 1 .. Len(fs) /\ \A i \in 1 .. Len(fs) : fs[i] \in S
  BY <1>1
<1>3. ASSUME NEW form \in S
      PROVE  /\ form.kind \in Kinds /\ form.mark \in Nat /\ form.nevers \in BOOLEAN
             /\ form.facts[1] \in FactsIn(T) /\ form.facts[2] \in FactsIn(T)
             /\ form.facts = <<form.facts[1], form.facts[2]>>
             /\ form.others \in SUBSET Envs /\ form.out \in SUBSET Envs /\ form.assigned \in SUBSET Local
  BY DEF S, FormsIn
<1>. QED
  BY <1>2, <1>3 DEF S

\* A form that stays: only more may be assigned in it.
SameForm(f, g) ==
    /\ g.kind = f.kind /\ g.mark = f.mark /\ g.facts = f.facts /\ g.others = f.others /\ g.out = f.out
    /\ g.nevers = f.nevers /\ f.assigned \subseteq g.assigned

\* What is so below a mark is so below a lower one.
LEMMA AsBeforeLess ==
    ASSUME NEW a, NEW b, NEW m \in Nat, NEW n \in Nat, n <= m, AsBefore(a, b, m)
    PROVE  AsBefore(a, b, n)
<1>1. \A k \in 0 .. n : k \in 0 .. m
  OBVIOUS
<1>. QED
  BY <1>1 DEF AsBefore

\* The forms around what a step is about stay right.
LEMMA OuterRight ==
    ASSUME NEW T, NEW now, NEW fs, NEW rs, NEW st, NEW free, WalkState(T, now, fs, rs, st, free),
           NEW now2 \in Nows(T), NEW fs2 \in Seq(FormsIn(T)), NEW rs2,
           NEW n \in 1 .. Len(fs), n <= Len(fs2),
           \A k \in 1 .. n : SameForm(fs[k], fs2[k]),
           AsBefore(now, now2, fs[n].mark), fs[n].mark <= Len(now2.stack),
           \A env : Inside(env, fs2, rs2, n) => Inside(env, fs, rs, n)
    PROVE  \A i \in 1 .. n : FormRight(now2, fs2, rs2, free, i)
<1>0. /\ Len(fs) \in Nat /\ Len(fs2) \in Nat /\ n \in Nat
      /\ \A i \in 1 .. Len(fs) : fs[i].mark \in Nat
      /\ \A i \in 1 .. Len(fs) : FormRight(now, fs, rs, free, i)
  <2>1. fs \in Seq(FormsIn(T))
    BY DEF WalkState, WellTyped
  <2>. QED
    BY <2>1, FormParts DEF WalkState
<1>a. Len(now2.stack) \in Nat
  BY NowParts
<1>. SUFFICES ASSUME NEW i \in 1 .. n PROVE FormRight(now2, fs2, rs2, free, i)
  OBVIOUS
<1>1. i \in 1 .. Len(fs) /\ i \in 1 .. Len(fs2) /\ \A k \in 1 .. i : k \in 1 .. n
  BY <1>0
<1>2. FormRight(now, fs, rs, free, i) /\ FormRight(now, fs, rs, free, n)
  BY <1>0, <1>1
<1>3. SameForm(fs[i], fs2[i]) /\ \A k \in 1 .. i : fs2[k].mark = fs[k].mark /\ fs2[k].kind = fs[k].kind
  BY <1>1 DEF SameForm
<1>4. fs[i].mark <= fs[n].mark /\ fs[i].mark \in Nat /\ fs[n].mark \in Nat
  BY <1>0, <1>1, <1>2 DEF FormRight
<1>5. AsBefore(now, now2, fs[i].mark)
  BY <1>4, AsBeforeLess
<1>6. fs # <<>> /\ fs2 # <<>> /\ 1 \in 1 .. i /\ fs[1].mark \in Nat
  BY <1>0, <1>1
<1>7. Lower(now2, fs2) = Lower(now, fs) /\ Lower(now, fs) \in Nat
  BY <1>3, <1>6 DEF Lower
<1>8. fs2[i].mark <= Len(now2.stack) /\ \A k \in 1 .. i : fs2[k].mark <= fs2[i].mark
  <2>1. fs2[i].mark = fs[i].mark /\ fs[i].mark <= Len(now2.stack)
    BY <1>3, <1>4, <1>a DEF SameForm
  <2>2. \A k \in 1 .. i : fs[k].mark <= fs[i].mark
    BY <1>2 DEF FormRight
  <2>. QED
    BY <1>3, <2>1, <2>2
<1>9. \A env \in fs2[i].out \cup fs2[i].others : Held(env, now2, fs2[i].mark, Lower(now2, fs2), free)
  <2>1. \A env \in fs[i].out \cup fs[i].others : Held(env, now, fs[i].mark, Lower(now, fs), free)
    BY <1>2 DEF FormRight
  <2>2. fs[i].mark \in 0 .. fs[i].mark
    BY <1>4
  <2>3. \A env \in fs[i].out \cup fs[i].others : Held(env, now2, fs[i].mark, Lower(now, fs), free)
    BY <1>5, <1>7, <2>1, <2>2 DEF AsBefore
  <2>. QED
    BY <1>3, <1>7, <2>3 DEF SameForm
<1>10. \A env : Inside(env, fs2, rs2, i) => Inside(env, fs, rs, i)
  <2>. SUFFICES ASSUME NEW env, Inside(env, fs2, rs2, i) PROVE Inside(env, fs, rs, i)
    OBVIOUS
  <2>1. CASE Inside(env, fs2, rs2, n)
    <3>1. Inside(env, fs, rs, n)
      BY <2>1
    <3>2. \A k \in n + 1 .. Len(fs) : k \in i + 1 .. Len(fs)
      BY <1>0, <1>1
    <3>. QED
      BY <3>1, <3>2 DEF Inside
  <2>2. CASE ~Inside(env, fs2, rs2, n)
    <3>1. PICK k \in i + 1 .. Len(fs2) : env \in fs2[k].out \cup fs2[k].others
      BY <2>2 DEF Inside
    <3>2. ~(k \in n + 1 .. Len(fs2))
      BY <2>2, <3>1 DEF Inside
    <3>3. k \in 1 .. n /\ k \in i + 1 .. Len(fs)
      BY <1>0, <1>1, <3>1, <3>2
    <3>4. env \in fs[k].out \cup fs[k].others
      BY <3>1, <3>3 DEF SameForm
    <3>. QED
      BY <3>3, <3>4 DEF Inside
  <2>. QED
    BY <2>1, <2>2
<1>11. fs2[i].kind = "clause" => i > 1 /\ fs2[i - 1].kind = "cond"
  <2>1. i > 1 => i - 1 \in 1 .. i
    BY <1>0
  <2>. QED
    BY <1>2, <1>3, <2>1 DEF FormRight, SameForm
<1>12. /\ \A env \in fs2[i].others : Satisfies(env, fs2[i].facts[2])
       /\ fs2[i].kind = "if" => fs2[i].out = {}
       /\ fs2[i].kind = "else" => fs2[i].others = {}
       /\ fs2[i].kind \in {"else", "cond"} /\ fs2[i].nevers => fs2[i].out = {}
  BY <1>2, <1>3 DEF FormRight, SameForm
<1>13. fs2[i].assigned = {} => fs[i].assigned = {}
  BY <1>3 DEF SameForm
<1>14. fs2[i].kind \in {"if", "else"} /\ fs2[i].assigned = {} =>
          \A env : Inside(env, fs2, rs2, i) => Satisfies(env, fs2[i].facts[SideOf(fs2[i].kind)])
  BY <1>2, <1>3, <1>10, <1>13 DEF FormRight, SameForm
<1>15. fs2[i].kind = "else" /\ fs2[i].assigned = {} => \A env \in fs2[i].out : Satisfies(env, fs2[i].facts[1])
  BY <1>2, <1>3, <1>13 DEF FormRight, SameForm
<1>. QED
  BY <1>8, <1>9, <1>11, <1>12, <1>14, <1>15 DEF FormRight

\* What the invariant says, part by part.
LEMMA StateParts ==
    ASSUME NEW T, NEW now, NEW fs, NEW rs, NEW st, NEW free, WalkState(T, now, fs, rs, st, free)
    PROVE  /\ now \in Nows(T) /\ fs \in Seq(FormsIn(T)) /\ rs \in SUBSET Envs /\ st \in BOOLEAN
           /\ free \in SUBSET Local
           /\ Len(now.stack) \in Nat /\ Len(fs) \in Nat /\ DOMAIN fs = 1 .. Len(fs)
           /\ Lower(now, fs) \in 0 .. Len(now.stack)
           /\ \A i \in 1 .. Len(fs) :
                /\ fs[i] \in FormsIn(T) /\ fs[i].mark \in 0 .. Len(now.stack) /\ Lower(now, fs) <= fs[i].mark
                /\ FormRight(now, fs, rs, free, i)
<1>1. now \in Nows(T) /\ fs \in Seq(FormsIn(T)) /\ rs \in SUBSET Envs /\ st \in BOOLEAN /\ free \in SUBSET Local
  BY DEF WalkState, WellTyped
<1>2. Len(now.stack) \in Nat
  BY <1>1, NowParts
<1>3. Len(fs) \in Nat /\ DOMAIN fs = 1 .. Len(fs) /\ \A i \in 1 .. Len(fs) : fs[i] \in FormsIn(T) /\ fs[i].mark \in Nat
  BY <1>1, FormParts
<1>4. \A i \in 1 .. Len(fs) : FormRight(now, fs, rs, free, i)
  BY DEF WalkState
<1>5. ASSUME NEW i \in 1 .. Len(fs)
      PROVE  fs[i].mark \in 0 .. Len(now.stack) /\ fs[1].mark <= fs[i].mark /\ fs # <<>> /\ 1 \in 1 .. Len(fs)
  <2>1. fs[i].mark <= Len(now.stack) /\ \A k \in 1 .. i : fs[k].mark <= fs[i].mark
    BY <1>4 DEF FormRight
  <2>2. 1 \in 1 .. i /\ fs # <<>> /\ 1 \in 1 .. Len(fs)
    BY <1>3
  <2>3. fs[i].mark \in Nat
    BY <1>3
  <2>4. fs[i].mark \in 0 .. Len(now.stack)
    BY <1>2, <2>1, <2>3
  <2>. QED
    BY <2>1, <2>2, <2>4
<1>6. Lower(now, fs) \in 0 .. Len(now.stack)
  <2>1. CASE fs = <<>>
    BY <1>2, <2>1 DEF Lower
  <2>2. CASE fs # <<>>
    <3>1. 1 \in 1 .. Len(fs)
      BY <1>1, <1>3, <2>2
    <3>2. fs[1].mark \in 0 .. Len(now.stack)
      BY <1>5, <3>1
    <3>. QED
      BY <2>2, <3>2 DEF Lower
  <2>. QED
    BY <2>1, <2>2
<1>7. \A i \in 1 .. Len(fs) : Lower(now, fs) <= fs[i].mark
  BY <1>5 DEF Lower
<1>. QED
  BY <1>1, <1>2, <1>3, <1>4, <1>5, <1>6, <1>7

\* What a step leaves is right when the form it is about is, and the ones around stay.
LEMMA InnerState ==
    ASSUME NEW T, NEW now, NEW fs, NEW rs, NEW st, NEW free, WalkState(T, now, fs, rs, st, free),
           NEW now2 \in Nows(T), NEW fs2 \in Seq(FormsIn(T)), NEW rs2 \in SUBSET Envs, NEW st2 \in BOOLEAN,
           NEW n \in Nat, n + 1 = Len(fs2), n <= Len(fs),
           \A k \in 1 .. n : SameForm(fs[k], fs2[k]),
           Lower(now2, fs2) = Lower(now, fs), fs2[n + 1].mark <= Len(now2.stack),
           AsBefore(now, now2, fs2[n + 1].mark),
           n # 0 => fs[n].mark <= fs2[n + 1].mark,
           \A env : Inside(env, fs2, rs2, n) => Inside(env, fs, rs, n),
           \A env \in rs2 : Held(env, now2, Len(now2.stack), Lower(now, fs), free),
           st2 => rs2 = {},
           FormRight(now2, fs2, rs2, free, n + 1)
    PROVE  WalkState(T, now2, fs2, rs2, st2, free)
<1>1. WellTyped(T, now2, fs2, rs2, st2, free)
  BY StateParts DEF WellTyped
<1>2. ASSUME NEW i \in 1 .. Len(fs2) PROVE FormRight(now2, fs2, rs2, free, i)
  <2>1. CASE i = n + 1
    BY <2>1
  <2>2. CASE i # n + 1
    <3>1. i \in 1 .. n /\ n # 0 /\ n \in 1 .. Len(fs) /\ n <= Len(fs2) /\ n + 1 \in 1 .. Len(fs2)
      BY <2>2, StateParts
    <3>2. fs[n].mark \in Nat /\ fs2[n + 1].mark \in Nat /\ Len(now2.stack) \in Nat
      <4>1. fs \in Seq(FormsIn(T))
        BY StateParts
      <4>2. fs[n].mark \in Nat
        BY <3>1, <4>1, FormParts
      <4>3. fs2[n + 1].mark \in Nat
        BY <3>1, FormParts
      <4>. QED
        BY <4>2, <4>3, NowParts
    <3>3. fs[n].mark <= fs2[n + 1].mark
      BY <3>1
    <3>4. AsBefore(now, now2, fs[n].mark)
      BY <3>2, <3>3, AsBeforeLess
    <3>5. fs[n].mark <= Len(now2.stack)
      BY <3>2, <3>3
    <3>. QED
      BY <3>1, <3>4, <3>5, OuterRight
  <2>. QED
    BY <2>1, <2>2
<1>. QED
  BY <1>1, <1>2 DEF WalkState

\* A form begins.
LEMMA PushState ==
    ASSUME NEW T, NEW now, NEW fs, NEW rs, NEW st, NEW free, WalkState(T, now, fs, rs, st, free),
           NEW form \in FormsIn(T), form.mark = Len(now.stack), form.out = {}, form.others \subseteq rs,
           \A env \in form.others : Satisfies(env, form.facts[2]),
           form.kind # "else", form.kind = "clause" => fs # <<>> /\ fs[Len(fs)].kind = "cond",
           NEW now2 \in Nows(T), Len(now.stack) <= Len(now2.stack), AsBefore(now, now2, Len(now.stack)),
           NEW rs2 \in SUBSET rs,
           \A env \in rs2 : Held(env, now2, Len(now2.stack), Lower(now, fs), free),
           form.kind = "if" => \A env \in rs2 : Satisfies(env, form.facts[1])
    PROVE  WalkState(T, now2, Append(fs, form), rs2, FALSE, free)
<1>. DEFINE fs2 == Append(fs, form)
            n == Len(fs)
            S == FormsIn(T)
<1>1. /\ fs \in Seq(S) /\ rs \in SUBSET Envs /\ n \in Nat /\ Len(now.stack) \in Nat
      /\ \A i \in 1 .. n : fs[i].mark \in 0 .. Len(now.stack)
  BY StateParts
<1>2. fs2 \in Seq(S) /\ Len(fs2) = n + 1 /\ fs2[n + 1] = form /\ \A k \in 1 .. n : fs2[k] = fs[k]
  <2>. HIDE DEF S
  <2>. QED
    BY <1>1 DEF S
<1>3. Lower(now2, fs2) = Lower(now, fs)
  <2>1. fs2 # <<>>
    <3>1. Len(fs2) # 0
      BY <1>1, <1>2
    <3>. HIDE DEF fs2
    <3>. QED
      BY <3>1
  <2>2. CASE fs = <<>>
    <3>1. n + 1 = 1
      BY <1>1, <2>2
    <3>. QED
      BY <1>2, <2>1, <2>2, <3>1 DEF Lower
  <2>3. CASE fs # <<>>
    <3>1. 1 \in 1 .. n
      BY <1>1, <2>3
    <3>. QED
      BY <1>2, <2>1, <2>3, <3>1 DEF Lower
  <2>. QED
    BY <2>2, <2>3
<1>4. ASSUME NEW env, Inside(env, fs2, rs2, n + 1) PROVE env \in rs2
  <2>1. ~(\E k \in n + 1 + 1 .. Len(fs2) : TRUE)
    BY <1>1, <1>2
  <2>. QED
    BY <1>4, <2>1 DEF Inside
<1>5. ASSUME NEW env, Inside(env, fs2, rs2, n) PROVE Inside(env, fs, rs, n)
  <2>1. \A k \in n + 1 .. Len(fs2) : k = n + 1
    BY <1>1, <1>2
  <2>2. env \in rs2 \/ env \in form.out \cup form.others
    BY <1>2, <1>5, <2>1 DEF Inside
  <2>3. env \in rs
    BY <2>2
  <2>. QED
    BY <2>3 DEF Inside
<1>6. ASSUME NEW env \in form.out \cup form.others PROVE Held(env, now2, form.mark, Lower(now2, fs2), free)
  <2>1. Held(env, now, Len(now.stack), Lower(now, fs), free)
    BY DEF WalkState
  <2>2. Lower(now, fs) \in Nat /\ Len(now.stack) \in 0 .. Len(now.stack)
    BY StateParts
  <2>. QED
    BY <1>3, <2>1, <2>2 DEF AsBefore
<1>7. form.mark <= Len(now2.stack) /\ \A k \in 1 .. n + 1 : fs2[k].mark <= form.mark
  <2>1. \A k \in 1 .. n : fs2[k].mark <= form.mark
    BY <1>1, <1>2
  <2>2. \A k \in 1 .. n + 1 : k \in 1 .. n \/ k = n + 1
    BY <1>1
  <2>. QED
    BY <1>1, <1>2, <2>1, <2>2
<1>8. form.kind = "clause" => n + 1 > 1 /\ fs2[(n + 1) - 1].kind = "cond"
  <2>. SUFFICES ASSUME form.kind = "clause" PROVE n + 1 > 1 /\ fs2[(n + 1) - 1].kind = "cond"
    OBVIOUS
  <2>1. n \in 1 .. n /\ (n + 1) - 1 = n /\ n + 1 > 1
    BY <1>1
  <2>. QED
    BY <1>2, <2>1
<1>9. FormRight(now2, fs2, rs2, free, n + 1)
  <2>1. \A env \in form.others : Satisfies(env, form.facts[2])
    OBVIOUS
  <2>2. form.kind = "if" => \A env : Inside(env, fs2, rs2, n + 1) => Satisfies(env, form.facts[SideOf(form.kind)])
    BY <1>4 DEF SideOf
  <2>3. form.out = {} /\ form.kind # "else"
    OBVIOUS
  <2>. HIDE DEF fs2, n
  <2>4. fs2[n + 1] = form
    BY <1>2
  <2>. DEFINE i == n + 1
  <2>5. fs2[i].mark <= Len(now2.stack) /\ \A k \in 1 .. i : fs2[k].mark <= fs2[i].mark
    BY <1>7, <2>4
  <2>6. \A env \in fs2[i].out \cup fs2[i].others : Held(env, now2, fs2[i].mark, Lower(now2, fs2), free)
    BY <1>6, <2>4
  <2>7. /\ \A env \in fs2[i].others : Satisfies(env, fs2[i].facts[2])
        /\ fs2[i].kind = "if" => fs2[i].out = {}
        /\ fs2[i].kind = "else" => fs2[i].others = {}
        /\ fs2[i].kind \in {"else", "cond"} /\ fs2[i].nevers => fs2[i].out = {}
    BY <2>1, <2>3, <2>4
  <2>8. fs2[i].kind = "clause" => i > 1 /\ fs2[i - 1].kind = "cond"
    <3>. SUFFICES ASSUME fs2[i].kind = "clause" PROVE i > 1 /\ fs2[i - 1].kind = "cond"
      OBVIOUS
    <3>1. form.kind = "clause"
      BY <2>4
    <3>. QED
      BY <1>8, <3>1
  <2>9. fs2[i].kind \in {"if", "else"} /\ fs2[i].assigned = {} =>
          \A env : Inside(env, fs2, rs2, i) => Satisfies(env, fs2[i].facts[SideOf(fs2[i].kind)])
    BY <2>2, <2>3, <2>4
  <2>10. fs2[i].kind # "else"
    BY <2>3, <2>4
  <2>. HIDE DEF i
  <2>11. FormRight(now2, fs2, rs2, free, i)
    BY <2>5, <2>6, <2>7, <2>8, <2>9, <2>10 DEF FormRight
  <2>. QED
    BY <2>11 DEF i
<1>10. \A k \in 1 .. n : SameForm(fs[k], fs2[k])
  BY <1>2 DEF SameForm
<1>11. rs2 \in SUBSET Envs /\ n <= Len(fs) /\ FALSE \in BOOLEAN
  BY <1>1
<1>12. n # 0 => fs[n].mark <= fs2[n + 1].mark
  BY <1>1, <1>2
<1>. HIDE DEF fs2, n
<1>13. WalkState(T, now2, fs2, rs2, FALSE, free)
  BY <1>1, <1>2, <1>3, <1>5, <1>7, <1>9, <1>10, <1>11, <1>12, InnerState DEF S
<1>. QED
  BY <1>13 DEF fs2

\* A form ends.
LEMMA PopState ==
    ASSUME NEW T, NEW now, NEW fs, NEW rs, NEW st, NEW free, WalkState(T, now, fs, rs, st, free), fs # <<>>,
           NEW now2 \in Nows(T), AsBefore(now, now2, fs[Len(fs)].mark), fs[Len(fs)].mark <= Len(now2.stack),
           NEW fs2 \in Seq(FormsIn(T)), Len(fs2) = Len(fs) - 1,
           \A k \in 1 .. Len(fs2) : SameForm(fs[k], fs2[k]),
           NEW rs2 \in SUBSET (rs \cup fs[Len(fs)].out \cup fs[Len(fs)].others),
           \A env \in rs2 : Held(env, now2, Len(now2.stack), Lower(now, fs), free),
           NEW st2 \in BOOLEAN, st2 => rs2 = {}
    PROVE  WalkState(T, now2, fs2, rs2, st2, free)
<1>. DEFINE n == Len(fs2)
            top == fs[Len(fs)]
<1>1. /\ fs \in Seq(FormsIn(T)) /\ rs \in SUBSET Envs /\ Len(fs) \in Nat /\ Len(now.stack) \in Nat /\ n \in Nat
      /\ n + 1 = Len(fs) /\ Len(fs) \in 1 .. Len(fs) /\ Len(now2.stack) \in Nat
  BY StateParts, FormParts, NowParts
<1>2. top.out \in SUBSET Envs /\ top.others \in SUBSET Envs /\ top.mark \in Nat
  BY <1>1, FormParts
<1>3. WellTyped(T, now2, fs2, rs2, st2, free)
  BY <1>1, <1>2, StateParts DEF WellTyped
<1>4. ASSUME NEW env \in rs2 PROVE Held(env, now2, Len(now2.stack), Lower(now2, fs2), free)
  <2>1. Held(env, now2, Len(now2.stack), Lower(now, fs), free)
    OBVIOUS
  <2>2. CASE fs2 = <<>>
    <3>1. Lower(now2, fs2) = Len(now2.stack) /\ Lower(now, fs) = fs[1].mark /\ n = 0
      BY <2>2 DEF Lower
    <3>2. Lower(now, fs) = top.mark
      BY <1>1, <3>1
    <3>. QED
      BY <1>1, <1>2, <2>1, <3>1, <3>2, HeldHigher
  <2>3. CASE fs2 # <<>>
    <3>1. 1 \in 1 .. n
      BY <1>1, <2>3
    <3>2. Lower(now2, fs2) = Lower(now, fs)
      BY <2>3, <3>1 DEF Lower, SameForm
    <3>. QED
      BY <2>1, <3>2
  <2>. QED
    BY <2>2, <2>3
<1>5. ASSUME NEW i \in 1 .. n PROVE FormRight(now2, fs2, rs2, free, i)
  <2>1. n \in 1 .. Len(fs) /\ n <= Len(fs2) /\ n \in 1 .. Len(fs)
    BY <1>1
  <2>2. fs[n].mark <= top.mark /\ fs[n].mark \in Nat
    <3>1. FormRight(now, fs, rs, free, Len(fs)) /\ n \in 1 .. Len(fs)
      BY <1>1, <2>1, StateParts
    <3>. QED
      BY <1>1, <3>1, FormParts DEF FormRight
  <2>3. AsBefore(now, now2, fs[n].mark) /\ fs[n].mark <= Len(now2.stack)
    <3>1. AsBefore(now, now2, fs[n].mark)
      BY <1>2, <2>2, AsBeforeLess
    <3>2. top.mark <= Len(now2.stack)
      OBVIOUS
    <3>. HIDE DEF top
    <3>3. fs[n].mark <= Len(now2.stack)
      BY <1>1, <1>2, <2>2, <3>2
    <3>. QED
      BY <3>1, <3>3
  <2>4. ASSUME NEW env, Inside(env, fs2, rs2, n) PROVE Inside(env, fs, rs, n)
    <3>1. env \in rs2
      <4>1. ~(\E k \in n + 1 .. Len(fs2) : TRUE)
        BY <1>1
      <4>. QED
        BY <2>4, <4>1 DEF Inside
    <3>2. Len(fs) \in n + 1 .. Len(fs)
      BY <1>1
    <3>. QED
      BY <3>1, <3>2 DEF Inside
  <2>5. \A k \in 1 .. n : SameForm(fs[k], fs2[k])
    OBVIOUS
  <2>. HIDE DEF n
  <2>. QED
    BY <2>1, <2>3, <2>4, <2>5, OuterRight
<1>. QED
  BY <1>3, <1>4, <1>5 DEF WalkState

\* What was narrowed since a mark is taken back, and facts are put in place.
LEMMA RestoredPut ==
    ASSUME NEW T, NEW now \in Nows(T), NEW mark \in 0 .. Len(now.stack), NEW facts \in FactsIn(T)
    PROVE  LET now2 == Put(Restored(now, mark), facts)
           IN  /\ now2 \in Nows(T) /\ mark <= Len(now2.stack) /\ AsBefore(now, now2, mark)
               /\ \A env, free : \A low \in Nat :
                    Held(env, now, mark, low, free) /\ Satisfies(env, facts) =>
                        Held(env, now2, Len(now2.stack), low, free)
<1>. DEFINE back == Restored(now, mark)
            now2 == Put(back, facts)
<1>1. back \in Nows(T) /\ Len(back.stack) = mark /\ mark \in Nat /\ mark \in 0 .. mark
  BY RestoredIs, NowParts
<1>2. AsBefore(now, back, mark)
  BY RestoredAsBefore
<1>. HIDE DEF back
<1>3. /\ now2 \in Nows(T) /\ Len(now2.stack) = mark + Len(facts) /\ AsBefore(back, now2, mark)
      /\ \A env, free : \A low \in Nat :
            Held(env, back, mark, low, free) /\ Satisfies(env, facts) => Held(env, now2, Len(now2.stack), low, free)
  BY <1>1, PutIs
<1>4. Len(facts) \in Nat
  BY FactParts
<1>5. mark <= Len(now2.stack)
  BY <1>1, <1>3, <1>4
<1>6. AsBefore(now, now2, mark)
  BY <1>1, <1>2, <1>3, AsBeforeChain
<1>7. ASSUME NEW env, NEW free, NEW low \in Nat, Held(env, now, mark, low, free), Satisfies(env, facts)
      PROVE  Held(env, now2, Len(now2.stack), low, free)
  <2>1. Held(env, back, mark, low, free)
    BY <1>1, <1>2, <1>7 DEF AsBefore
  <2>. QED
    BY <1>3, <1>7, <2>1
<1>. QED
  BY <1>3, <1>5, <1>6, <1>7 DEF back

\* Where the walk stands, values are of what the locals were where a form began.
LEMMA HeldAtMark ==
    ASSUME NEW T, NEW now, NEW fs, NEW rs, NEW st, NEW free, WalkState(T, now, fs, rs, st, free),
           NEW i \in 1 .. Len(fs), NEW env \in rs \cup fs[i].out \cup fs[i].others
    PROVE  Held(env, now, fs[i].mark, Lower(now, fs), free)
<1>1. CASE env \in rs
  <2>1. Held(env, now, Len(now.stack), Lower(now, fs), free)
    BY <1>1 DEF WalkState
  <2>2. now \in Nows(T) /\ Lower(now, fs) \in Nat /\ Len(now.stack) \in 0 .. Len(now.stack)
    BY StateParts
  <2>3. fs[i].mark \in Lower(now, fs) .. Len(now.stack)
    <3>1. fs[i].mark \in 0 .. Len(now.stack) /\ Lower(now, fs) <= fs[i].mark
      BY StateParts
    <3>. QED
      BY <2>2, <3>1
  <2>. QED
    BY <2>1, <2>2, <2>3, HeldBefore
<1>2. CASE env \in fs[i].out \cup fs[i].others
  BY <1>2, StateParts DEF FormRight
<1>. QED
  BY <1>1, <1>2

\* The forms a step leaves, one shorter, with what was assigned in the one that ended.
Ended(fs) == [i \in 1 .. Len(fs) - 1 |-> [fs[i] EXCEPT !.assigned = @ \cup fs[Len(fs)].assigned]]

\* The forms around one that ends know what it assigned.
LEMMA EndedForms ==
    ASSUME NEW T, NEW fs \in Seq(FormsIn(T)), fs # <<>>
    PROVE  /\ Ended(fs) \in Seq(FormsIn(T)) /\ Len(Ended(fs)) = Len(fs) - 1
           /\ \A k \in 1 .. Len(fs) - 1 : SameForm(fs[k], Ended(fs)[k])
<1>. DEFINE n == Len(fs) - 1
            more == fs[Len(fs)].assigned
            Grown(form) == [form EXCEPT !.assigned = @ \cup more]
<1>1. n \in Nat /\ Len(fs) \in 1 .. Len(fs) /\ \A k \in 1 .. n : k \in 1 .. Len(fs)
  <2>1. Len(fs) \in Nat /\ Len(fs) # 0
    BY FormParts
  <2>. QED
    BY <2>1
<1>2. more \in SUBSET Local
  BY <1>1, FormParts
<1>. HIDE DEF more
<1>3. ASSUME NEW form \in FormsIn(T) PROVE Grown(form) \in FormsIn(T) /\ SameForm(form, Grown(form))
  BY <1>2 DEF FormsIn, SameForm
<1>4. \A k \in 1 .. n : fs[k] \in FormsIn(T)
  BY <1>1, FormParts
<1>5. Ended(fs) = [k \in 1 .. n |-> Grown(fs[k])]
  BY DEF Ended, more
<1>. HIDE DEF Grown, n
<1>6. Ended(fs) \in [1 .. n -> FormsIn(T)] /\ \A k \in 1 .. n : Ended(fs)[k] = Grown(fs[k])
  BY <1>3, <1>4, <1>5
<1>7. Ended(fs) \in Seq(FormsIn(T)) /\ Len(Ended(fs)) = n
  <2>. DEFINE S == FormsIn(T)
  <2>1. Ended(fs) \in [1 .. n -> S]
    BY <1>6
  <2>. HIDE DEF S
  <2>2. Ended(fs) \in Seq(S) /\ Len(Ended(fs)) = n
    BY <1>1, <2>1
  <2>. QED
    BY <2>2 DEF S
<1>8. \A k \in 1 .. n : SameForm(fs[k], Ended(fs)[k])
  BY <1>3, <1>4, <1>6
<1>. QED
  BY <1>7, <1>8 DEF n

\* A form ends: what of its facts stays is true of the values it leaves.
LEMMA EndState ==
    ASSUME NEW T, NEW now, NEW fs, NEW rs, NEW st, NEW free, WalkState(T, now, fs, rs, st, free), fs # <<>>,
           NEW fs2 \in Seq(FormsIn(T)), Len(fs2) = Len(fs) - 1, \A k \in 1 .. Len(fs2) : SameForm(fs[k], fs2[k]),
           NEW stays \in FactsIn(T),
           NEW rs2 \in SUBSET (rs \cup fs[Len(fs)].out \cup fs[Len(fs)].others),
           \A env \in rs2 : Satisfies(env, stays),
           NEW st2 \in BOOLEAN, st2 => rs2 = {}
    PROVE  WalkState(T, Put(Restored(now, fs[Len(fs)].mark), stays), fs2, rs2, st2, free)
<1>. DEFINE mark == fs[Len(fs)].mark
            now2 == Put(Restored(now, mark), stays)
<1>1. now \in Nows(T) /\ fs \in Seq(FormsIn(T)) /\ Lower(now, fs) \in Nat
  BY StateParts
<1>2. Len(fs) \in 1 .. Len(fs)
  <2>1. Len(fs) \in Nat /\ Len(fs) # 0
    BY <1>1, FormParts
  <2>. QED
    BY <2>1
<1>3. mark \in 0 .. Len(now.stack)
  BY <1>2, StateParts
<1>. HIDE DEF mark
<1>4. /\ now2 \in Nows(T) /\ mark <= Len(now2.stack) /\ AsBefore(now, now2, mark)
      /\ \A env : \A low \in Nat :
            Held(env, now, mark, low, free) /\ Satisfies(env, stays) => Held(env, now2, Len(now2.stack), low, free)
  BY <1>1, <1>3, RestoredPut
<1>5. ASSUME NEW env \in rs2 PROVE Held(env, now2, Len(now2.stack), Lower(now, fs), free)
  <2>1. env \in rs \cup fs[Len(fs)].out \cup fs[Len(fs)].others
    OBVIOUS
  <2>2. Held(env, now, mark, Lower(now, fs), free)
    BY <1>2, <2>1, HeldAtMark DEF mark
  <2>. QED
    BY <1>1, <1>4, <2>2
<1>. HIDE DEF now2
<1>6. WalkState(T, now2, fs2, rs2, st2, free)
  BY <1>4, <1>5, PopState DEF mark
<1>. QED
  BY <1>6 DEF now2, mark

\* No form begins or ends.
LEMMA StayState ==
    ASSUME NEW T, NEW now, NEW fs, NEW rs, NEW st, NEW free, WalkState(T, now, fs, rs, st, free),
           NEW now2 \in Nows(T), Len(now.stack) <= Len(now2.stack), AsBefore(now, now2, Len(now.stack)),
           NEW rs2 \in SUBSET rs,
           \A env \in rs2 : Held(env, now2, Len(now2.stack), Lower(now, fs), free),
           NEW st2 \in BOOLEAN, st2 => rs2 = {}
    PROVE  WalkState(T, now2, fs, rs2, st2, free)
<1>1. /\ now \in Nows(T) /\ fs \in Seq(FormsIn(T)) /\ rs \in SUBSET Envs /\ Len(fs) \in Nat /\ Len(now.stack) \in Nat
      /\ Lower(now, fs) \in 0 .. Len(now.stack) /\ free \in SUBSET Local
  BY StateParts
<1>2. Len(now2.stack) \in Nat
  BY NowParts
<1>3. WellTyped(T, now2, fs, rs2, st2, free)
  BY <1>1 DEF WellTyped
<1>4. ASSUME NEW env \in rs2 PROVE Held(env, now2, Len(now2.stack), Lower(now2, fs), free)
  <2>1. Held(env, now2, Len(now2.stack), Lower(now, fs), free)
    OBVIOUS
  <2>2. CASE fs = <<>>
    <3>1. Lower(now2, fs) = Len(now2.stack) /\ Lower(now, fs) = Len(now.stack)
      BY <2>2 DEF Lower
    <3>. QED
      BY <1>1, <1>2, <2>1, <3>1, HeldHigher
  <2>3. CASE fs # <<>>
    BY <2>1, <2>3 DEF Lower
  <2>. QED
    BY <2>2, <2>3
<1>5. ASSUME NEW i \in 1 .. Len(fs) PROVE FormRight(now2, fs, rs2, free, i)
  <2>. DEFINE n == Len(fs)
  <2>1. n \in 1 .. Len(fs) /\ n <= Len(fs)
    BY <1>1
  <2>2. AsBefore(now, now2, fs[n].mark) /\ fs[n].mark <= Len(now2.stack)
    <3>1. fs[n].mark \in 0 .. Len(now.stack)
      BY <2>1, StateParts
    <3>2. fs[n].mark \in Nat /\ fs[n].mark <= Len(now.stack)
      BY <1>1, <3>1
    <3>. QED
      BY <1>1, <1>2, <3>2, AsBeforeLess
  <2>3. \A env : Inside(env, fs, rs2, n) => Inside(env, fs, rs, n)
    BY DEF Inside
  <2>4. \A k \in 1 .. n : SameForm(fs[k], fs[k])
    BY DEF SameForm
  <2>. HIDE DEF n
  <2>5. \A k \in 1 .. n : FormRight(now2, fs, rs2, free, k)
    BY <1>1, <2>1, <2>2, <2>3, <2>4, OuterRight
  <2>. QED
    BY <2>5 DEF n
<1>. QED
  BY <1>3, <1>4, <1>5 DEF WalkState

\* The form the walk is in, and the ones around it.
LEMMA LastForm ==
    ASSUME NEW T, NEW now, NEW fs, NEW rs, NEW st, NEW free, WalkState(T, now, fs, rs, st, free), fs # <<>>
    PROVE  /\ Len(fs) \in 1 .. Len(fs) /\ Len(fs) - 1 \in Nat /\ (Len(fs) - 1) + 1 = Len(fs)
           /\ Len(fs) - 1 # 0 => Len(fs) - 1 \in 1 .. Len(fs)
           /\ fs[Len(fs)].mark \in 0 .. Len(now.stack) /\ fs[Len(fs)].mark \in Nat
           /\ Last(fs) = fs[Len(fs)] /\ fs[1].mark = Lower(now, fs)
           /\ \A k \in 1 .. Len(fs) : fs[k].mark <= fs[Len(fs)].mark
<1>1. fs \in Seq(FormsIn(T))
  BY StateParts
<1>2. Len(fs) \in Nat /\ Len(fs) # 0
  BY <1>1, FormParts
<1>3. Len(fs) \in 1 .. Len(fs) /\ Len(fs) - 1 \in Nat /\ (Len(fs) - 1) + 1 = Len(fs)
      /\ (Len(fs) - 1 # 0 => Len(fs) - 1 \in 1 .. Len(fs))
  <2>. DEFINE len == Len(fs)
  <2>1. len \in Nat /\ len # 0
    BY <1>2
  <2>. HIDE DEF len
  <2>2. len \in 1 .. len /\ len - 1 \in Nat /\ (len - 1) + 1 = len /\ (len - 1 # 0 => len - 1 \in 1 .. len)
    BY <2>1
  <2>. QED
    BY <2>2 DEF len
<1>4. fs[Len(fs)].mark \in 0 .. Len(now.stack) /\ Len(now.stack) \in Nat /\ FormRight(now, fs, rs, free, Len(fs))
  BY <1>3, StateParts
<1>5. \A k \in 1 .. Len(fs) : fs[k].mark <= fs[Len(fs)].mark
  BY <1>4 DEF FormRight
<1>6. Last(fs) = fs[Len(fs)] /\ fs[1].mark = Lower(now, fs)
  BY DEF Last, Lower
<1>7. fs[Len(fs)].mark \in Nat
  BY <1>4
<1>. QED
  BY <1>3, <1>4, <1>5, <1>6, <1>7

\* The form the walk is in changes: what it was, and `top`, what it is now.
LEMMA TopState ==
    ASSUME NEW T, NEW now, NEW fs, NEW rs, NEW st, NEW free, WalkState(T, now, fs, rs, st, free), fs # <<>>,
           NEW top \in FormsIn(T), top.mark = fs[Len(fs)].mark,
           NEW now2 \in Nows(T), top.mark <= Len(now2.stack), AsBefore(now, now2, top.mark),
           NEW rs2 \in SUBSET (rs \cup fs[Len(fs)].others),
           \A env \in rs2 : Held(env, now2, Len(now2.stack), Lower(now, fs), free),
           NEW st2 \in BOOLEAN, st2 => rs2 = {},
           top.out \subseteq rs \cup fs[Len(fs)].out \cup fs[Len(fs)].others,
           top.others \subseteq fs[Len(fs)].others, top.facts = fs[Len(fs)].facts,
           top.kind \notin {"if", "clause"}, top.kind = "else" => top.others = {},
           top.kind \in {"else", "cond"} /\ top.nevers => top.out = {},
           top.kind = "else" /\ top.assigned = {} =>
              /\ \A env \in rs2 : Satisfies(env, top.facts[2])
              /\ \A env \in top.out : Satisfies(env, top.facts[1])
    PROVE  WalkState(T, now2, [fs EXCEPT ![Len(fs)] = top], rs2, st2, free)
<1>. DEFINE n == Len(fs) - 1
            i == Len(fs)
            fs2 == [fs EXCEPT ![i] = top]
            S == FormsIn(T)
<1>1. /\ fs \in Seq(S) /\ rs \in SUBSET Envs /\ Len(fs) \in Nat /\ Len(now.stack) \in Nat
      /\ i \in 1 .. i /\ i \in Nat /\ n \in Nat /\ n + 1 = i /\ i \in 1 .. Len(fs)
  BY StateParts, LastForm
<1>2. fs2 \in Seq(S) /\ Len(fs2) = i /\ fs2[i] = top /\ \A k \in 1 .. n : fs2[k] = fs[k] /\ k \in 1 .. i
  <2>. HIDE DEF S
  <2>. QED
    BY <1>1 DEF S
<1>3. fs[i].others \in SUBSET Envs
  BY <1>1, FormParts
<1>4. \A k \in 1 .. n : SameForm(fs[k], fs2[k])
  BY <1>2 DEF SameForm
<1>5. Lower(now2, fs2) = Lower(now, fs)
  <2>1. fs2 # <<>>
    <3>1. Len(fs2) # 0
      BY <1>1, <1>2
    <3>. HIDE DEF fs2
    <3>. QED
      BY <3>1
  <2>2. 1 = i \/ 1 \in 1 .. n
    BY <1>1
  <2>3. fs2[1].mark = fs[1].mark
    BY <1>2, <2>2
  <2>. QED
    BY <2>1, <2>3 DEF Lower
<1>6. ASSUME NEW env, Inside(env, fs2, rs2, i) PROVE env \in rs2
  <2>1. ~(\E k \in i + 1 .. Len(fs2) : TRUE)
    BY <1>1, <1>2
  <2>. QED
    BY <1>6, <2>1 DEF Inside
<1>7. ASSUME NEW env, Inside(env, fs2, rs2, n) PROVE Inside(env, fs, rs, n)
  <2>1. \A k \in n + 1 .. Len(fs2) : k = i
    BY <1>1, <1>2
  <2>2. env \in rs \/ env \in fs[i].out \cup fs[i].others
    BY <1>2, <1>7, <2>1 DEF Inside
  <2>3. i \in n + 1 .. Len(fs)
    BY <1>1
  <2>. QED
    BY <2>2, <2>3 DEF Inside
<1>8. ASSUME NEW env \in top.out \cup top.others PROVE Held(env, now2, top.mark, Lower(now2, fs2), free)
  <2>1. env \in rs \cup fs[i].out \cup fs[i].others
    OBVIOUS
  <2>2. Held(env, now, top.mark, Lower(now, fs), free)
    BY <1>1, <2>1, HeldAtMark
  <2>3. Lower(now, fs) \in Nat /\ top.mark \in 0 .. top.mark
    BY StateParts, LastForm
  <2>. QED
    BY <1>5, <2>2, <2>3 DEF AsBefore
<1>9. \A k \in 1 .. i : fs2[k].mark <= top.mark
  <2>1. \A k \in 1 .. i : k = i \/ k \in 1 .. n
    <3>1. n \in Nat /\ i = n + 1
      BY <1>1
    <3>. HIDE DEF n, i
    <3>. QED
      BY <3>1
  <2>2. top.mark <= top.mark /\ \A k \in 1 .. i : fs[k].mark <= top.mark
    BY LastForm
  <2>. QED
    BY <1>2, <2>1, <2>2
<1>10. \A env \in top.others : Satisfies(env, top.facts[2])
  <2>1. FormRight(now, fs, rs, free, i)
    BY <1>1, StateParts
  <2>. QED
    BY <2>1 DEF FormRight
<1>11. FormRight(now2, fs2, rs2, free, i)
  <2>. HIDE DEF fs2, i
  <2>1. fs2[i].mark <= Len(now2.stack) /\ \A k \in 1 .. i : fs2[k].mark <= fs2[i].mark
    BY <1>2, <1>9
  <2>2. \A env \in fs2[i].out \cup fs2[i].others : Held(env, now2, fs2[i].mark, Lower(now2, fs2), free)
    BY <1>2, <1>8
  <2>3. /\ \A env \in fs2[i].others : Satisfies(env, fs2[i].facts[2])
        /\ fs2[i].kind \notin {"if", "clause"}
        /\ fs2[i].kind = "else" => fs2[i].others = {}
        /\ fs2[i].kind \in {"else", "cond"} /\ fs2[i].nevers => fs2[i].out = {}
    BY <1>2, <1>10
  <2>4. fs2[i].kind = "else" /\ fs2[i].assigned = {} =>
          /\ \A env : Inside(env, fs2, rs2, i) => Satisfies(env, fs2[i].facts[2])
          /\ \A env \in fs2[i].out : Satisfies(env, fs2[i].facts[1])
    BY <1>2, <1>6
  <2>5. SideOf(fs2[i].kind) = 2
    BY <2>3 DEF SideOf
  <2>. QED
    BY <2>1, <2>2, <2>3, <2>4, <2>5 DEF FormRight
<1>12. n # 0 => fs[n].mark <= top.mark
  BY LastForm
<1>13. rs2 \in SUBSET Envs
  BY <1>1, <1>3
<1>. HIDE DEF fs2, n, i
<1>14. WalkState(T, now2, fs2, rs2, st2, free)
  <2>1. n + 1 = Len(fs2) /\ n <= Len(fs) /\ fs2[n + 1] = top /\ FormRight(now2, fs2, rs2, free, n + 1)
    <3>1. n <= i /\ Len(fs) = i
      BY <1>1 DEF i
    <3>. QED
      BY <1>1, <1>2, <1>11, <3>1
  <2>. QED
    BY <1>1, <1>2, <1>4, <1>5, <1>7, <1>12, <1>13, <2>1, InnerState DEF S
<1>. QED
  BY <1>14 DEF fs2, i

\* A local is assigned: all it was becomes `w`.
AllOf(now, x, w) ==
    [types |-> [now.types EXCEPT ![x] = w],
     stack |-> [i \in DOMAIN now.stack |-> IF now.stack[i].local = x THEN [now.stack[i] EXCEPT !.was = w] ELSE now.stack[i]]]

\* `set` gives a local one type, now and in all that will be put back.
LEMMA AllOfIs ==
    ASSUME NEW T, NEW now \in Nows(T), NEW x \in Local, NEW w
    PROVE  /\ AllOf(now, x, w) \in Nows(T \cup {w}) /\ Len(AllOf(now, x, w).stack) = Len(now.stack)
           /\ AllOf(now, x, w).types[x] = w
           /\ \A y \in Local : y # x => AllOf(now, x, w).types[y] = now.types[y]
           /\ \A i \in 1 .. Len(now.stack) :
                /\ AllOf(now, x, w).stack[i].local = now.stack[i].local
                /\ now.stack[i].local = x => AllOf(now, x, w).stack[i].was = w
                /\ now.stack[i].local # x => AllOf(now, x, w).stack[i].was = now.stack[i].was
<1>. DEFINE now2 == AllOf(now, x, w)
            U == T \cup {w}
            len == Len(now.stack)
            Entry(i) == IF now.stack[i].local = x THEN [now.stack[i] EXCEPT !.was = w] ELSE now.stack[i]
<1>1. /\ now.types \in [Local -> T] /\ len \in Nat /\ DOMAIN now.stack = 1 .. len
      /\ \A i \in 1 .. len : now.stack[i] \in Entries(T)
  BY NowParts
<1>2. ASSUME NEW i \in 1 .. len
      PROVE  /\ Entry(i) \in Entries(U) /\ Entry(i).local = now.stack[i].local
             /\ now.stack[i].local = x => Entry(i).was = w
             /\ now.stack[i].local # x => Entry(i).was = now.stack[i].was
  BY <1>1 DEF Entries
<1>3. now2.types = [now.types EXCEPT ![x] = w] /\ now2.stack = [i \in 1 .. len |-> Entry(i)]
  BY <1>1 DEF AllOf
<1>4. now2 = [types |-> now2.types, stack |-> now2.stack]
  BY DEF AllOf
<1>. HIDE DEF now2, len, Entry, U
<1>5. /\ now2.types \in [Local -> U] /\ now2.types[x] = w
      /\ \A y \in Local : y # x => now2.types[y] = now.types[y]
  BY <1>1, <1>3 DEF U
<1>6. now2.stack \in Seq(Entries(U)) /\ Len(now2.stack) = len /\ \A i \in 1 .. len : now2.stack[i] = Entry(i)
  <2>. DEFINE S == Entries(U)
  <2>1. \A i \in 1 .. len : Entry(i) \in S
    BY <1>2
  <2>. HIDE DEF S
  <2>2. now2.stack \in [1 .. len -> S] /\ \A i \in 1 .. len : now2.stack[i] = Entry(i)
    BY <1>3, <2>1
  <2>3. now2.stack \in Seq(S) /\ Len(now2.stack) = len
    BY <1>1, <2>2
  <2>. QED
    BY <2>2, <2>3 DEF S
<1>7. now2 \in Nows(U)
  BY <1>4, <1>5, <1>6 DEF Nows
<1>. QED
  BY <1>2, <1>5, <1>6, <1>7 DEF now2, U, len

\* What is held before is held after, of values that have the assigned one.
LEMMA AllOfHeld ==
    ASSUME NEW T, NEW now \in Nows(T), NEW x \in Local, NEW w, NEW mark \in 0 .. Len(now.stack), NEW low, NEW free,
           NEW env, NEW env2, \A y \in Local : y # x => env2[y] = env[y], IsOf(env2[x], w),
           Held(env, now, mark, low, free)
    PROVE  Held(env2, AllOf(now, x, w), mark, low, free)
<1>. DEFINE now2 == AllOf(now, x, w)
            len == Len(now.stack)
<1>1. /\ Len(now2.stack) = len /\ len \in Nat
      /\ now2.types[x] = w /\ \A y \in Local : y # x => now2.types[y] = now.types[y]
      /\ \A i \in 1 .. len : /\ now2.stack[i].local = now.stack[i].local
                             /\ now.stack[i].local = x => now2.stack[i].was = w
                             /\ now.stack[i].local # x => now2.stack[i].was = now.stack[i].was
  <2>1. len \in Nat
    BY NowParts
  <2>2. /\ now2 \in Nows(T \cup {w}) /\ Len(now2.stack) = len
        /\ now2.types[x] = w /\ \A y \in Local : y # x => now2.types[y] = now.types[y]
        /\ \A i \in 1 .. len : /\ now2.stack[i].local = now.stack[i].local
                               /\ now.stack[i].local = x => now2.stack[i].was = w
                               /\ now.stack[i].local # x => now2.stack[i].was = now.stack[i].was
    BY AllOfIs, SMTT(30)
  <2>. QED
    BY <2>1, <2>2
<1>0. mark \in Nat /\ \A i \in 1 .. mark : i \in 1 .. len
  BY <1>1
<1>. HIDE DEF now2, len
<1>2. \A i \in mark + 1 .. len : i \in 1 .. len /\ \A k \in mark + 1 .. i - 1 : k \in 1 .. len
  BY <1>0, <1>1
<1>3. ASSUME NEW y \in Local, NEW i \in Nat, FirstOf(now2, mark, y, i)
      PROVE  FirstOf(now, mark, y, i) /\ i \in 1 .. len
  BY <1>1, <1>2, <1>3 DEF FirstOf, len
<1>4. ASSUME NEW y \in Local, Untouched(now2, mark, y) PROVE Untouched(now, mark, y)
  BY <1>1, <1>2, <1>4 DEF Untouched, len
<1>5. ASSUME NEW y \in Local, NEW i \in Nat, FirstOf(now2, mark, y, i) PROVE IsOf(env2[y], now2.stack[i].was)
  <2>1. FirstOf(now, mark, y, i) /\ i \in 1 .. len
    BY <1>3, <1>5
  <2>2. now.stack[i].local = y
    BY <2>1 DEF FirstOf
  <2>3. IsOf(env[y], now.stack[i].was)
    BY <2>1 DEF Held
  <2>. QED
    BY <1>1, <2>1, <2>2, <2>3
<1>6. ASSUME NEW y \in Local, Untouched(now2, mark, y) PROVE IsOf(env2[y], now2.types[y])
  <2>1. IsOf(env[y], now.types[y])
    BY <1>4, <1>6 DEF Held
  <2>. QED
    BY <1>1, <2>1
<1>7. ASSUME NEW y \in Local, NEW i \in 1 .. mark, y \in free \/ i > low, now2.stack[i].local = y
      PROVE  IsOf(env2[y], now2.stack[i].was)
  <2>0. i \in 1 .. len
    BY <1>0
  <2>1. now.stack[i].local = y
    BY <1>1, <1>7, <2>0
  <2>2. IsOf(env[y], now.stack[i].was)
    BY <1>7, <2>1 DEF Held
  <2>. QED
    BY <1>1, <1>7, <2>0, <2>1, <2>2
<1>8. Held(env2, now2, mark, low, free)
  BY <1>5, <1>6, <1>7 DEF Held
<1>. QED
  BY <1>8 DEF now2

\* The forms, and the values there are, once a local is assigned.
MoreAssigned(fs, x) == [i \in DOMAIN fs |-> [fs[i] EXCEPT !.assigned = @ \cup {x}]]
Reassigned(rs, x, value) == {[env EXCEPT ![x] = value] : env \in rs}

\* `set` only adds to what the forms around know to be assigned.
LEMMA AssignedForms ==
    ASSUME NEW T, NEW fs \in Seq(FormsIn(T)), NEW x \in Local
    PROVE  LET fs2 == MoreAssigned(fs, x)
           IN  /\ fs2 \in Seq(FormsIn(T)) /\ Len(fs2) = Len(fs)
               /\ \A i \in 1 .. Len(fs) : SameForm(fs[i], fs2[i]) /\ fs2[i].assigned # {}
<1>. DEFINE n == Len(fs)
            Grown(form) == [form EXCEPT !.assigned = @ \cup {x}]
            fs2 == [i \in DOMAIN fs |-> Grown(fs[i])]
            S == FormsIn(T)
<1>1. n \in Nat /\ DOMAIN fs = 1 .. n /\ \A k \in 1 .. n : fs[k] \in S
  BY FormParts
<1>2. ASSUME NEW form \in S PROVE Grown(form) \in S /\ SameForm(form, Grown(form)) /\ Grown(form).assigned # {}
  BY DEF FormsIn, SameForm
<1>. HIDE DEF Grown, n, S
<1>3. fs2 \in [1 .. n -> S] /\ \A k \in 1 .. n : fs2[k] = Grown(fs[k])
  BY <1>1, <1>2
<1>. HIDE DEF fs2
<1>4. fs2 \in Seq(S) /\ Len(fs2) = n
  BY <1>1, <1>3
<1>5. \A k \in 1 .. n : SameForm(fs[k], fs2[k]) /\ fs2[k].assigned # {}
  BY <1>1, <1>2, <1>3
<1>. QED
  BY <1>4, <1>5 DEF fs2, n, S, Grown, MoreAssigned

\* Among more types there are more facts, stacks and forms.
LEMMA MoreEntries ==
    ASSUME NEW T, NEW U, T \subseteq U
    PROVE  FactsIn(T) \subseteq FactsIn(U) /\ Nows(T) \subseteq Nows(U) /\ Seq(FormsIn(T)) \subseteq Seq(FormsIn(U))
<1>1. [local : Local, ty : T] \subseteq [local : Local, ty : U] /\ Entries(T) \subseteq Entries(U)
      /\ [Local -> T] \subseteq [Local -> U]
  BY DEF Entries
<1>2. ASSUME NEW A, NEW B, A \subseteq B PROVE Seq(A) \subseteq Seq(B)
  BY <1>2
<1>3. FactsIn(T) \subseteq FactsIn(U)
  BY <1>1, <1>2 DEF FactsIn
<1>4. Nows(T) \subseteq Nows(U)
  <2>1. Seq(Entries(T)) \subseteq Seq(Entries(U))
    BY <1>1, <1>2
  <2>. QED
    BY <1>1, <2>1 DEF Nows
<1>5. FormsIn(T) \subseteq FormsIn(U)
  BY <1>3 DEF FormsIn
<1>. QED
  BY <1>2, <1>3, <1>4, <1>5

\* The invariant stands among more types.
LEMMA MoreTypes ==
    ASSUME NEW T, NEW U, T \subseteq U, NEW now, NEW fs, NEW rs, NEW st, NEW free, WalkState(T, now, fs, rs, st, free)
    PROVE  WalkState(U, now, fs, rs, st, free)
BY MoreEntries DEF WalkState, WellTyped

\* `set` keeps the invariant: what branches put back has the value that is assigned.
LEMMA SetState ==
    ASSUME NEW T, NEW now, NEW fs, NEW rs, NEW st, NEW free, WalkState(T, now, fs, rs, st, free),
           NEW x \in Local, NEW value \in Value, NEW w, IsOf(value, w),
           \A env \in Envs : \A mark \in 0 .. Len(now.stack) : \A low :
               Held(env, now, mark, low, free) => IsOf(env[x], w)
    PROVE  WalkState(T \cup {w}, AllOf(now, x, w), MoreAssigned(fs, x), Reassigned(rs, x, value), FALSE, free)
<1>. DEFINE now2 == AllOf(now, x, w)
            fs2 == MoreAssigned(fs, x)
            rs2 == Reassigned(rs, x, value)
            U == T \cup {w}
            L == Lower(now, fs)
<1>1. /\ now \in Nows(T) /\ fs \in Seq(FormsIn(T)) /\ rs \in SUBSET Envs /\ free \in SUBSET Local /\ Len(fs) \in Nat
      /\ Len(now.stack) \in Nat
  BY StateParts
<1>2. now2 \in Nows(U) /\ Len(now2.stack) = Len(now.stack)
  <2>0. now \in Nows(T)
    BY <1>1
  <2>. HIDE DEF fs2, rs2, L, now2
  <2>1. AllOf(now, x, w) \in Nows(T \cup {w}) /\ Len(AllOf(now, x, w).stack) = Len(now.stack)
    BY <2>0, AllOfIs
  <2>. QED
    BY <2>1 DEF now2
<1>3. /\ fs2 \in Seq(FormsIn(T)) /\ Len(fs2) = Len(fs)
      /\ \A i \in 1 .. Len(fs) : SameForm(fs[i], fs2[i]) /\ fs2[i].assigned # {}
  BY <1>1, AssignedForms
<1>4. rs2 \in SUBSET Envs
  BY <1>1 DEF Envs, Reassigned
<1>. HIDE DEF now2, fs2
<1>5. WellTyped(U, now2, fs2, rs2, FALSE, free)
  BY <1>1, <1>2, <1>3, <1>4, MoreEntries DEF WellTyped
<1>6. Lower(now2, fs2) = L
  <2>1. CASE fs = <<>>
    <3>1. Len(fs2) = 0
      BY <1>3, <2>1
    <3>2. fs2 = <<>>
      BY <1>3, <3>1
    <3>. QED
      BY <1>2, <2>1, <3>2 DEF Lower
  <2>2. CASE fs # <<>>
    <3>1. Len(fs) # 0
      BY <1>1, <2>2
    <3>2. fs2 # <<>> /\ 1 \in 1 .. Len(fs)
      BY <1>1, <1>3, <3>1
    <3>. QED
      BY <1>3, <2>2, <3>2 DEF Lower, SameForm
  <2>. QED
    BY <2>1, <2>2
<1>7. ASSUME NEW mark \in 0 .. Len(now.stack), NEW env \in Envs, Held(env, now, mark, L, free)
      PROVE  Held(env, now2, mark, L, free) /\ Held([env EXCEPT ![x] = value], now2, mark, L, free)
  <2>1. IsOf(env[x], w)
    BY <1>7
  <2>2. Held(env, now2, mark, L, free)
    <3>1. \A y \in Local : y # x => env[y] = env[y]
      OBVIOUS
    <3>. QED
      BY <1>1, <1>7, <2>1, <3>1, AllOfHeld DEF now2
  <2>. DEFINE env2 == [env EXCEPT ![x] = value]
  <2>3. env2[x] = value /\ \A y \in Local : y # x => env2[y] = env[y]
    BY DEF Envs
  <2>. HIDE DEF env2
  <2>4. Held(env2, now2, mark, L, free)
    BY <1>1, <1>7, <2>3, AllOfHeld DEF now2
  <2>. QED
    BY <2>2, <2>4 DEF env2
<1>8. ASSUME NEW env \in rs2 PROVE Held(env, now2, Len(now2.stack), L, free)
  <2>1. PICK e \in rs : env = [e EXCEPT ![x] = value]
    BY DEF Reassigned
  <2>2. Held(e, now, Len(now.stack), L, free)
    BY DEF WalkState
  <2>3. Len(now.stack) \in 0 .. Len(now.stack) /\ e \in Envs
    BY <1>1
  <2>. QED
    BY <1>2, <1>7, <2>1, <2>2, <2>3
<1>9. ASSUME NEW i \in 1 .. Len(fs) PROVE FormRight(now2, fs2, rs2, free, i)
  <2>1. /\ FormRight(now, fs, rs, free, i) /\ fs[i].mark \in 0 .. Len(now.stack)
        /\ fs[i].out \in SUBSET Envs /\ fs[i].others \in SUBSET Envs
    BY <1>1, StateParts, FormParts
  <2>2. \A k \in 1 .. i : k \in 1 .. Len(fs)
    BY <1>1
  <2>3. SameForm(fs[i], fs2[i]) /\ fs2[i].assigned # {} /\ \A k \in 1 .. i : fs2[k].mark = fs[k].mark /\ fs2[k].kind = fs[k].kind
    BY <1>3, <2>2 DEF SameForm
  <2>4. fs2[i].mark <= Len(now2.stack) /\ \A k \in 1 .. i : fs2[k].mark <= fs2[i].mark
    BY <1>2, <2>1, <2>3 DEF FormRight, SameForm
  <2>5. \A env \in fs2[i].out \cup fs2[i].others : Held(env, now2, fs2[i].mark, Lower(now2, fs2), free)
    <3>1. \A env \in fs[i].out \cup fs[i].others : env \in Envs /\ Held(env, now, fs[i].mark, L, free)
      BY <2>1 DEF FormRight
    <3>. HIDE DEF L
    <3>. QED
      BY <1>6, <1>7, <2>1, <2>3, <3>1 DEF SameForm
  <2>6. fs2[i].kind = "clause" => i > 1 /\ fs2[i - 1].kind = "cond"
    <3>1. i > 1 => i - 1 \in 1 .. i
      BY <1>1
    <3>. QED
      BY <2>1, <2>3, <3>1 DEF FormRight, SameForm
  <2>7. /\ \A env \in fs2[i].others : Satisfies(env, fs2[i].facts[2])
        /\ fs2[i].kind = "if" => fs2[i].out = {}
        /\ fs2[i].kind = "else" => fs2[i].others = {}
        /\ fs2[i].kind \in {"else", "cond"} /\ fs2[i].nevers => fs2[i].out = {}
    BY <2>1, <2>3 DEF FormRight, SameForm
  <2>. QED
    BY <2>3, <2>4, <2>5, <2>6, <2>7 DEF FormRight
<1>. HIDE DEF rs2
<1>10. WalkState(U, now2, fs2, rs2, FALSE, free)
  BY <1>3, <1>5, <1>6, <1>8, <1>9 DEF WalkState
<1>. QED
  BY <1>10 DEF now2, fs2, rs2

\* `default` keeps the invariant, outside of all forms and of a local that is not assigned.
LEMMA DefaultState ==
    ASSUME NEW T, NEW now, NEW fs, NEW rs, NEW st, NEW free, WalkState(T, now, fs, rs, st, free), fs = <<>>,
           NEW x \in Local, x \notin free,
           NEW facts \in FactsIn(T), Len(facts) <= 1, \A i \in DOMAIN facts : facts[i].local = x,
           NEW rs2 \in SUBSET Envs,
           \A env2 \in rs2 : /\ IsOf(env2[x], Put(now, facts).types[x])
                             /\ \E env \in rs : \A y \in Local : y # x => env2[y] = env[y]
    PROVE  WalkState(T, Put(now, facts), fs, rs2, FALSE, free)
<1>. DEFINE now2 == Put(now, facts)
            len == Len(now.stack)
            len2 == Len(now2.stack)
<1>1. now \in Nows(T) /\ len \in Nat /\ free \in SUBSET Local /\ Len(fs) \in Nat /\ fs \in Seq(FormsIn(T))
  BY StateParts
<1>2. now2 \in Nows(T) /\ len2 \in Nat
  <2>1. now2 \in Nows(T)
    BY <1>1, PutIs
  <2>. QED
    BY <2>1, NowParts
<1>3. /\ \A y \in Local : y # x => now2.types[y] = now.types[y]
      /\ \A y \in Local, i \in 1 .. len2 :
            y # x /\ now2.stack[i].local = y => i \in 1 .. len /\ now2.stack[i] = now.stack[i]
  <2>1. Len(facts) \in Nat /\ DOMAIN facts = 1 .. Len(facts) /\ \A i \in 1 .. Len(facts) : facts[i] \in [local : Local, ty : T]
    BY FactParts
  <2>2. PICK put : PutBy(put, now, facts) /\ now2 = put[Len(facts)]
    BY <2>1, PutSteps
  <2>3. put[0] = now
    BY <2>1, <2>2 DEF PutBy
  <2>4. CASE Len(facts) = 0
    BY <2>2, <2>3, <2>4
  <2>5. CASE Len(facts) = 1
    <3>1. facts[1] \in [local : Local, ty : T] /\ facts[1].local = x
      BY <2>1, <2>5
    <3>2. put[1] = PutOne(put[0], facts[1])
      <4>1. 1 \in 0 .. Len(facts) /\ 1 # 0 /\ 1 - 1 = 0
        BY <2>5
      <4>2. put[1] = IF 1 = 0 THEN now ELSE PutOne(put[1 - 1], facts[1])
        BY <2>2, <4>1, Zenon DEF PutBy
      <4>. QED
        BY <4>1, <4>2
    <3>3. now2 = PutOne(now, facts[1])
      BY <2>2, <2>3, <2>5, <3>2
    <3>4. /\ len2 = len + 1 /\ \A i \in 1 .. len : now2.stack[i] = now.stack[i]
          /\ now2.stack[len + 1].local = x
          /\ \A y \in Local : y # x => now2.types[y] = now.types[y]
      BY <1>1, <3>1, <3>3, PutOneIs
    <3>. HIDE DEF now2, len, len2
    <3>5. \A i \in 1 .. len2 : i \in 1 .. len \/ i = len + 1
      BY <1>1, <3>4
    <3>. QED
      BY <3>4, <3>5
  <2>. QED
    BY <2>1, <2>4, <2>5
<1>. HIDE DEF now2
<1>4. ASSUME NEW env2 \in rs2 PROVE Held(env2, now2, len2, len2, free)
  <2>1. PICK env \in rs : \A y \in Local : y # x => env2[y] = env[y]
    BY DEF now2
  <2>2. Held(env, now, len, Lower(now, fs), free) /\ IsOf(env2[x], now2.types[x])
    BY DEF WalkState, now2
  <2>3. ASSUME NEW y \in Local, NEW i \in Nat PROVE ~FirstOf(now2, len2, y, i)
    BY <1>2 DEF FirstOf
  <2>4. ASSUME NEW y \in Local PROVE IsOf(env2[y], now2.types[y])
    <3>1. CASE y = x
      BY <2>2, <3>1
    <3>2. CASE y # x
      <4>1. IsOf(env[y], now.types[y])
        BY <1>1, <2>2, HeldNow
      <4>. QED
        BY <1>3, <2>1, <3>2, <4>1
    <3>. QED
      BY <3>1, <3>2
  <2>5. ASSUME NEW y \in Local, NEW i \in 1 .. len2, y \in free \/ i > len2, now2.stack[i].local = y
        PROVE  IsOf(env2[y], now2.stack[i].was)
    <3>1. y \in free /\ y # x
      BY <1>2, <2>5
    <3>2. i \in 1 .. len /\ now2.stack[i] = now.stack[i]
      BY <1>3, <2>5, <3>1
    <3>3. IsOf(env[y], now.stack[i].was)
      BY <2>2, <2>5, <3>1, <3>2 DEF Held
    <3>. QED
      BY <2>1, <3>1, <3>2, <3>3
  <2>. HIDE DEF len2
  <2>. QED
    BY <2>3, <2>4, <2>5 DEF Held
<1>5. WellTyped(T, now2, fs, rs2, FALSE, free) /\ Lower(now2, fs) = len2 /\ Len(fs) = 0
  BY <1>1, <1>2 DEF WellTyped, Lower
<1>. HIDE DEF len2
<1>6. WalkState(T, now2, fs, rs2, FALSE, free)
  <2>1. \A env \in rs2 : Held(env, now2, Len(now2.stack), Lower(now2, fs), free)
    BY <1>4, <1>5 DEF len2
  <2>2. \A i \in 1 .. Len(fs) : FALSE
    BY <1>5
  <2>. QED
    BY <1>5, <2>1, <2>2 DEF WalkState
<1>. QED
  BY <1>6 DEF now2

WalkInv == \E T : WalkState(T, Now, forms, reach, stops, mutable)

\* Facts are of some types.
LEMMA FactsTyped ==
    ASSUME NEW facts, AreFacts(facts)
    PROVE  \E T : facts \in FactsIn(T)
<1>. DEFINE T  == {facts[i].ty : i \in DOMAIN facts}
            S  == {[local |-> facts[i].local, ty |-> facts[i].ty] : i \in DOMAIN facts}
            S2 == [local : Local, ty : T]
<1>1. facts \in Seq(S) /\ \A i \in DOMAIN facts : facts[i].local \in Local
  BY DEF AreFacts
<1>2. S \subseteq S2
  BY <1>1
<1>. HIDE DEF S, S2
<1>3. facts \in Seq(S2)
  BY <1>1, <1>2
<1>. QED
  BY <1>3 DEF FactsIn, S2

\* Values there are where the walk stands are of the types the locals have.
LEMMA ReachOfTypes ==
    ASSUME WalkInv, NEW env \in reach
    PROVE  env \in [Local -> Value] /\ OfTypes(env)
<1>1. PICK T : WalkState(T, Now, forms, reach, stops, mutable)
  BY DEF WalkInv
<1>2. Now \in Nows(T) /\ env \in Envs
  BY <1>1, StateParts
<1>3. Held(env, Now, Len(Now.stack), Lower(Now, forms), mutable)
  BY <1>1 DEF WalkState
<1>4. \A x \in Local : IsOf(env[x], Now.types[x])
  BY <1>2, <1>3, HeldNow
<1>5. Now.types = locals
  BY DEF Now
<1>. QED
  BY <1>2, <1>4, <1>5 DEF OfTypes, Envs

\* The sides of a test say what is so of them.
LEMMA SidesThere ==
    ASSUME WalkInv, TypesSound, NEW test \in TestsHere
    PROVE  \E T : /\ WalkState(T, Now, forms, reach, stops, mutable)
                  /\ TestSides(test, Now) \in FactsIn(T) \X FactsIn(T)
                  /\ \A env \in Where(test) : Satisfies(env, TestSides(test, Now)[1])
                  /\ \A env \in WhereNot(test) : Satisfies(env, TestSides(test, Now)[2])
<1>. DEFINE sides == TestSides(test, Now)
<1>1. PICK T : WalkState(T, Now, forms, reach, stops, mutable)
  BY DEF WalkInv
<1>. DEFINE envs == {env \in [Local -> Value] : OfTypes(env)}
<1>2. SidesHold(test, envs)
  BY DEF TypesSound
<1>3. reach \subseteq envs
  BY ReachOfTypes
<1>. HIDE DEF envs
<1>4. /\ sides = <<sides[1], sides[2]>> /\ AreFacts(sides[1]) /\ AreFacts(sides[2])
      /\ \A env \in envs : Satisfies(env, sides[IF Passes(test, env) THEN 1 ELSE 2])
  BY <1>2 DEF SidesHold
<1>5. PICK U : sides[1] \in FactsIn(U)
  BY <1>4, FactsTyped
<1>6. PICK V : sides[2] \in FactsIn(V)
  BY <1>4, FactsTyped
<1>. DEFINE All == T \cup U \cup V
<1>7. T \subseteq All /\ U \subseteq All /\ V \subseteq All
  OBVIOUS
<1>. HIDE DEF All
<1>8. WalkState(All, Now, forms, reach, stops, mutable)
  BY <1>1, <1>7, MoreTypes
<1>9. sides[1] \in FactsIn(All) /\ sides[2] \in FactsIn(All)
  BY <1>5, <1>6, <1>7, MoreEntries
<1>. HIDE DEF sides
<1>10. sides \in FactsIn(All) \X FactsIn(All)
  BY <1>4, <1>9
<1>11. /\ \A env \in Where(test) : Satisfies(env, sides[1])
       /\ \A env \in WhereNot(test) : Satisfies(env, sides[2])
  BY <1>3, <1>4 DEF Where, WhereNot
<1>. QED
  BY <1>8, <1>10, <1>11 DEF sides

\* What is put in place is what is so next.
LEMMA NowNext ==
    ASSUME NEW T, NEW now \in Nows(T), InPlace(now)
    PROVE  Now' = now
BY DEF Nows, InPlace, Now

\* A form with parts begins.
LEMMA BranchStep ==
    ASSUME WalkInv, TypesSound, UNCHANGED mutable, NEW test \in TestsHere,
           NEW kind \in {"if", "when", "clause"}, kind = "clause" => forms # <<>> /\ Form.kind = "cond",
           Branch(kind, TestSides(test, Now), test)
    PROVE  WalkInv'
<1>. DEFINE facts == TestSides(test, Now)
            now2 == Put(Now, facts[1])
            form == [kind |-> kind, mark |-> Len(narrowed), facts |-> facts, others |-> WhereNot(test),
                     out |-> {}, nevers |-> TRUE, assigned |-> {}]
<1>1. PICK T : /\ WalkState(T, Now, forms, reach, stops, mutable)
               /\ facts \in FactsIn(T) \X FactsIn(T)
               /\ \A env \in Where(test) : Satisfies(env, facts[1])
               /\ \A env \in WhereNot(test) : Satisfies(env, facts[2])
  BY SidesThere
<1>2. /\ forms' = Append(forms, form) /\ stops' = FALSE /\ reach' = Where(test) /\ InPlace(now2)
  BY DEF Branch, Begins
<1>. HIDE DEF facts
<1>3. Now \in Nows(T) /\ reach \in SUBSET Envs /\ Len(Now.stack) \in Nat /\ Lower(Now, forms) \in Nat
  BY <1>1, StateParts
<1>4. facts[1] \in FactsIn(T)
  BY <1>1
<1>5. /\ now2 \in Nows(T) /\ Len(now2.stack) = Len(Now.stack) + Len(facts[1]) /\ AsBefore(Now, now2, Len(Now.stack))
      /\ \A env : Held(env, Now, Len(Now.stack), Lower(Now, forms), mutable) /\ Satisfies(env, facts[1]) =>
            Held(env, now2, Len(now2.stack), Lower(Now, forms), mutable)
  BY <1>3, <1>4, PutIs
<1>6. Len(Now.stack) <= Len(now2.stack)
  <2>1. Len(facts[1]) \in Nat
    BY <1>4, FactParts
  <2>. DEFINE a == Len(Now.stack)
              b == Len(now2.stack)
              c == Len(facts[1])
  <2>2. a \in Nat /\ b = a + c /\ c \in Nat
    BY <1>3, <1>5, <2>1
  <2>. HIDE DEF a, b, c
  <2>3. a <= b
    BY <2>2
  <2>. QED
    BY <2>3 DEF a, b
<1>7. Where(test) \subseteq reach /\ WhereNot(test) \subseteq reach
  BY DEF Where, WhereNot
<1>8. form \in FormsIn(T)
  <2>1. Len(narrowed) \in Nat
    BY <1>3 DEF Now
  <2>. QED
    BY <1>1, <1>3, <1>7, <2>1 DEF FormsIn, Kinds
<1>9. \A env \in Where(test) : Held(env, now2, Len(now2.stack), Lower(Now, forms), mutable)
  <2>1. \A env \in reach : Held(env, Now, Len(Now.stack), Lower(Now, forms), mutable)
    BY <1>1 DEF WalkState
  <2>. QED
    BY <1>1, <1>5, <1>7, <2>1
<1>10. /\ form.kind = kind /\ form.mark = Len(Now.stack) /\ form.out = {} /\ form.others = WhereNot(test) /\ form.facts = facts
  BY DEF Now
<1>11. kind = "clause" => forms # <<>> /\ forms[Len(forms)].kind = "cond"
  BY DEF Form, Last
<1>12. Now' = now2
  BY <1>2, <1>5, NowNext
<1>. HIDE DEF form, now2
<1>13. WalkState(T, now2, Append(forms, form), Where(test), FALSE, mutable)
  <2>1. form.kind # "else"
    BY <1>10
  <2>. QED
    BY <1>1, <1>5, <1>6, <1>7, <1>8, <1>9, <1>10, <1>11, <2>1, PushState
<1>. QED
  BY <1>2, <1>12, <1>13 DEF WalkInv

\* A form with parts begins, and nothing else changes.
LEMMA BeginsStep ==
    ASSUME WalkInv, UNCHANGED mutable, NEW kind \in {"cond", "and", "or"}, Begins(kind, <<<<>>, <<>>>>, {}),
           UNCHANGED <<locals, narrowed, reach>>
    PROVE  WalkInv'
<1>. DEFINE form == [kind |-> kind, mark |-> Len(narrowed), facts |-> <<<<>>, <<>>>>, others |-> {},
                     out |-> {}, nevers |-> TRUE, assigned |-> {}]
<1>1. PICK T : WalkState(T, Now, forms, reach, stops, mutable)
  BY DEF WalkInv
<1>2. forms' = Append(forms, form) /\ stops' = FALSE /\ reach' = reach /\ Now' = Now
  BY DEF Begins, Now
<1>3. Now \in Nows(T) /\ Len(Now.stack) \in Nat /\ Len(Now.stack) <= Len(Now.stack)
  <2>1. Now \in Nows(T) /\ Len(Now.stack) \in Nat
    BY <1>1, StateParts
  <2>. QED
    BY <2>1
<1>4. form \in FormsIn(T)
  <2>1. Len(narrowed) \in Nat
    BY <1>3 DEF Now
  <2>2. <<>> \in FactsIn(T)
    BY DEF FactsIn
  <2>. QED
    BY <2>1, <2>2 DEF FormsIn, Kinds
<1>5. form.kind \notin {"else", "clause", "if"} /\ form.mark = Len(Now.stack) /\ form.out = {} /\ form.others = {}
  BY DEF Now
<1>6. \A env \in reach : Held(env, Now, Len(Now.stack), Lower(Now, forms), mutable)
  BY <1>1 DEF WalkState
<1>. HIDE DEF form
<1>7. WalkState(T, Now, Append(forms, form), reach, FALSE, mutable)
  BY <1>1, <1>3, <1>4, <1>5, <1>6, AsBeforeSelf, PushState
<1>. QED
  BY <1>2, <1>7 DEF WalkInv

\* The walk goes from one branch of an `if` to the other.
LEMMA ElseStep ==
    ASSUME WalkInv, UNCHANGED mutable, Else
    PROVE  WalkInv'
<1>. DEFINE old == forms[Len(forms)]
            top == [old EXCEPT !.kind = "else", !.out = reach, !.others = {}, !.nevers = stops]
            now2 == Put(Restored(Now, old.mark), old.facts[2])
<1>1. PICK T : WalkState(T, Now, forms, reach, stops, mutable)
  BY DEF WalkInv
<1>2. /\ forms # <<>> /\ old.kind = "if" /\ InPlace(now2)
      /\ forms' = [forms EXCEPT ![Len(forms)] = top] /\ reach' = old.others /\ stops' = FALSE
  BY DEF Else, Form, Last, Within
<1>3. Now \in Nows(T) /\ reach \in SUBSET Envs /\ stops \in BOOLEAN /\ Lower(Now, forms) \in Nat /\ forms \in Seq(FormsIn(T))
  BY <1>1, StateParts
<1>4. Len(forms) \in 1 .. Len(forms) /\ old.mark \in 0 .. Len(Now.stack)
  BY <1>1, <1>2, LastForm
<1>5. /\ old \in FormsIn(T) /\ old.facts[2] \in FactsIn(T) /\ old.others \in SUBSET Envs
      /\ FormRight(Now, forms, reach, mutable, Len(forms))
  BY <1>1, <1>3, <1>4, FormParts, StateParts
<1>6. top \in FormsIn(T)
  BY <1>3, <1>5 DEF FormsIn, Kinds
<1>7. /\ top.kind = "else" /\ top.mark = old.mark /\ top.facts = old.facts /\ top.out = reach /\ top.others = {}
      /\ top.nevers = stops /\ top.assigned = old.assigned
  BY <1>5 DEF FormsIn
<1>8. stops => reach = {}
  BY <1>1 DEF WalkState
<1>9. /\ \A env \in old.others : Satisfies(env, old.facts[2])
      /\ old.assigned = {} => \A env \in reach : Satisfies(env, old.facts[1])
  BY <1>2, <1>5 DEF FormRight, Inside, SideOf
<1>. HIDE DEF top
<1>10. /\ now2 \in Nows(T) /\ old.mark <= Len(now2.stack) /\ AsBefore(Now, now2, old.mark)
       /\ \A env, free : \A low \in Nat :
            Held(env, Now, old.mark, low, free) /\ Satisfies(env, old.facts[2]) => Held(env, now2, Len(now2.stack), low, free)
  <2>. DEFINE mark == old.mark
              facts == old.facts[2]
  <2>1. mark \in 0 .. Len(Now.stack) /\ facts \in FactsIn(T)
    BY <1>4, <1>5
  <2>. HIDE DEF mark, facts
  <2>. QED
    BY <1>3, <2>1, RestoredPut DEF mark, facts
<1>11. Now' = now2
  BY <1>2, <1>10, NowNext
<1>12. \A env \in old.others : Held(env, now2, Len(now2.stack), Lower(Now, forms), mutable)
  <2>1. \A env \in old.others : Held(env, Now, old.mark, Lower(Now, forms), mutable)
    BY <1>5 DEF FormRight
  <2>. QED
    BY <1>3, <1>9, <1>10, <2>1
<1>. HIDE DEF now2, old
<1>13. WalkState(T, now2, [forms EXCEPT ![Len(forms)] = top], old.others, FALSE, mutable)
  BY <1>1, <1>2, <1>6, <1>7, <1>8, <1>9, <1>10, <1>12, TopState DEF old
<1>. QED
  BY <1>2, <1>11, <1>13 DEF WalkInv

\* An `and` or an `or` goes on to its next test.
LEMMA ArgumentStep ==
    ASSUME WalkInv, TypesSound, UNCHANGED mutable, NEW test \in Test, Argument(test)
    PROVE  WalkInv'
<1>. DEFINE old == forms[Len(forms)]
            and == old.kind = "and"
            facts == TestSides(test, Now)[IF and THEN 1 ELSE 2]
            rs2 == IF and THEN Where(test) ELSE WhereNot(test)
            rest == IF and THEN WhereNot(test) ELSE Where(test)
            top == [old EXCEPT !.out = @ \cup rest]
            now2 == Put(Now, facts)
<1>1. PICK T : /\ WalkState(T, Now, forms, reach, stops, mutable)
               /\ TestSides(test, Now) \in FactsIn(T) \X FactsIn(T)
               /\ \A env \in Where(test) : Satisfies(env, TestSides(test, Now)[1])
               /\ \A env \in WhereNot(test) : Satisfies(env, TestSides(test, Now)[2])
  <2>1. test \in TestsHere
    BY DEF TestsHere
  <2>. QED
    BY <2>1, SidesThere
<1>2. /\ forms # <<>> /\ old.kind \in {"and", "or"} /\ InPlace(now2)
      /\ forms' = [forms EXCEPT ![Len(forms)] = top] /\ reach' = rs2 /\ stops' = stops
  BY DEF Argument, Form, Last, Within
<1>3. Now \in Nows(T) /\ reach \in SUBSET Envs /\ stops \in BOOLEAN /\ Lower(Now, forms) \in Nat /\ forms \in Seq(FormsIn(T))
      /\ Len(Now.stack) \in Nat
  BY <1>1, StateParts
<1>4. Len(forms) \in 1 .. Len(forms) /\ old.mark \in 0 .. Len(Now.stack)
  BY <1>1, <1>2, LastForm
<1>5. old \in FormsIn(T) /\ old.out \in SUBSET Envs
  BY <1>3, <1>4, FormParts
<1>6. facts \in FactsIn(T) /\ \A env \in rs2 : Satisfies(env, facts)
  BY <1>1
<1>7. rs2 \subseteq reach /\ rest \subseteq reach
  BY DEF Where, WhereNot
<1>. HIDE DEF facts, rs2, rest
<1>8. top \in FormsIn(T)
  BY <1>3, <1>5, <1>7 DEF FormsIn
<1>9. /\ top.kind = old.kind /\ top.mark = old.mark /\ top.facts = old.facts /\ top.out = old.out \cup rest
      /\ top.others = old.others
  BY <1>5 DEF FormsIn
<1>10. stops => reach = {}
  BY <1>1 DEF WalkState
<1>11. /\ now2 \in Nows(T) /\ Len(now2.stack) = Len(Now.stack) + Len(facts) /\ AsBefore(Now, now2, Len(Now.stack))
       /\ \A env : Held(env, Now, Len(Now.stack), Lower(Now, forms), mutable) /\ Satisfies(env, facts) =>
             Held(env, now2, Len(now2.stack), Lower(Now, forms), mutable)
  BY <1>3, <1>6, PutIs
<1>. HIDE DEF now2
<1>12. old.mark <= Len(now2.stack) /\ old.mark \in Nat /\ old.mark <= Len(Now.stack)
  <2>1. Len(facts) \in Nat
    BY <1>6, FactParts
  <2>2. old.mark \in Nat /\ old.mark <= Len(Now.stack)
    BY <1>3, <1>4
  <2>. HIDE DEF old
  <2>. QED
    BY <1>3, <1>11, <2>1, <2>2
<1>13. AsBefore(Now, now2, old.mark)
  BY <1>3, <1>11, <1>12, AsBeforeLess
<1>14. \A env \in rs2 : Held(env, now2, Len(now2.stack), Lower(Now, forms), mutable)
  <2>1. \A env \in reach : Held(env, Now, Len(Now.stack), Lower(Now, forms), mutable)
    BY <1>1 DEF WalkState
  <2>. QED
    BY <1>6, <1>7, <1>11, <2>1
<1>15. Now' = now2
  BY <1>2, <1>11, NowNext
<1>. HIDE DEF top, old
<1>16. WalkState(T, now2, [forms EXCEPT ![Len(forms)] = top], rs2, stops, mutable)
  <2>1. top.mark = forms[Len(forms)].mark /\ top.facts = forms[Len(forms)].facts
        /\ top.others \subseteq forms[Len(forms)].others
    BY <1>9 DEF old
  <2>2. top.out \subseteq reach \cup forms[Len(forms)].out \cup forms[Len(forms)].others
    BY <1>7, <1>9 DEF old
  <2>3. top.kind \notin {"if", "clause", "else", "cond"}
    BY <1>2, <1>9
  <2>4. top.mark <= Len(now2.stack) /\ AsBefore(Now, now2, top.mark)
    BY <1>9, <1>12, <1>13
  <2>5. rs2 \in SUBSET (reach \cup forms[Len(forms)].others) /\ (stops => rs2 = {})
    BY <1>7, <1>10
  <2>6. WalkState(T, Now, forms, reach, stops, mutable) /\ forms # <<>> /\ stops \in BOOLEAN /\ now2 \in Nows(T)
    BY <1>1, <1>2, <1>3, <1>11
  <2>7. /\ top.kind = "else" => top.others = {}
        /\ top.kind \in {"else", "cond"} /\ top.nevers => top.out = {}
        /\ top.kind = "else" /\ top.assigned = {} =>
              /\ \A env \in rs2 : Satisfies(env, top.facts[2])
              /\ \A env \in top.out : Satisfies(env, top.facts[1])
    BY <2>3
  <2>8. top.kind \notin {"if", "clause"}
    BY <2>3
  <2>9. WalkState(T, now2, [forms EXCEPT ![Len(forms)] = top], rs2, FALSE, mutable)
    BY <1>8, <1>14, <2>1, <2>2, <2>4, <2>5, <2>6, <2>7, <2>8, TopState
  <2>10. ASSUME stops PROVE WalkState(T, now2, [forms EXCEPT ![Len(forms)] = top], rs2, TRUE, mutable)
    <3>1. rs2 = {} /\ TRUE \in BOOLEAN
      BY <2>5, <2>10
    <3>. QED
      BY <1>8, <1>14, <2>1, <2>2, <2>4, <2>5, <2>6, <2>7, <2>8, <3>1, TopState
  <2>. DEFINE forms2 == [forms EXCEPT ![Len(forms)] = top]
  <2>. HIDE DEF forms2
  <2>11. WalkState(T, now2, forms2, rs2, stops, mutable)
    <3>1. CASE stops = TRUE
      BY <2>10, <3>1 DEF forms2
    <3>2. CASE stops = FALSE
      BY <2>9, <3>2 DEF forms2
    <3>. QED
      BY <2>6, <3>1, <3>2
  <2>. QED
    BY <2>11 DEF forms2
<1>. QED
  BY <1>2, <1>15, <1>16 DEF WalkInv

\* A form ends.
LEMMA EndsStep ==
    ASSUME UNCHANGED mutable, forms # <<>>, NEW T, WalkState(T, Now, forms, reach, stops, mutable),
           NEW stays \in FactsIn(T), NEW out \in SUBSET (reach \cup Form.out \cup Form.others),
           \A env \in out : Satisfies(env, stays),
           NEW never \in BOOLEAN, never => out = {},
           Ends(Put(Restored(Now, Form.mark), stays), out, ~never)
    PROVE  WalkInv'
<1>. DEFINE old == forms[Len(forms)]
            now2 == Put(Restored(Now, old.mark), stays)
<1>1. Now \in Nows(T) /\ forms \in Seq(FormsIn(T)) /\ Form = old
  BY StateParts DEF Form, Last
<1>2. /\ InPlace(now2) /\ reach' = out /\ stops' = never
      /\ forms' = [i \in 1 .. Len(forms) - 1 |-> [forms[i] EXCEPT !.assigned = @ \cup old.assigned]]
  BY <1>1 DEF Ends
<1>3. forms' = Ended(forms)
  BY <1>2 DEF Ended
<1>4. /\ Ended(forms) \in Seq(FormsIn(T)) /\ Len(Ended(forms)) = Len(forms) - 1
      /\ \A k \in 1 .. Len(Ended(forms)) : SameForm(forms[k], Ended(forms)[k])
  BY <1>1, EndedForms
<1>5. out \in SUBSET (reach \cup old.out \cup old.others)
  BY <1>1
<1>6. now2 \in Nows(T)
  <2>1. old.mark \in 0 .. Len(Now.stack)
    BY LastForm
  <2>. QED
    BY <1>1, <2>1, RestoredPut
<1>7. Now' = now2
  BY <1>2, <1>6, NowNext
<1>8. CASE never = TRUE
  <2>1. WalkState(T, now2, Ended(forms), out, TRUE, mutable)
    <3>1. out = {} /\ TRUE \in BOOLEAN
      BY <1>8
    <3>. QED
      BY <1>4, <1>5, <3>1, EndState
  <2>. QED
    BY <1>2, <1>3, <1>7, <1>8, <2>1 DEF WalkInv
<1>9. CASE never = FALSE
  <2>1. WalkState(T, now2, Ended(forms), out, FALSE, mutable)
    BY <1>4, <1>5, EndState
  <2>. QED
    BY <1>2, <1>3, <1>7, <1>9, <2>1 DEF WalkInv
<1>. QED
  BY <1>8, <1>9

\* What is known of the form the walk is in.
LEMMA FormKnown ==
    ASSUME NEW T, WalkState(T, Now, forms, reach, stops, mutable), forms # <<>>
    PROVE  /\ Form = forms[Len(forms)] /\ Form.facts[1] \in FactsIn(T) /\ Form.facts[2] \in FactsIn(T)
           /\ Form.nevers \in BOOLEAN /\ stops \in BOOLEAN /\ (stops => reach = {})
           /\ \A env \in Form.others : Satisfies(env, Form.facts[2])
           /\ Form.kind = "if" => Form.out = {}
           /\ Form.kind = "else" => Form.others = {}
           /\ Form.kind \in {"else", "cond"} /\ Form.nevers => Form.out = {}
           /\ Form.kind = "else" /\ Form.assigned = {} =>
                /\ \A env \in reach : Satisfies(env, Form.facts[2])
                /\ \A env \in Form.out : Satisfies(env, Form.facts[1])
<1>1. Form = forms[Len(forms)] /\ Len(forms) \in 1 .. Len(forms)
  BY LastForm DEF Form
<1>2. forms \in Seq(FormsIn(T)) /\ FormRight(Now, forms, reach, mutable, Len(forms)) /\ stops \in BOOLEAN
  BY <1>1, StateParts
<1>3. Form.facts[1] \in FactsIn(T) /\ Form.facts[2] \in FactsIn(T) /\ Form.nevers \in BOOLEAN
  BY <1>1, <1>2, FormParts
<1>4. stops => reach = {}
  BY DEF WalkState
<1>5. /\ \A env \in Form.others : Satisfies(env, Form.facts[2])
      /\ Form.kind = "if" => Form.out = {}
      /\ Form.kind = "else" => Form.others = {}
      /\ Form.kind \in {"else", "cond"} /\ Form.nevers => Form.out = {}
  BY <1>1, <1>2 DEF FormRight
<1>6. Form.kind = "else" /\ Form.assigned = {} =>
        /\ \A env \in reach : Satisfies(env, Form.facts[2])
        /\ \A env \in Form.out : Satisfies(env, Form.facts[1])
  BY <1>1, <1>2 DEF FormRight, Inside, SideOf
<1>. QED
  BY <1>1, <1>2, <1>3, <1>4, <1>5, <1>6

\* No facts are true of everything.
LEMMA NoFacts ==
    ASSUME NEW T
    PROVE  <<>> \in FactsIn(T) /\ \A env : Satisfies(env, <<>>)
BY DEF FactsIn, Satisfies

\* An `if` ends: what its branch ran under stays where the other one never returns.
LEMMA EndIfStep ==
    ASSUME WalkInv, ~Overwriting, UNCHANGED mutable, EndIf
    PROVE  WalkInv'
<1>. DEFINE then == IF Form.kind = "if" THEN stops ELSE Form.nevers
            other == Form.kind = "else" /\ stops
            stays == IF then = other THEN <<>> ELSE Form.facts[IF then THEN 2 ELSE 1]
            out == Form.out \cup reach \cup Form.others
            never == then /\ other
<1>1. PICK T : WalkState(T, Now, forms, reach, stops, mutable)
  BY DEF WalkInv
<1>2. /\ forms # <<>> /\ Form.kind \in {"if", "else"} /\ (Form.kind = "if" \/ Form.assigned = {} \/ stays = <<>>)
      /\ Ends(Put(Restored(Now, Form.mark), stays), out, ~never)
  BY DEF EndIf
<1>3. /\ Form.facts[1] \in FactsIn(T) /\ Form.facts[2] \in FactsIn(T)
      /\ Form.nevers \in BOOLEAN /\ stops \in BOOLEAN /\ (stops => reach = {})
      /\ \A env \in Form.others : Satisfies(env, Form.facts[2])
      /\ Form.kind = "if" => Form.out = {}
      /\ Form.kind = "else" => Form.others = {}
      /\ Form.kind = "else" /\ Form.nevers => Form.out = {}
      /\ Form.kind = "else" /\ Form.assigned = {} =>
           /\ \A env \in reach : Satisfies(env, Form.facts[2])
           /\ \A env \in Form.out : Satisfies(env, Form.facts[1])
  BY <1>1, <1>2, FormKnown
<1>4. <<>> \in FactsIn(T) /\ \A env : Satisfies(env, <<>>)
  BY NoFacts
<1>5. then \in BOOLEAN /\ other \in BOOLEAN /\ never \in BOOLEAN
  BY <1>3
<1>6. never => out = {}
  BY <1>2, <1>3
<1>7. stays \in FactsIn(T) /\ \A env \in out : Satisfies(env, stays)
  <2>1. CASE stays = <<>>
    BY <1>4, <2>1
  <2>2. CASE Form.kind = "if" /\ stays # <<>>
    <3>1. other = FALSE /\ then = stops
      BY <2>2
    <3>2. stops = TRUE
      BY <1>3, <2>2, <3>1
    <3>3. stays = Form.facts[2]
      BY <2>2, <3>1, <3>2
    <3>4. out = Form.others
      BY <1>3, <2>2, <3>2
    <3>. QED
      BY <1>3, <3>3, <3>4
  <2>3. CASE Form.kind = "else" /\ stays # <<>> /\ then
    <3>1. stays = Form.facts[2] /\ Form.nevers /\ Form.assigned = {}
      BY <1>2, <2>3
    <3>2. out = reach
      BY <1>3, <2>3, <3>1
    <3>. QED
      BY <1>3, <2>3, <3>1, <3>2
  <2>4. CASE Form.kind = "else" /\ stays # <<>> /\ ~then
    <3>1. other
      BY <1>5, <2>4
    <3>2. stays = Form.facts[1] /\ stops /\ Form.assigned = {}
      BY <1>2, <2>4, <3>1
    <3>3. out = Form.out
      BY <1>3, <2>4, <3>2
    <3>. QED
      BY <1>3, <2>4, <3>2, <3>3
  <2>. QED
    BY <1>2, <2>1, <2>2, <2>3, <2>4
<1>8. out \in SUBSET (reach \cup Form.out \cup Form.others)
  OBVIOUS
<1>. HIDE DEF stays, out, then, other
<1>9. CASE never
  <2>1. Ends(Put(Restored(Now, Form.mark), stays), out, ~TRUE)
    BY <1>2, <1>9
  <2>. QED
    BY <1>1, <1>2, <1>6, <1>7, <1>8, <1>9, <2>1, EndsStep
<1>10. CASE ~never
  <2>1. Ends(Put(Restored(Now, Form.mark), stays), out, ~FALSE)
    BY <1>2, <1>10
  <2>. QED
    BY <1>1, <1>2, <1>7, <1>8, <2>1, EndsStep
<1>. QED
  BY <1>9, <1>10

\* A `when` ends.
LEMMA EndWhenStep ==
    ASSUME WalkInv, UNCHANGED mutable, EndWhen
    PROVE  WalkInv'
<1>. DEFINE stays == IF stops THEN Form.facts[2] ELSE <<>>
            out == reach \cup Form.others
<1>1. PICK T : WalkState(T, Now, forms, reach, stops, mutable)
  BY DEF WalkInv
<1>2. forms # <<>> /\ Ends(Put(Restored(Now, Form.mark), stays), out, ~FALSE)
  BY DEF EndWhen
<1>3. /\ Form.facts[2] \in FactsIn(T) /\ (stops => reach = {})
      /\ \A env \in Form.others : Satisfies(env, Form.facts[2])
  BY <1>1, <1>2, FormKnown
<1>4. <<>> \in FactsIn(T) /\ \A env : Satisfies(env, <<>>)
  BY NoFacts
<1>5. stays \in FactsIn(T) /\ \A env \in out : Satisfies(env, stays)
  BY <1>3, <1>4
<1>6. out \in SUBSET (reach \cup Form.out \cup Form.others)
  OBVIOUS
<1>. HIDE DEF stays, out
<1>. QED
  BY <1>1, <1>2, <1>5, <1>6, EndsStep

\* The last clause of a `cond` ends.
LEMMA EndCondStep ==
    ASSUME WalkInv, UNCHANGED mutable, EndCond
    PROVE  WalkInv'
<1>. DEFINE out == Form.out \cup reach
            never == Form.nevers /\ stops
<1>1. PICK T : WalkState(T, Now, forms, reach, stops, mutable)
  BY DEF WalkInv
<1>2. forms # <<>> /\ Form.kind = "cond" /\ Ends(Put(Restored(Now, Form.mark), <<>>), out, ~never)
  BY PutNothing DEF EndCond
<1>3. <<>> \in FactsIn(T) /\ \A env \in out : Satisfies(env, <<>>)
  BY NoFacts
<1>4. never => out = {}
  BY <1>1, <1>2, FormKnown
<1>5. out \in SUBSET (reach \cup Form.out \cup Form.others)
  OBVIOUS
<1>. HIDE DEF out
<1>6. CASE never
  <2>1. Ends(Put(Restored(Now, Form.mark), <<>>), out, ~TRUE)
    BY <1>2, <1>6
  <2>. QED
    BY <1>1, <1>2, <1>3, <1>4, <1>5, <1>6, <2>1, EndsStep
<1>7. CASE ~never
  <2>1. Ends(Put(Restored(Now, Form.mark), <<>>), out, ~FALSE)
    BY <1>2, <1>7
  <2>. QED
    BY <1>1, <1>2, <1>3, <1>5, <2>1, EndsStep
<1>. QED
  BY <1>6, <1>7

\* An `and` or an `or` ends.
LEMMA EndChainStep ==
    ASSUME WalkInv, UNCHANGED mutable, EndChain
    PROVE  WalkInv'
<1>. DEFINE out == Form.out \cup reach
<1>1. PICK T : WalkState(T, Now, forms, reach, stops, mutable)
  BY DEF WalkInv
<1>2. forms # <<>> /\ Ends(Put(Restored(Now, Form.mark), <<>>), out, ~FALSE)
  BY PutNothing DEF EndChain
<1>3. <<>> \in FactsIn(T) /\ \A env \in out : Satisfies(env, <<>>)
  BY NoFacts
<1>5. out \in SUBSET (reach \cup Form.out \cup Form.others)
  OBVIOUS
<1>. HIDE DEF out
<1>. QED
  BY <1>1, <1>2, <1>3, <1>5, EndsStep

\* The last of some entries is another one.
LEMMA FrontLast ==
    ASSUME NEW S, NEW s \in Seq(S), NEW t \in S, NEW n \in Nat, n # 0, n <= Len(s)
    PROVE  [SubSeq(s, 1, n) EXCEPT ![n] = t] = Append(SubSeq(s, 1, n - 1), t)
<1>. DEFINE a == SubSeq(s, 1, n)
            b == SubSeq(s, 1, n - 1)
<1>1. n - 1 \in Nat /\ n - 1 <= Len(s) /\ (n - 1) + 1 = n /\ Len(s) \in Nat
  OBVIOUS
<1>2. a \in Seq(S) /\ Len(a) = n /\ \A i \in 1 .. n : a[i] = s[i]
  BY <1>1
<1>3. b \in Seq(S) /\ Len(b) = n - 1 /\ \A i \in 1 .. n - 1 : b[i] = s[i]
  BY <1>1
<1>. HIDE DEF a, b
<1>4. [a EXCEPT ![n] = t] = [i \in 1 .. n |-> IF i = n THEN t ELSE s[i]]
  <2>1. a = [i \in 1 .. n |-> s[i]]
    BY <1>2
  <2>. HIDE DEF a
  <2>. QED
    BY <2>1
<1>5. Append(b, t) = [i \in 1 .. n |-> IF i = n THEN t ELSE s[i]]
  <2>. DEFINE c == Append(b, t)
  <2>1. c \in Seq(S) /\ Len(c) = n /\ c[n] = t /\ \A i \in 1 .. n - 1 : c[i] = b[i]
    BY <1>1, <1>3
  <2>. HIDE DEF c
  <2>2. \A i \in 1 .. n : i = n \/ i \in 1 .. n - 1
    BY <1>1
  <2>3. c = [i \in 1 .. n |-> c[i]]
    BY <2>1
  <2>4. \A i \in 1 .. n : c[i] = IF i = n THEN t ELSE s[i]
    BY <1>3, <2>1, <2>2
  <2>. QED
    BY <2>3, <2>4 DEF c
<1>. QED
  BY <1>4, <1>5 DEF a, b

\* A clause ends, and the `cond` it is of is the form the walk is in again.
LEMMA EndClauseStep ==
    ASSUME WalkInv, UNCHANGED mutable, EndClause
    PROVE  WalkInv'
<1>. DEFINE old == forms[Len(forms)]
            cond == forms[Len(forms) - 1]
            top == [cond EXCEPT !.out = @ \cup reach, !.nevers = @ /\ stops, !.assigned = @ \cup old.assigned]
            facts == old.facts[2]
            back == Put(Restored(Now, old.mark), <<>>)
            now2 == Put(back, facts)
            front == SubSeq(forms, 1, Len(forms) - 1)
            len == Len(forms) - 1
<1>1. PICK T : WalkState(T, Now, forms, reach, stops, mutable)
  BY DEF WalkInv
<1>2. /\ forms # <<>> /\ old.kind = "clause" /\ InPlace(now2) /\ reach' = old.others /\ stops' = FALSE
      /\ forms' = Append(SubSeq(forms, 1, Len(forms) - 2), top)
  BY PutNothing DEF EndClause, Form, Last
<1>3. /\ Now \in Nows(T) /\ forms \in Seq(FormsIn(T)) /\ reach \in SUBSET Envs /\ stops \in BOOLEAN
      /\ Lower(Now, forms) \in Nat /\ Len(forms) \in Nat /\ (stops => reach = {})
  BY <1>1, StateParts DEF WalkState
<1>4. Len(forms) \in 1 .. Len(forms) /\ old.mark \in 0 .. Len(Now.stack) /\ old.mark \in Nat
  BY <1>1, <1>2, LastForm
<1>5. Len(forms) > 1 /\ cond.kind = "cond" /\ \A env \in old.others : Satisfies(env, facts)
  BY <1>1, <1>2, <1>4, StateParts DEF FormRight
<1>6. len \in 1 .. Len(forms) /\ len \in Nat /\ len # 0 /\ len \in 1 .. len /\ Len(forms) = len + 1
  <2>. DEFINE n == Len(forms)
  <2>1. n \in Nat /\ n > 1
    BY <1>3, <1>5
  <2>. HIDE DEF n
  <2>2. n - 1 \in 1 .. n /\ n - 1 \in Nat /\ n - 1 # 0 /\ n - 1 \in 1 .. n - 1 /\ n = (n - 1) + 1
    BY <2>1
  <2>. QED
    BY <2>2 DEF n
<1>7. /\ cond \in FormsIn(T) /\ facts \in FactsIn(T) /\ old.others \in SUBSET Envs /\ old.assigned \in SUBSET Local
      /\ cond.nevers \in BOOLEAN /\ FormRight(Now, forms, reach, mutable, len) /\ cond.mark \in Nat
      /\ cond.out \in SUBSET Envs /\ cond.others \in SUBSET Envs
  BY <1>1, <1>3, <1>4, <1>6, FormParts, StateParts, SMTT(30)
<1>8. cond.mark <= old.mark
  BY <1>1, <1>2, <1>6, LastForm
<1>9. top \in FormsIn(T)
  BY <1>3, <1>7 DEF FormsIn
<1>10. /\ top.kind = "cond" /\ top.mark = cond.mark /\ top.facts = cond.facts /\ top.out = cond.out \cup reach
       /\ top.others = cond.others /\ top.nevers = (cond.nevers /\ stops)
  BY <1>5, <1>7 DEF FormsIn
<1>11. top.nevers => top.out = {}
  <2>1. cond.nevers => cond.out = {}
    BY <1>5, <1>7 DEF FormRight
  <2>. HIDE DEF top, cond
  <2>. QED
    BY <1>3, <1>10, <2>1
<1>12. /\ front \in Seq(FormsIn(T)) /\ Len(front) = len /\ \A k \in 1 .. len : front[k] = forms[k] /\ SameForm(forms[k], front[k])
       /\ [front EXCEPT ![len] = top] = Append(SubSeq(forms, 1, Len(forms) - 2), top)
  <2>. DEFINE S == FormsIn(T)
  <2>1. forms \in Seq(S) /\ top \in S
    BY <1>3, <1>9
  <2>. HIDE DEF S, top, len
  <2>2. front \in Seq(S) /\ Len(front) = len /\ \A k \in 1 .. len : front[k] = forms[k]
    BY <1>6, <2>1 DEF len
  <2>3. [front EXCEPT ![len] = top] = Append(SubSeq(forms, 1, Len(forms) - 2), top)
    <3>1. len - 1 = Len(forms) - 2
      BY <1>3 DEF len
    <3>2. front = SubSeq(forms, 1, len)
      BY DEF len
    <3>. HIDE DEF front
    <3>. QED
      BY <1>6, <2>1, <3>1, <3>2, FrontLast
  <2>. QED
    BY <2>2, <2>3 DEF S, SameForm
<1>13. \A k \in 1 .. Len(front) : SameForm(forms[k], front[k])
  BY <1>12
<1>14. <<>> \in FactsIn(T) /\ \A env : Satisfies(env, <<>>)
  BY NoFacts
<1>. HIDE DEF front, top
<1>15. WalkState(T, back, front, reach \cup old.others, FALSE, mutable)
  <2>1. reach \cup old.others \in SUBSET (reach \cup old.out \cup old.others)
    OBVIOUS
  <2>2. \A env \in reach \cup old.others : Satisfies(env, <<>>)
    BY <1>14
  <2>. DEFINE rs2 == reach \cup old.others
  <2>3. Len(front) = Len(forms) - 1
    BY <1>12
  <2>. HIDE DEF rs2, len
  <2>. QED
    BY <1>1, <1>2, <1>12, <1>13, <1>14, <2>1, <2>2, <2>3, EndState DEF rs2
<1>16. front # <<>> /\ front[Len(front)] = cond
  <2>1. Len(front) # 0
    BY <1>6, <1>12
  <2>2. front # <<>>
    BY <2>1
  <2>3. front[len] = forms[len]
    BY <1>6, <1>12
  <2>. QED
    BY <1>12, <2>2, <2>3
<1>17. back \in Nows(T) /\ Len(back.stack) \in Nat /\ cond.mark <= Len(back.stack) /\ Lower(back, front) \in Nat
  <2>. DEFINE rs1 == reach \cup old.others
  <2>. HIDE DEF rs1, back
  <2>0. WalkState(T, back, front, rs1, FALSE, mutable)
    BY <1>15 DEF rs1
  <2>a. back \in Nows(T) /\ Len(back.stack) \in Nat
    BY <2>0, NowParts DEF WalkState, WellTyped
  <2>b. Lower(back, front) \in 0 .. Len(back.stack)
    BY <2>0, StateParts
  <2>1. back \in Nows(T) /\ Len(back.stack) \in Nat /\ Lower(back, front) \in Nat
    BY <2>a, <2>b
  <2>2. front[Len(front)].mark \in 0 .. Len(back.stack)
    BY <2>0, <1>16, LastForm
  <2>3. cond.mark <= Len(back.stack)
    BY <1>16, <2>1, <2>2
  <2>. QED
    BY <2>1, <2>3
<1>. HIDE DEF back, facts, len
<1>18. /\ now2 \in Nows(T) /\ Len(now2.stack) = Len(back.stack) + Len(facts) /\ AsBefore(back, now2, Len(back.stack))
       /\ \A env : Held(env, back, Len(back.stack), Lower(back, front), mutable) /\ Satisfies(env, facts) =>
             Held(env, now2, Len(now2.stack), Lower(back, front), mutable)
  BY <1>7, <1>17, PutIs
<1>. HIDE DEF now2
<1>19. cond.mark <= Len(now2.stack) /\ AsBefore(back, now2, cond.mark)
  <2>. DEFINE a == Len(back.stack)
              b == Len(now2.stack)
              c == Len(facts)
              m == cond.mark
  <2>1. a \in Nat /\ b = a + c /\ c \in Nat /\ m \in Nat /\ m <= a
    BY <1>7, <1>17, <1>18, FactParts
  <2>. HIDE DEF a, b, c, m
  <2>2. m <= b
    BY <2>1
  <2>3. AsBefore(back, now2, m)
    BY <1>18, <2>1, AsBeforeLess DEF a
  <2>. QED
    BY <2>2, <2>3 DEF b, m
<1>20. \A env \in old.others : Held(env, now2, Len(now2.stack), Lower(back, front), mutable)
  <2>1. \A env \in reach \cup old.others : Held(env, back, Len(back.stack), Lower(back, front), mutable)
    BY <1>15 DEF WalkState
  <2>. QED
    BY <1>5, <1>18, <2>1
<1>. DEFINE rs1 == reach \cup old.others
            rs2 == old.others
<1>21. /\ rs2 \in SUBSET (rs1 \cup front[Len(front)].others)
       /\ top.out \subseteq rs1 \cup front[Len(front)].out \cup front[Len(front)].others
       /\ top.others \subseteq front[Len(front)].others /\ top.facts = front[Len(front)].facts
       /\ top.mark = front[Len(front)].mark
  BY <1>10, <1>16
<1>22. /\ WalkState(T, back, front, rs1, FALSE, mutable)
       /\ \A env \in rs2 : Held(env, now2, Len(now2.stack), Lower(back, front), mutable)
       /\ top.mark <= Len(now2.stack) /\ AsBefore(back, now2, top.mark)
  BY <1>10, <1>15, <1>19, <1>20
<1>23. Now' = now2
  BY <1>2, <1>18, NowNext
<1>. HIDE DEF rs1, rs2, cond
<1>24. WalkState(T, now2, [front EXCEPT ![Len(front)] = top], rs2, FALSE, mutable)
  <2>1. /\ top.kind \notin {"if", "clause"} /\ top.kind # "else"
        /\ top.kind \in {"else", "cond"} /\ top.nevers => top.out = {}
    BY <1>10, <1>11
  <2>. QED
    BY <1>9, <1>16, <1>18, <1>21, <1>22, <2>1, TopState
<1>. QED
  BY <1>2, <1>12, <1>23, <1>24 DEF WalkInv, rs2

\* What is held of a local that can be assigned is of the widest type it was.
LEMMA WidestHeld ==
    ASSUME NEW T, Now \in Nows(T), NEW x \in mutable, mutable \subseteq Local, NEW mark \in 0 .. Len(Now.stack),
           NEW low, NEW env, Held(env, Now, mark, low, mutable)
    PROVE  IsOf(env[x], Widest(x))
<1>. DEFINE len == Len(narrowed)
<1>1. len \in Nat /\ DOMAIN narrowed = 1 .. len /\ Now.stack = narrowed /\ Now.types = locals
  BY NowParts DEF Now
<1>2. Narrowings(x) = {i \in 1 .. len : narrowed[i].local = x}
  BY <1>1 DEF Narrowings
<1>3. mark \in Nat /\ mark <= len
  BY <1>1
<1>4. Untouched(Now, 0, x) \/ \E i \in Nat : FirstOf(Now, 0, x, i)
  BY FirstThere
<1>. HIDE DEF len
<1>5. CASE Untouched(Now, 0, x)
  <2>1. \A i \in 1 .. len : narrowed[i].local # x
    BY <1>1, <1>5 DEF Untouched, len
  <2>2. Widest(x) = locals[x]
    BY <1>2, <2>1 DEF Widest
  <2>3. Untouched(Now, mark, x)
    <3>1. \A i \in mark + 1 .. len : i \in 1 .. len
      BY <1>1, <1>3
    <3>. QED
      BY <1>1, <2>1, <3>1 DEF Untouched, len
  <2>. QED
    BY <1>1, <2>2, <2>3 DEF Held
<1>6. ASSUME NEW i \in Nat, FirstOf(Now, 0, x, i) PROVE IsOf(env[x], Widest(x))
  <2>1. i \in 1 .. len /\ narrowed[i].local = x /\ \A k \in 1 .. i - 1 : narrowed[k].local # x
    <3>1. 0 + 1 = 1
      OBVIOUS
    <3>. QED
      BY <1>1, <1>6, <3>1 DEF FirstOf, len
  <2>2. i \in Narrowings(x) /\ \A k \in Narrowings(x) : i <= k
    <3>1. \A k \in 1 .. len : k \in 1 .. i - 1 \/ i <= k
      BY <1>1, <2>1
    <3>. QED
      BY <1>2, <2>1, <3>1
  <2>3. Min(Narrowings(x)) = i
    <3>. DEFINE S == Narrowings(x)
                m == Min(S)
    <3>1. m = CHOOSE k \in S : \A j \in S : k <= j
      BY DEF Min
    <3>2. i \in S /\ \A j \in S : i <= j
      BY <2>2
    <3>3. m \in S /\ \A j \in S : m <= j
      <4>. HIDE DEF S
      <4>. QED
        BY <3>1, <3>2
    <3>4. m <= i /\ i <= m
      BY <3>2, <3>3
    <3>5. m \in Nat
      BY <1>1, <1>2, <3>3
    <3>. HIDE DEF m
    <3>6. m = i
      BY <3>4, <3>5
    <3>. QED
      BY <3>6 DEF m
  <2>4. Widest(x) = narrowed[i].was
    BY <2>2, <2>3 DEF Widest
  <2>5. CASE i \in 1 .. mark
    BY <1>1, <2>1, <2>4, <2>5 DEF Held
  <2>6. CASE ~(i \in 1 .. mark)
    <3>1. i \in mark + 1 .. len /\ \A k \in mark + 1 .. i - 1 : k \in 1 .. i - 1
      BY <1>1, <1>3, <2>1, <2>6
    <3>2. FirstOf(Now, mark, x, i)
      BY <1>1, <2>1, <3>1 DEF FirstOf, len
    <3>. QED
      BY <1>1, <2>4, <3>2 DEF Held
  <2>. QED
    BY <2>5, <2>6
<1>. QED
  BY <1>4, <1>5, <1>6

\* A local is assigned.
LEMMA SetStep ==
    ASSUME WalkAssumption, WalkInv, TypesSound, UNCHANGED mutable, NEW x \in Local, NEW value \in Assigned, Set(x, value)
    PROVE  WalkInv'
<1>. DEFINE w == Widen(Widest(x), value)
            forms2 == MoreAssigned(forms, x)
            reach2 == Reassigned(reach, x, value)
<1>1. PICK T : WalkState(T, Now, forms, reach, stops, mutable)
  BY DEF WalkInv
<1>2. x \in mutable /\ forms' = forms2 /\ reach' = reach2 /\ stops' = FALSE /\ Now' = AllOf(Now, x, w)
  BY DEF Set, Sequel, Now, AllOf, Widened, MoreAssigned, Reassigned
<1>3. value \in Value
  BY DEF WalkAssumption
<1>4. Now \in Nows(T) /\ mutable \subseteq Local
  BY <1>1, StateParts
<1>5. IsOf(value, w) /\ \A v \in Value : IsOf(v, Widest(x)) => IsOf(v, w)
  <2>1. WideningHolds(x, value)
    BY DEF TypesSound, Set
  <2>. QED
    BY <1>3, <2>1 DEF WideningHolds
<1>. HIDE DEF w
<1>6. ASSUME NEW env \in Envs, NEW mark \in 0 .. Len(Now.stack), NEW low, Held(env, Now, mark, low, mutable)
      PROVE  IsOf(env[x], w)
  <2>1. IsOf(env[x], Widest(x))
    BY <1>2, <1>4, <1>6, WidestHeld
  <2>2. env[x] \in Value
    BY DEF Envs
  <2>. QED
    BY <1>5, <2>1, <2>2
<1>7. WalkState(T \cup {w}, AllOf(Now, x, w), forms2, reach2, FALSE, mutable)
  BY <1>1, <1>3, <1>5, <1>6, SetState
<1>. QED
  BY <1>2, <1>7 DEF WalkInv

\* A test is asserted for what follows.
LEMMA AssertionStep ==
    ASSUME WalkInv, TypesSound, UNCHANGED mutable, NEW test \in Test, Assertion(test)
    PROVE  WalkInv'
<1>. DEFINE facts == TestSides(test, Now)[1]
            now2 == Put(Now, facts)
<1>1. PICK T : /\ WalkState(T, Now, forms, reach, stops, mutable)
               /\ TestSides(test, Now) \in FactsIn(T) \X FactsIn(T)
               /\ \A env \in Where(test) : Satisfies(env, TestSides(test, Now)[1])
  <2>1. test \in TestsHere
    BY DEF TestsHere
  <2>. QED
    BY <2>1, SidesThere
<1>2. forms' = forms /\ InPlace(now2) /\ reach' = Where(test) /\ stops' = FALSE
  BY DEF Assertion, Sequel
<1>3. facts \in FactsIn(T) /\ \A env \in Where(test) : Satisfies(env, facts)
  BY <1>1
<1>. HIDE DEF facts
<1>4. Now \in Nows(T) /\ Len(Now.stack) \in Nat /\ Lower(Now, forms) \in Nat
  BY <1>1, StateParts
<1>5. /\ now2 \in Nows(T) /\ Len(now2.stack) = Len(Now.stack) + Len(facts) /\ AsBefore(Now, now2, Len(Now.stack))
      /\ \A env : Held(env, Now, Len(Now.stack), Lower(Now, forms), mutable) /\ Satisfies(env, facts) =>
            Held(env, now2, Len(now2.stack), Lower(Now, forms), mutable)
  BY <1>3, <1>4, PutIs
<1>. HIDE DEF now2
<1>6. Len(Now.stack) <= Len(now2.stack)
  <2>. DEFINE a == Len(Now.stack)
              b == Len(now2.stack)
              c == Len(facts)
  <2>2. a \in Nat /\ b = a + c /\ c \in Nat
    BY <1>3, <1>4, <1>5, FactParts
  <2>. HIDE DEF a, b, c
  <2>3. a <= b
    BY <2>2
  <2>. QED
    BY <2>3 DEF a, b
<1>7. Where(test) \in SUBSET reach
  BY DEF Where
<1>8. \A env \in Where(test) : Held(env, now2, Len(now2.stack), Lower(Now, forms), mutable)
  <2>1. \A env \in reach : Held(env, Now, Len(Now.stack), Lower(Now, forms), mutable)
    BY <1>1 DEF WalkState
  <2>. QED
    BY <1>3, <1>5, <1>7, <2>1
<1>9. WalkState(T, now2, forms, Where(test), FALSE, mutable)
  BY <1>1, <1>5, <1>6, <1>7, <1>8, StayState
<1>10. Now' = now2
  BY <1>2, <1>5, NowNext
<1>. QED
  BY <1>2, <1>9, <1>10 DEF WalkInv

\* A local that is nil gets a value.
LEMMA DefaultStep ==
    ASSUME WalkAssumption, WalkInv, TypesSound, UNCHANGED mutable, NEW x \in Local, NEW value \in Assigned, Default(x, value)
    PROVE  WalkInv'
<1>. DEFINE facts == Supplied(Now, x, value)
            now2 == Put(Now, facts)
            One(env) == [env EXCEPT ![x] = IF @ = Absent THEN value ELSE @]
            reach2 == {One(env) : env \in reach}
<1>1. PICK T : WalkState(T, Now, forms, reach, stops, mutable)
  BY DEF WalkInv
<1>2. /\ forms = <<>> /\ x \notin mutable /\ forms' = forms /\ InPlace(now2) /\ reach' = reach2 /\ stops' = FALSE
  BY DEF Default, Sequel
<1>3. value \in Value
  BY DEF WalkAssumption
<1>4. /\ AreFacts(facts) /\ Len(facts) <= 1 /\ \A i \in DOMAIN facts : facts[i].local = x
      /\ \A v \in Value : IsOf(v, locals[x]) => IsOf(IF v = Absent THEN value ELSE v, now2.types[x])
  <2>1. DefaultHolds(x, value)
    BY DEF TypesSound, Default
  <2>. QED
    BY <2>1 DEF DefaultHolds
<1>. HIDE DEF facts
<1>5. PICK U : facts \in FactsIn(U)
  BY <1>4, FactsTyped
<1>. DEFINE All == T \cup U
<1>6. WalkState(All, Now, forms, reach, stops, mutable) /\ facts \in FactsIn(All)
  <2>1. T \subseteq All /\ U \subseteq All
    OBVIOUS
  <2>. HIDE DEF All
  <2>. QED
    BY <1>1, <1>5, <2>1, MoreTypes, MoreEntries
<1>. HIDE DEF All
<1>7. Now \in Nows(All)
  BY <1>6, StateParts
<1>8. now2 \in Nows(All)
  BY <1>6, <1>7, PutIs
<1>9. ASSUME NEW env \in reach
      PROVE  /\ One(env) \in Envs /\ IsOf(One(env)[x], now2.types[x])
             /\ \A y \in Local : y # x => One(env)[y] = env[y]
  <2>1. env \in [Local -> Value] /\ IsOf(env[x], locals[x])
    BY ReachOfTypes DEF OfTypes
  <2>2. One(env) \in Envs /\ One(env)[x] = (IF env[x] = Absent THEN value ELSE env[x])
        /\ \A y \in Local : y # x => One(env)[y] = env[y]
    BY <1>3, <2>1 DEF Envs
  <2>. HIDE DEF One, now2
  <2>. QED
    BY <1>4, <2>1, <2>2
<1>. HIDE DEF One
<1>10. /\ reach2 \in SUBSET Envs
       /\ \A env2 \in reach2 : /\ IsOf(env2[x], now2.types[x])
                               /\ \E env \in reach : \A y \in Local : y # x => env2[y] = env[y]
  BY <1>9
<1>. HIDE DEF reach2
<1>11. WalkState(All, now2, forms, reach2, FALSE, mutable)
  <2>1. /\ WalkState(All, Now, forms, reach, stops, mutable) /\ forms = <<>> /\ x \notin mutable
        /\ facts \in FactsIn(All) /\ Len(facts) <= 1 /\ \A i \in DOMAIN facts : facts[i].local = x
        /\ reach2 \in SUBSET Envs
    BY <1>2, <1>4, <1>6, <1>10
  <2>2. \A env2 \in reach2 : /\ IsOf(env2[x], Put(Now, facts).types[x])
                             /\ \E env \in reach : \A y \in Local : y # x => env2[y] = env[y]
    BY <1>10
  <2>3. WalkState(All, Put(Now, facts), forms, reach2, FALSE, mutable)
    BY <2>1, <2>2, DefaultState, ZenonT(60)
  <2>. QED
    BY <2>3
<1>12. Now' = now2
  BY <1>2, <1>8, NowNext
<1>. QED
  BY <1>2, <1>11, <1>12 DEF WalkInv

\* A form never returns.
LEMMA ErrorStep ==
    ASSUME WalkInv, UNCHANGED mutable, Error
    PROVE  WalkInv'
<1>1. PICK T : WalkState(T, Now, forms, reach, stops, mutable)
  BY DEF WalkInv
<1>2. forms' = forms /\ reach' = {} /\ stops' = TRUE /\ Now' = Now
  BY DEF Error, Now
<1>3. Now \in Nows(T) /\ Len(Now.stack) \in Nat
  BY <1>1, StateParts
<1>4. Len(Now.stack) <= Len(Now.stack) /\ {} \in SUBSET reach /\ TRUE \in BOOLEAN
  BY <1>3
<1>5. WalkState(T, Now, forms, {}, TRUE, mutable)
  BY <1>1, <1>3, <1>4, AsBeforeSelf, StayState
<1>. QED
  BY <1>2, <1>5 DEF WalkInv

\* The invariant holds where the walk begins.
LEMMA WalkInit == Init => WalkInv
<1>. SUFFICES ASSUME Init PROVE WalkState(Declared, Now, forms, reach, stops, mutable)
  BY DEF WalkInv
<1>1. /\ locals \in [Local -> Declared] /\ narrowed = <<>> /\ forms = <<>> /\ stops = FALSE /\ mutable \in SUBSET Local
      /\ reach \in SUBSET Envs /\ \A env \in reach, x \in Local : IsOf(env[x], locals[x])
  BY DEF Init, Envs
<1>2. Now \in Nows(Declared) /\ Len(Now.stack) = 0
  BY <1>1 DEF Nows, Now
<1>3. WellTyped(Declared, Now, forms, reach, stops, mutable)
  <2>1. forms \in Seq(FormsIn(Declared))
    <3>1. \A S : <<>> \in Seq(S)
      OBVIOUS
    <3>. QED
      BY <1>1, <3>1
  <2>2. stops \in BOOLEAN
    BY <1>1
  <2>. QED
    BY <1>1, <1>2, <2>1, <2>2 DEF WellTyped
<1>4. ASSUME NEW env \in reach PROVE Held(env, Now, Len(Now.stack), Lower(Now, forms), mutable)
  <2>1. \A x \in Local : IsOf(env[x], Now.types[x])
    BY <1>1 DEF Now
  <2>2. \A i \in Nat : \A x : ~FirstOf(Now, 0, x, i)
    BY <1>2 DEF FirstOf
  <2>. QED
    BY <1>2, <2>1, <2>2 DEF Held
<1>5. Len(forms) = 0
  BY <1>1
<1>. QED
  BY <1>1, <1>3, <1>4, <1>5 DEF WalkState

\* Every step of the walk keeps the invariant.
LEMMA WalkNext ==
    ASSUME WalkAssumption, ~Overwriting, WalkInv, TypesSound, Next
    PROVE  WalkInv'
<1>. Step /\ UNCHANGED mutable
  BY DEF Next
<1>1. ASSUME NEW kind \in {"if", "when"}, NEW test \in Test, If(kind, test) PROVE WalkInv'
  <2>1. Branch(kind, TestSides(test, Now), test) /\ kind \in {"if", "when", "clause"} /\ kind # "clause"
    BY <1>1 DEF If
  <2>2. test \in TestsHere
    BY DEF TestsHere
  <2>. QED
    BY <2>1, <2>2, BranchStep
<1>2. CASE Else
  BY <1>2, ElseStep
<1>3. CASE EndIf
  BY <1>3, EndIfStep
<1>4. CASE EndWhen
  BY <1>4, EndWhenStep
<1>5. CASE Cond
  <2>1. Begins("cond", <<<<>>, <<>>>>, {}) /\ UNCHANGED <<locals, narrowed, reach>>
    BY <1>5 DEF Cond
  <2>. QED
    BY <2>1, BeginsStep
<1>6. ASSUME NEW test \in Test \cup Pattern, Clause(test) PROVE WalkInv'
  <2>1. Branch("clause", TestSides(test, Now), test) /\ forms # <<>> /\ Form.kind = "cond"
    BY <1>6 DEF Clause
  <2>2. test \in TestsHere
    BY <2>1 DEF TestsHere
  <2>. QED
    BY <2>1, <2>2, BranchStep
<1>7. CASE EndClause
  BY <1>7, EndClauseStep
<1>8. CASE EndCond
  BY <1>8, EndCondStep
<1>9. ASSUME NEW kind \in {"and", "or"}, Chain(kind) PROVE WalkInv'
  <2>1. Begins(kind, <<<<>>, <<>>>>, {}) /\ UNCHANGED <<locals, narrowed, reach>> /\ kind \in {"cond", "and", "or"}
    BY <1>9 DEF Chain
  <2>. QED
    BY <2>1, BeginsStep
<1>10. ASSUME NEW test \in Test, Argument(test) PROVE WalkInv'
  BY <1>10, ArgumentStep
<1>11. CASE EndChain
  BY <1>11, EndChainStep
<1>12. ASSUME NEW x \in Local, NEW value \in Assigned, Set(x, value) PROVE WalkInv'
  BY <1>12, SetStep
<1>13. ASSUME NEW x \in Local, NEW value \in Assigned, Default(x, value) PROVE WalkInv'
  BY <1>13, DefaultStep
<1>14. ASSUME NEW test \in Test, Assertion(test) PROVE WalkInv'
  BY <1>14, AssertionStep
<1>15. CASE Error
  BY <1>15, ErrorStep
<1>. HIDE DEF WalkInv
<1>. QED
  BY <1>1, <1>2, <1>3, <1>4, <1>5, <1>6, <1>7, <1>8, <1>9, <1>10, <1>11, <1>12, <1>13, <1>14, <1>15 DEF Step

\* Wherever inference stands in a function, whatever a run of it can have in a local
\* is of the type the local has there (`LocalsHold`): however `if`, `when`, `cond`,
\* `and`, `or` are in one another, whatever ends in an error or assigns a local. What
\* inference takes from the types is to be sound there (`TypesSound`: the sides of a
\* test, a type widened by a value, a default), and the branch that goes on after an
\* `if` does not assign what the `if` tested (`~Overwriting`).
THEOREM LocalsAlwaysHold ==
    WalkAssumption /\ ~Overwriting => (Spec /\ []TypesSound => []LocalsHold)
<1>. SUFFICES ASSUME WalkAssumption, ~Overwriting PROVE Spec /\ []TypesSound => []LocalsHold
  OBVIOUS
<1>1. Init => WalkInv
  BY WalkInit
<1>2. WalkInv /\ TypesSound /\ [Next]_vars => WalkInv'
  <2>1. WalkInv /\ UNCHANGED vars => WalkInv'
    BY DEF WalkInv, vars, Now
  <2>. QED
    BY <2>1, WalkNext
<1>3. WalkInv => LocalsHold
  BY ReachOfTypes DEF LocalsHold
<1>. QED
  BY <1>1, <1>2, <1>3, PTL DEF Spec

-----------------------------------------------------------------------------
(* The Zed extension: `Keeps` of Install.tla, for any versions. It rests on    *)
(* which call is under way: a call for sources that was cut by a download      *)
(* still knows the directory it was for, although Janet may be another by then. *)

\* A download of sources knows a directory of sources.
Fetches ==
    call.at \in {"source", "removeSource"} => call.dir \in E!Name /\ call.dir.kind = "janet-src"

InstallTyped ==
    /\ DOMAIN dirs \subseteq E!Name
    /\ extension \in Version /\ janet \in Version \cup {None}

InstallInv == InstallTyped /\ Fetches /\ E!Whole


\* The newest server that is whole is one of those that are.
LEMMA InstalledIsWhole ==
    ASSUME E!InstallAssumption, NEW there, DOMAIN there \subseteq E!Name,
           E!InstalledServer(there) # None
    PROVE  E!WholeIn(there, E!InstalledServer(there))
<1>. DEFINE found    == {name \in DOMAIN there : name.kind = "janet-lsp-plus" /\ there[name] = "whole"}
            versions == {name.version : name \in found}
            Newest(name) == \A other \in found : other.version <= name.version
<1>1. found # {}
  BY DEF E!InstalledServer
<1>2. versions \in SUBSET Version /\ versions # {}
  BY <1>1 DEF E!Name
<1>3. PICK newest \in versions : \A other \in versions : other <= newest
  BY <1>2 DEF E!InstallAssumption
<1>4. \E name \in found : Newest(name)
  BY <1>3
<1>5. E!InstalledServer(there) = CHOOSE name \in found : Newest(name)
  BY <1>1 DEF E!InstalledServer
<1>6. E!InstalledServer(there) \in found
  BY <1>4, <1>5
<1>. QED
  BY <1>6 DEF E!WholeIn

\* Cleaning up takes directories, and of sources only when asked for those.
LEMMA RemovedOnly ==
    ASSUME NEW prefix, NEW current, E!RemoveStale(prefix, current)
    PROVE  /\ DOMAIN dirs' \subseteq DOMAIN dirs
           /\ prefix # "janet-src" =>
                \A name \in DOMAIN dirs \ DOMAIN dirs' : name.kind # "janet-src"
<1>1. PICK removed \in SUBSET ((E!StartsWith(prefix) \ {current}) \cap DOMAIN dirs) :
          dirs' = [name \in DOMAIN dirs \ removed |-> dirs[name]]
  BY DEF E!RemoveStale
<1>2. DOMAIN dirs' = DOMAIN dirs \ removed
  BY <1>1
<1>3. prefix # "janet-src" => \A name \in E!StartsWith(prefix) : name.kind # "janet-src"
  BY DEF E!StartsWith
<1>. QED
  BY <1>2, <1>3

\* Downloading adds one directory at most.
LEMMA HeldOnly ==
    ASSUME NEW dir \in E!Name, InstallTyped, E!Download(dir) \/ E!LeavePart(dir)
    PROVE  DOMAIN dirs \subseteq DOMAIN dirs' /\ DOMAIN dirs' \subseteq E!Name
<1>1. CASE UNCHANGED dirs
  BY <1>1 DEF InstallTyped
<1>2. CASE \E state : E!Holds(dir, state)
  <2>1. DOMAIN dirs' = DOMAIN dirs \cup {dir}
    BY <1>2 DEF E!Holds
  <2>. QED
    BY <2>1 DEF InstallTyped
<1>. QED
  BY <1>1, <1>2 DEF E!Download, E!LeavePart

\* What is whole, and stays, is so when it is answered.
LEMMA AnsweredWhole ==
    ASSUME NEW dir, NEW by, E!IsWhole(dir), E!Answers(dir, by), UNCHANGED dirs,
           by = "source" => dir.kind = "janet-src"
    PROVE  E!Whole'
<1>1. E!WholeIn(dirs', dir)
  BY DEF E!IsWhole, E!WholeIn
<1>. QED
  BY <1>1 DEF E!Answers, E!Whole

\* Every step of the extension keeps its invariant and spares sources, except the clean-up of sources.
LEMMA StepInstall ==
    ASSUME E!InstallAssumption, InstallInv, [E!Next]_E!vars
    PROVE  /\ InstallInv'
           /\ \A name \in DOMAIN dirs \ DOMAIN dirs' : name.kind = "janet-src" => call.at = "removeSource"
<1>. DEFINE Spares == \A name \in DOMAIN dirs \ DOMAIN dirs' : name.kind = "janet-src" => call.at = "removeSource"
<1>. USE DEF InstallInv
<1>o. E!Own \in E!Name /\ E!Own.kind = "janet-lsp-plus"
  BY DEF E!Own, E!Name, E!Kind, InstallTyped
<1>s. janet # None => E!Sources \in E!Name /\ E!Sources.kind = "janet-src"
  BY DEF E!Sources, E!Name, E!Kind, InstallTyped
<1>1. CASE UNCHANGED E!vars
  BY <1>1 DEF E!vars, InstallTyped, Fetches, E!Whole
<1>2. CASE E!ServerPath
  <2>1. InstallTyped' /\ Spares
    BY <1>2 DEF E!ServerPath, InstallTyped
  <2>2. Fetches'
    BY <1>2 DEF E!ServerPath, E!Answers, E!Goes, E!Idle, Fetches
  <2>3. E!Whole'
    <3>1. CASE \E dir, by : E!IsWhole(dir) /\ E!Answers(dir, by) /\ by # "source"
      BY <1>2, <3>1, AnsweredWhole DEF E!ServerPath
    <3>2. CASE E!Answers(None, "path") \/ UNCHANGED answer
      BY <3>2 DEF E!Answers, E!Whole
    <3>. QED
      BY <1>2, <3>1, <3>2 DEF E!ServerPath
  <2>. QED
    BY <2>1, <2>2, <2>3
<1>3. CASE E!DownloadServer
  <2>1. InstallTyped' /\ Spares
    BY <1>3, <1>o, HeldOnly DEF E!DownloadServer, InstallTyped
  <2>2. Fetches' /\ E!Whole'
    BY <1>3 DEF E!DownloadServer, E!Goes, Fetches, E!Whole
  <2>. QED
    BY <2>1, <2>2
<1>4. CASE E!MakeExecutable
  <2>1. InstallTyped' /\ Spares
    BY <1>4 DEF E!MakeExecutable, InstallTyped
  <2>2. Fetches' /\ E!Whole'
    BY <1>4 DEF E!MakeExecutable, E!Goes, Fetches, E!Whole
  <2>. QED
    BY <2>1, <2>2
<1>5. CASE E!RemoveServers
  <2>1. InstallTyped' /\ Spares
    BY <1>5, RemovedOnly DEF E!RemoveServers, InstallTyped
  <2>2. Fetches' /\ E!Whole'
    BY <1>5 DEF E!RemoveServers, E!Goes, Fetches, E!Whole
  <2>. QED
    BY <2>1, <2>2
<1>6. CASE E!RemoveLegacy
  <2>1. InstallTyped' /\ Spares
    BY <1>6, RemovedOnly DEF E!RemoveLegacy, InstallTyped
  <2>2. Fetches' /\ E!Whole'
    BY <1>6 DEF E!RemoveLegacy, E!Answers, E!Idle, Fetches, E!Whole
  <2>. QED
    BY <2>1, <2>2
<1>7. CASE E!ReleaseFails
  <2>1. InstallTyped' /\ Spares
    BY <1>7, <1>o, HeldOnly DEF E!ReleaseFails, InstallTyped
  <2>2. Fetches'
    BY <1>7 DEF E!ReleaseFails, E!Idle, Fetches
  <2>3. E!Whole'
    <3>1. DOMAIN dirs' \subseteq E!Name
      BY <2>1 DEF InstallTyped
    <3>2. E!InstalledServer(dirs') # None => E!WholeIn(dirs', E!InstalledServer(dirs'))
      BY <3>1, InstalledIsWhole
    <3>3. answer' = [dir |-> E!InstalledServer(dirs'), by |-> "installed",
                     whole |-> E!WholeIn(dirs', E!InstalledServer(dirs'))]
      BY <1>7 DEF E!ReleaseFails
    <3>. QED
      BY <3>2, <3>3 DEF E!Whole
  <2>. QED
    BY <2>1, <2>2, <2>3
<1>8. CASE E!JanetSource
  <2>1. InstallTyped' /\ Spares
    BY <1>8 DEF E!JanetSource, InstallTyped
  <2>2. Fetches'
    BY <1>8, <1>s DEF E!JanetSource, E!Answers, E!Goes, E!Idle, Fetches
  <2>3. E!Whole'
    <3>1. CASE E!IsWhole(E!Sources)
      BY <1>8, <1>s, <3>1, AnsweredWhole DEF E!JanetSource
    <3>2. CASE ~E!IsWhole(E!Sources)
      BY <1>8, <3>2 DEF E!JanetSource, E!Whole
    <3>. QED
      BY <3>1, <3>2
  <2>. QED
    BY <2>1, <2>2, <2>3
<1>9. CASE E!DownloadSource
  <2>1. call.dir \in E!Name /\ call.dir.kind = "janet-src"
    BY <1>9 DEF E!DownloadSource, Fetches
  <2>2. InstallTyped' /\ Spares
    BY <1>9, <2>1, HeldOnly DEF E!DownloadSource, InstallTyped
  <2>3. Fetches' /\ E!Whole'
    BY <1>9, <2>1 DEF E!DownloadSource, E!Goes, Fetches, E!Whole
  <2>. QED
    BY <2>2, <2>3
<1>10. CASE E!RemoveSources
  <2>1. call.at = "removeSource" /\ call.dir \in E!Name /\ call.dir.kind = "janet-src"
    BY <1>10 DEF E!RemoveSources, Fetches
  <2>2. InstallTyped' /\ Spares
    BY <1>10, <2>1, RemovedOnly DEF E!RemoveSources, InstallTyped
  <2>3. Fetches' /\ E!Whole'
    BY <1>10, <2>1 DEF E!RemoveSources, E!Answers, E!Idle, Fetches, E!Whole
  <2>. QED
    BY <2>2, <2>3
<1>11. CASE E!SourceFails
  <2>1. call.dir \in E!Name
    BY <1>11 DEF E!SourceFails, Fetches
  <2>2. InstallTyped' /\ Spares
    BY <1>11, <2>1, HeldOnly DEF E!SourceFails, InstallTyped
  <2>3. Fetches' /\ E!Whole'
    BY <1>11 DEF E!SourceFails, E!Answers, E!Idle, Fetches, E!Whole
  <2>. QED
    BY <2>2, <2>3
<1>12. CASE \E version \in Version : E!Restart(version) \/ E!ChangeJanet(version)
  BY <1>12 DEF E!Restart, E!ChangeJanet, E!Idle, InstallTyped, Fetches, E!Whole
<1>. QED
  BY <1>1, <1>2, <1>3, <1>4, <1>5, <1>6, <1>7, <1>8, <1>9, <1>10, <1>11, <1>12 DEF E!Next

\* Whatever versions come and go, wherever the extension is stopped: the sources that
\* are sent are whole and are sources, a server that is taken from earlier downloads
\* is there, and cleaning up after a download of a server takes no sources.
THEOREM KeepsSources == E!InstallAssumption => (E!Spec => [][E!Keeps]_E!vars)
<1>. SUFFICES ASSUME E!InstallAssumption PROVE E!Spec => [][E!Keeps]_E!vars
  OBVIOUS
<1>1. E!Init => InstallInv
  <2>. SUFFICES ASSUME E!Init PROVE InstallInv
    OBVIOUS
  <2>1. DOMAIN dirs \subseteq E!Name
    BY DEF E!Init, E!Name, E!Kind
  <2>. QED
    BY <2>1 DEF E!Init, InstallInv, InstallTyped, Fetches, E!Whole, E!Idle
<1>2. InstallInv /\ [E!Next]_E!vars => InstallInv' /\ E!Keeps
  BY StepInstall DEF InstallInv, E!Keeps
<1>. QED
  BY <1>1, <1>2, PTL DEF E!Spec

-----------------------------------------------------------------------------
(* Imports of files that move (Imports.tla): where they lead, for any paths.    *)

\* Some numbers that are not above a bound have a greatest.
LEMMA Greatest ==
    ASSUME NEW T \in SUBSET Nat, T # {}, NEW bound \in Nat, \A n \in T : n <= bound
    PROVE  \E n \in T : \A m \in T : m <= n
<1>. DEFINE Less == {p \in Nat \X Nat : p[1] < p[2]}
            U == {n \in Nat : bound - n \in T}
<1>1. IsWellFoundedOn(Less, Nat)
  BY NatLessThanWellFounded DEF OpToRel
<1>2. U \in SUBSET Nat /\ U # {}
  <2>1. PICK n \in T : TRUE
    OBVIOUS
  <2>2. bound - n \in Nat /\ bound - (bound - n) = n
    OBVIOUS
  <2>3. bound - n \in U
    BY <2>1, <2>2
  <2>. QED
    BY <2>3
<1>a. \A m, n \in Nat : m < n => <<m, n>> \in Less
  OBVIOUS
<1>. HIDE DEF U, Less
<1>3. PICK n \in U : \A m \in U : ~(<<m, n>> \in Less)
  BY <1>1, <1>2, WFMin
<1>4. n \in Nat /\ bound - n \in T
  BY <1>2 DEF U
<1>5. ASSUME NEW m \in T PROVE m <= bound - n
  <2>1. bound - m \in Nat /\ bound - (bound - m) = m
    OBVIOUS
  <2>2. bound - m \in U
    BY <2>1 DEF U
  <2>3. ~(bound - m < n)
    BY <1>a, <1>3, <1>4, <2>1, <2>2
  <2>. QED
    BY <1>4, <2>1, <2>3
<1>. QED
  BY <1>4, <1>5

\* Some numbers have a least.
LEMMA Least ==
    ASSUME NEW T \in SUBSET Nat, T # {}
    PROVE  I!Min(T) \in T
<1>. DEFINE Less == {p \in Nat \X Nat : p[1] < p[2]}
<1>1. IsWellFoundedOn(Less, Nat)
  BY NatLessThanWellFounded DEF OpToRel
<1>2. \A m, n \in Nat : m < n => <<m, n>> \in Less
  OBVIOUS
<1>. HIDE DEF Less
<1>3. PICK n \in T : \A m \in T : ~(<<m, n>> \in Less)
  BY <1>1, WFMin
<1>4. ASSUME NEW m \in T PROVE n <= m
  <2>1. m \in Nat /\ n \in Nat /\ ~(m < n)
    BY <1>2, <1>3
  <2>. QED
    BY <2>1
<1>5. I!Min(T) = CHOOSE m \in T : \A k \in T : m <= k
  BY DEF I!Min
<1>. QED
  BY <1>4, <1>5

\* What two paths start with.
LEMMA CommonPrefix ==
    ASSUME NEW S, NEW a \in Seq(S), NEW b \in Seq(S)
    PROVE  \E n \in Nat :
              /\ n <= Len(a) /\ n <= Len(b) /\ SubSeq(a, 1, n) = SubSeq(b, 1, n)
              /\ Len(I!LongestCommonPrefix({a, b})) = n
<1>. DEFINE P == I!CommonPrefixes({a, b})
            common == I!LongestCommonPrefix({a, b})
            T == {Len(p) : p \in P}
<1>1. ASSUME NEW p \in P
      PROVE  Len(p) \in 0 .. Len(a) /\ Len(p) \in 0 .. Len(b) /\ p = SubSeq(a, 1, Len(p)) /\ p = SubSeq(b, 1, Len(p))
  <2>1. PICK s \in {a, b} : \E n \in 0 .. Len(s) : p = SubSeq(s, 1, n)
    BY DEF I!CommonPrefixes, I!Prefixes
  <2>a. PICK n \in 0 .. Len(s) : p = SubSeq(s, 1, n)
    BY <2>1
  <2>2. I!IsPrefix(p, a) /\ I!IsPrefix(p, b)
    BY DEF I!CommonPrefixes
  <2>3. p \in Seq(S) /\ Len(p) \in Nat
    BY <2>a
  <2>4. SubSeq(p, 1, Len(p)) = p
    BY <2>3, SubSeqFull
  <2>5. Len(p) <= Len(a) /\ Len(p) <= Len(b) /\ Len(a) \in Nat /\ Len(b) \in Nat
    BY <2>2 DEF I!IsPrefix
  <2>. QED
    BY <2>2, <2>3, <2>4, <2>5 DEF I!IsPrefix
<1>2. <<>> \in P
  <2>1. <<>> \in I!Prefixes(a)
    <3>1. SubSeq(a, 1, 0) = <<>> /\ 0 \in 0 .. Len(a)
      OBVIOUS
    <3>. QED
      BY <3>1 DEF I!Prefixes
  <2>2. ASSUME NEW s \in Seq(S) PROVE I!IsPrefix(<<>>, s)
    BY DEF I!IsPrefix
  <2>. QED
    BY <2>1, <2>2 DEF I!CommonPrefixes
<1>. HIDE DEF P
<1>3. T \in SUBSET Nat /\ T # {} /\ Len(a) \in Nat /\ \A n \in T : n <= Len(a)
  <2>1. Len(a) \in Nat
    OBVIOUS
  <2>2. Len(<<>>) \in T
    BY <1>2
  <2>. QED
    BY <1>1, <2>1, <2>2
<1>. HIDE DEF T
<1>4. PICK n \in T : \A m \in T : m <= n
  BY <1>3, Greatest
<1>5. \E longest \in P : \A other \in P : Len(other) <= Len(longest)
  BY <1>4 DEF T
<1>6. common = CHOOSE longest \in P : \A other \in P : Len(other) <= Len(longest)
  BY DEF I!LongestCommonPrefix, P
<1>7. common \in P
  BY <1>5, <1>6
<1>. HIDE DEF common
<1>8. /\ Len(common) \in 0 .. Len(a) /\ Len(common) \in 0 .. Len(b)
      /\ common = SubSeq(a, 1, Len(common)) /\ common = SubSeq(b, 1, Len(common))
  BY <1>1, <1>7
<1>9. Len(common) \in Nat /\ Len(common) <= Len(a) /\ Len(common) <= Len(b)
  BY <1>3, <1>8
<1>. QED
  BY <1>8, <1>9 DEF common

-----------------------------------------------------------------------------
(* Where an import leads: to the file itself, or to its directory.               *)

Places(S) == [dir : Seq(S), name : S]

\* The workspace is one project: the files are under one root, and places are told from it.
OneProject == Roots = << <<>> >> /\ Projects \subseteq {<<>>}

\* The root of a project is that of the workspace...
LEMMA RootIs ==
    ASSUME OneProject, NEW S, NEW place \in Places(S)
    PROVE  I!ProjectRoot(place) = <<>>
<1>1. I!IsPrefix(<<>>, place.dir)
  BY DEF I!IsPrefix, Places
<1>2. I!Around(I!Range(Roots), place) = {<<>>}
  <2>1. I!Range(Roots) = {<<>>}
    BY DEF OneProject, I!Range
  <2>. QED
    BY <1>1, <2>1 DEF I!Around
<1>3. I!Around(Projects, place) \in {{}, {<<>>}}
  BY DEF OneProject, I!Around
<1>4. I!Deepest({<<>>}) = <<>>
  <2>1. \A dir \in {<<>>} : \A other \in {<<>>} : Len(other) <= Len(dir)
    OBVIOUS
  <2>. QED
    BY <2>1 DEF I!Deepest
<1>. QED
  BY <1>2, <1>3, <1>4 DEF I!ProjectRoot

\* ...and what is beyond it is all of a path: everything can be named from it.
LEMMA BeyondRoot ==
    ASSUME NEW S, NEW path \in Seq(S)
    PROVE  I!Beyond(<<>>, path) = path /\ I!IsPrefix(<<>>, path)
<1>1. SubSeq(path, 1, Len(path)) = path
  BY SubSeqFull
<1>2. Len(<<>>) + 1 = 1
  OBVIOUS
<1>3. I!Beyond(<<>>, path) = path
  BY <1>1, <1>2 DEF I!Beyond
<1>4. I!IsPrefix(<<>>, path)
  BY DEF I!IsPrefix
<1>. QED
  BY <1>3, <1>4

\* An import is looked for at one place.
BaseOf(from, spec) ==
    IF spec.k = "rooted" THEN spec.rest ELSE SubSeq(from.dir, 1, Len(from.dir) - spec.ups) \o spec.rest

LEMMA ResolveIs ==
    ASSUME OneProject, NEW files, NEW from, NEW spec, <<>> \o spec.rest = spec.rest
    PROVE  I!Resolve(files, from, spec) = I!FirstIn(files, I!ModuleFiles(BaseOf(from, spec), spec))
<1>. DEFINE base == BaseOf(from, spec)
            led == I!LedTo(files, base, spec)
            found == {i \in {1} : led # I!Nowhere}
<1>1. I!Bases(from, spec) = <<base>>
  <2>1. CASE spec.k = "rooted"
    <3>2. DOMAIN Roots = {1} /\ Roots[1] = <<>>
      BY DEF OneProject
    <3>3. \A i \in {1} : Roots[i] \o spec.rest = spec.rest
      BY <3>2
    <3>4. [i \in DOMAIN Roots |-> Roots[i] \o spec.rest] = [i \in {1} |-> spec.rest]
      BY <3>2, <3>3, Zenon
    <3>5. [i \in {1} |-> spec.rest] = <<spec.rest>>
      OBVIOUS
    <3>. QED
      BY <2>1, <3>4, <3>5 DEF I!Bases, BaseOf
  <2>2. CASE spec.k # "rooted"
    BY <2>2 DEF I!Bases, BaseOf
  <2>. QED
    BY <2>1, <2>2
<1>. HIDE DEF base
<1>2. I!Resolve(files, from, spec) = IF found = {} THEN I!Nowhere ELSE I!LedTo(files, <<base>>[I!Min(found)], spec)
  <2>1. \A i \in {1} : <<base>>[i] = base
    OBVIOUS
  <2>2. {i \in DOMAIN <<base>> : I!LedTo(files, <<base>>[i], spec) # I!Nowhere} = found
    BY <2>1
  <2>. QED
    BY <1>1, <2>2 DEF I!Resolve
<1>3. I!Resolve(files, from, spec) = led
  <2>1. CASE led = I!Nowhere
    BY <1>2, <2>1
  <2>2. CASE led # I!Nowhere
    <3>1. found = {1}
      BY <2>2
    <3>. HIDE DEF found, led
    <3>2. I!Min(found) = 1
      BY <3>1 DEF I!Min
    <3>. QED
      BY <1>2, <3>1, <3>2 DEF led
  <2>. QED
    BY <2>1, <2>2
<1>. QED
  BY <1>3 DEF I!LedTo, base

\* The path of a module is that of its file, without its directory if it is an `init`.
LEMMA ModulePathIs ==
    ASSUME NEW S, NEW to \in Places(S)
    PROVE  /\ I!ModulePath(to) \in Seq(S)
           /\ to.name # "init" => I!ModulePath(to) = Append(to.dir, to.name)
           /\ to.name = "init" => I!ModulePath(to) = to.dir
<1>1. to.dir \in Seq(S) /\ to.name \in S /\ Append(to.dir, to.name) \in Seq(S)
  BY DEF Places
<1>. QED
  BY <1>1 DEF I!ModulePath

\* The file a path names, and the path of a file.
LEMMA FileOfIs ==
    ASSUME NEW S, NEW path \in Seq(S), path # <<>>
    PROVE  /\ I!FileOf(path) \in Places(S)
           /\ Append(I!FileOf(path).dir, I!FileOf(path).name) = path
<1>. DEFINE n == Len(path)
            front == SubSeq(path, 1, n - 1)
<1>1. n \in Nat /\ n >= 1 /\ (n - 1) \in Nat /\ (n - 1) + 1 = n /\ path[n] \in S
  OBVIOUS
<1>2. front \in Seq(S) /\ Len(front) = n - 1
  BY <1>1
<1>3. Append(front, path[n]) = path
  BY <1>1, <1>2
<1>4. I!FileOf(path) = [dir |-> front, name |-> path[n]]
  BY DEF I!FileOf, I!Place, I!Front, I!Last
<1>. QED
  BY <1>1, <1>2, <1>3, <1>4 DEF Places

\* The file a path names is the one of the path.
LEMMA FileOfPath ==
    ASSUME NEW S, NEW to \in Places(S)
    PROVE  I!FileOf(Append(to.dir, to.name)) = to
<1>. DEFINE path == Append(to.dir, to.name)
<1>1. to.dir \in Seq(S) /\ to.name \in S /\ to = [dir |-> to.dir, name |-> to.name]
  BY DEF Places
<1>2. Len(path) = Len(to.dir) + 1 /\ Len(to.dir) \in Nat
  BY <1>1
<1>3. path[Len(path)] = to.name
  BY <1>1, <1>2
<1>4. SubSeq(path, 1, Len(path) - 1) = to.dir
  BY <1>1, <1>2
<1>. QED
  BY <1>1, <1>3, <1>4 DEF I!FileOf, I!Place, I!Front, I!Last

\* The spec written for a file is of its path: a relative one goes up to what the paths
\* have in common, and down from there. Its extension is added when there was one.
LEMMA WrittenLeads ==
    ASSUME NEW S, NEW from \in Places(S), NEW to \in Places(S), NEW k \in {"relative", "rooted"},
           NEW spec, spec.k = I!SpecOf(k, <<>>, from, to).k, spec.ups = I!SpecOf(k, <<>>, from, to).ups,
           spec.rest = I!SpecOf(k, <<>>, from, to).rest
    PROVE  /\ spec.rest \in Seq(S) /\ BaseOf(from, spec) = I!ModulePath(to)
           /\ spec.rest = <<>> => I!IsPrefix(I!ModulePath(to), from.dir)
           /\ spec.rest # <<>> => I!ModulePath(to) # <<>>
<1>. DEFINE path == I!ModulePath(to)
            dir == from.dir
<1>1. path \in Seq(S) /\ dir \in Seq(S)
  BY ModulePathIs DEF Places
<1>. HIDE DEF path, dir
<1>2. CASE k = "rooted"
  <2>0. I!Beyond(<<>>, path) = path
    BY <1>1, BeyondRoot
  <2>1. I!SpecOf(k, <<>>, from, to) = [k |-> "rooted", ups |-> 0, rest |-> path, extension |-> FALSE, top |-> TRUE]
    BY <1>2, <2>0 DEF I!SpecOf, I!Spec, path
  <2>2. path = <<>> => I!IsPrefix(path, dir)
    BY <1>1 DEF I!IsPrefix
  <2>3. spec.k = "rooted" /\ spec.rest = path
    BY <2>1
  <2>. QED
    BY <1>1, <2>2, <2>3 DEF BaseOf, path, dir
<1>3. CASE k = "relative"
  <2>1. PICK n \in Nat : /\ n <= Len(dir) /\ n <= Len(path) /\ SubSeq(dir, 1, n) = SubSeq(path, 1, n)
                         /\ Len(I!LongestCommonPrefix({dir, path})) = n
    BY <1>1, CommonPrefix
  <2>. DEFINE rest == SubSeq(path, n + 1, Len(path))
  <2>2. I!SpecOf(k, <<>>, from, to)
            = [k |-> "relative", ups |-> Len(dir) - n, rest |-> rest, extension |-> FALSE, top |-> TRUE]
    BY <1>3, <2>1 DEF I!SpecOf, I!Spec, I!SpecOfPaths, I!Beyond, path, dir
  <2>3. Len(dir) - (Len(dir) - n) = n /\ Len(path) \in Nat
    BY <1>1, <2>1
  <2>4. SubSeq(dir, 1, n) \o rest = path
    <3>1. SubSeq(path, 1, n) \o rest = SubSeq(path, 1, Len(path))
      <4>1. 1 \in 1 .. Len(path) + 1 /\ n \in 1 - 1 .. Len(path) /\ Len(path) \in n .. Len(path)
        BY <2>1, <2>3
      <4>. QED
        BY <1>1, <4>1, ConcatAdjacentSubSeq
    <3>2. SubSeq(path, 1, Len(path)) = path
      BY <1>1, SubSeqFull
    <3>. QED
      BY <2>1, <3>1, <3>2
  <2>5. rest = <<>> => I!IsPrefix(path, dir)
    <3>. SUFFICES ASSUME rest = <<>> PROVE I!IsPrefix(path, dir)
      OBVIOUS
    <3>1. SubSeq(path, 1, n) \in Seq(S) /\ Len(SubSeq(path, 1, n)) = n
      BY <1>1, <2>1, <2>3
    <3>2. path = SubSeq(path, 1, n)
      <4>1. SubSeq(path, 1, n) \o <<>> = SubSeq(path, 1, n)
        BY <3>1
      <4>. QED
        BY <2>1, <2>4, <4>1
    <3>3. Len(path) = n
      BY <3>1, <3>2
    <3>. QED
      BY <2>1, <3>3 DEF I!IsPrefix
  <2>6. rest # <<>> => path # <<>>
    <3>. SUFFICES ASSUME path = <<>> PROVE rest = <<>>
      OBVIOUS
    <3>1. Len(path) = 0 /\ n = 0
      BY <2>1
    <3>. QED
      BY <1>1, <3>1
  <2>7. spec.k = "relative" /\ spec.ups = Len(dir) - n /\ spec.rest = rest
    BY <2>2
  <2>9. rest \in Seq(S)
    BY <1>1, <2>1, <2>3
  <2>. HIDE DEF rest
  <2>8. BaseOf(from, spec) = SubSeq(dir, 1, Len(dir) - (Len(dir) - n)) \o rest
    BY <2>7 DEF BaseOf, dir
  <2>. QED
    BY <2>3, <2>4, <2>5, <2>6, <2>7, <2>8, <2>9 DEF path, dir
<1>. QED
  BY <1>2, <1>3 DEF path, dir

\* The first candidate that is there.
LEMMA OneFirst ==
    ASSUME NEW files, NEW a \in files
    PROVE  I!FirstIn(files, <<a>>) = a
<1>. DEFINE found == {i \in DOMAIN <<a>> : <<a>>[i] \in files}
<1>1. found = {1}
  OBVIOUS
<1>2. I!Min(found) = 1
  BY <1>1 DEF I!Min
<1>. QED
  BY <1>1, <1>2 DEF I!FirstIn

\* The first of two candidates, if it is there.
LEMMA FirstOfTwo ==
    ASSUME NEW files, NEW a \in files, NEW b
    PROVE  I!FirstIn(files, <<a, b>>) = a
<1>. DEFINE found == {i \in DOMAIN <<a, b>> : <<a, b>>[i] \in files}
<1>1. 1 \in found /\ found \subseteq {1, 2}
  OBVIOUS
<1>. HIDE DEF found
<1>2. I!Min(found) = 1
  <2>1. I!Min(found) = CHOOSE m \in found : \A k \in found : m <= k
    BY DEF I!Min
  <2>2. 1 \in found /\ \A k \in found : 1 <= k
    BY <1>1
  <2>3. I!Min(found) \in found /\ \A k \in found : I!Min(found) <= k
    BY <2>1, <2>2
  <2>. DEFINE m == I!Min(found)
  <2>4. m \in {1, 2} /\ m <= 1
    BY <1>1, <2>2, <2>3
  <2>. HIDE DEF m
  <2>5. m = 1
    BY <2>4
  <2>. QED
    BY <2>5 DEF m
<1>. QED
  BY <1>1, <1>2 DEF I!FirstIn, found

\* Nothing is found where no candidate is.
LEMMA NoneThere ==
    ASSUME NEW files, NEW candidates, \A i \in DOMAIN candidates : candidates[i] \notin files
    PROVE  I!FirstIn(files, candidates) = I!Nowhere
BY DEF I!FirstIn

\* The second of two candidates, if the first is not there.
LEMMA SecondOfTwo ==
    ASSUME NEW files, NEW a, a \notin files, NEW b \in files
    PROVE  I!FirstIn(files, <<a, b>>) = b
<1>. DEFINE found == {i \in DOMAIN <<a, b>> : <<a, b>>[i] \in files}
<1>1. found = {2}
  OBVIOUS
<1>2. I!Min(found) = 2
  BY <1>1 DEF I!Min
<1>. QED
  BY <1>1, <1>2 DEF I!FirstIn

\* A spec of the path of a file leads to it.
LEMMA PathLeads ==
    ASSUME OneProject, NEW S, NEW files \in SUBSET Places(S), I!Apart(files), NEW from \in files, NEW to \in files,
           NEW spec, spec.rest \in Seq(S), BaseOf(from, spec) = I!ModulePath(to),
           spec.rest = <<>> => I!IsPrefix(I!ModulePath(to), from.dir),
           spec.rest # <<>> => I!ModulePath(to) # <<>>,
           spec.extension => to.name # "init"
    PROVE  I!Resolve(files, from, spec) = to
<1>. DEFINE path == I!ModulePath(to)
<1>1. /\ path \in Seq(S) /\ to.dir \in Seq(S) /\ to = [dir |-> to.dir, name |-> to.name]
      /\ to.name # "init" => path = Append(to.dir, to.name)
      /\ to.name = "init" => path = to.dir
  BY ModulePathIs DEF Places
<1>2. to.name = "init" => I!InitOf(path) = to
  BY <1>1 DEF I!InitOf, I!Place
<1>3. to.name # "init" => I!FileOf(path) = to /\ spec.rest # <<>>
  <2>. SUFFICES ASSUME to.name # "init" PROVE I!FileOf(path) = to /\ spec.rest # <<>>
    OBVIOUS
  <2>1. I!FileOf(path) = to
    BY <1>1, FileOfPath
  <2>2. ~I!IsPrefix(path, from.dir)
    BY <1>1 DEF I!Apart
  <2>. QED
    BY <2>1, <2>2
<1>4. to.name = "init" /\ spec.rest # <<>> => I!FileOf(path) \notin files
  <2>. SUFFICES ASSUME to.name = "init", path # <<>>, I!FileOf(path) \in files PROVE FALSE
    OBVIOUS
  <2>1. Append(I!FileOf(path).dir, I!FileOf(path).name) = path
    BY <1>1, FileOfIs
  <2>2. I!IsPrefix(path, to.dir)
    BY <1>1 DEF I!IsPrefix
  <2>. QED
    BY <2>1, <2>2 DEF I!Apart
<1>. HIDE DEF path
<1>5. I!Resolve(files, from, spec) = I!FirstIn(files, I!ModuleFiles(path, spec))
  <2>1. I!Resolve(files, from, spec) = I!FirstIn(files, I!ModuleFiles(BaseOf(from, spec), spec))
    BY ConcatEmptySeq, ResolveIs
  <2>. QED
    BY <2>1 DEF path
<1>6. CASE to.name # "init" /\ spec.extension
  <2>1. I!ModuleFiles(path, spec) = <<to>>
    BY <1>3, <1>6 DEF I!ModuleFiles
  <2>. QED
    BY <1>5, <2>1, OneFirst
<1>7. CASE to.name # "init" /\ ~spec.extension
  <2>1. I!ModuleFiles(path, spec) = <<to, I!InitOf(path)>>
    BY <1>3, <1>7 DEF I!ModuleFiles
  <2>. QED
    BY <1>5, <2>1, FirstOfTwo
<1>8. CASE to.name = "init" /\ spec.rest = <<>>
  <2>1. I!ModuleFiles(path, spec) = <<to>>
    BY <1>2, <1>8 DEF I!ModuleFiles
  <2>. QED
    BY <1>5, <2>1, OneFirst
<1>9. CASE to.name = "init" /\ spec.rest # <<>>
  <2>1. I!ModuleFiles(path, spec) = <<I!FileOf(path), to>>
    BY <1>2, <1>9 DEF I!ModuleFiles
  <2>. QED
    BY <1>4, <1>5, <1>9, <2>1, SecondOfTwo
<1>. QED
  BY <1>6, <1>7, <1>8, <1>9

\* What is offered for import leads to what it is offered for (`OffersLead`), in any
\* workspace of one project where no module is beside a directory of its name.
THEOREM OffersRight ==
    ASSUME OneProject, NEW S, NEW files \in SUBSET Places(S), I!Apart(files)
    PROVE  I!OffersLead(files)
<1>. SUFFICES ASSUME NEW from \in files, NEW to \in files, NEW k \in {"relative", "rooted"}
              PROVE  I!Resolve(files, from, I!SpecOf(k, I!ProjectRoot(from), from, to)) = to
  BY DEF I!OffersLead
<1>. DEFINE spec == I!SpecOf(k, <<>>, from, to)
<1>1. from \in Places(S) /\ to \in Places(S) /\ I!ProjectRoot(from) = <<>>
  BY RootIs
<1>2. spec.extension = FALSE
  BY DEF I!SpecOf, I!SpecOfPaths, I!Spec
<1>. HIDE DEF spec
<1>3. /\ spec.rest \in Seq(S) /\ BaseOf(from, spec) = I!ModulePath(to)
      /\ spec.rest = <<>> => I!IsPrefix(I!ModulePath(to), from.dir)
      /\ spec.rest # <<>> => I!ModulePath(to) # <<>>
  BY <1>1, WrittenLeads DEF spec
<1>4. I!Resolve(files, from, spec) = to
  BY <1>2, <1>3, PathLeads
<1>. QED
  BY <1>1, <1>4 DEF spec

-----------------------------------------------------------------------------
(* Files and folders that move.                                                  *)

MovesOf(S) ==
    [k : {"file"}, old : Places(S), new : Places(S)] \cup [k : {"folder"}, old : Seq(S), new : Seq(S)]
SpecsOf(S) == [k : {"relative", "rooted"}, ups : Nat, rest : Seq(S), extension : BOOLEAN, top : BOOLEAN]

\* What moves is a file where it is then.
LEMMA NewPlaceIs ==
    ASSUME NEW S, NEW moves \in Seq(MovesOf(S)), NEW place \in Places(S)
    PROVE  I!NewPlace(moves, place) \in Places(S)
<1>. DEFINE M == MovesOf(S)
            taking == {i \in DOMAIN moves : I!Moves(moves[i], place)}
<1>1. DOMAIN moves \in SUBSET Nat /\ \A i \in DOMAIN moves : moves[i] \in M
  <2>. HIDE DEF M
  <2>1. moves \in Seq(M)
    BY DEF M
  <2>2. DOMAIN moves = 1 .. Len(moves) /\ Len(moves) \in Nat
    BY <2>1
  <2>. QED
    BY <2>1, <2>2
<1>2. CASE taking = {}
  BY <1>2 DEF I!NewPlace
<1>3. CASE taking # {}
  <2>. DEFINE i == I!Min(taking)
              move == moves[i]
  <2>1. I!NewPlace(moves, place) = I!MovedBy(move, place)
    BY <1>3 DEF I!NewPlace
  <2>2. i \in taking
    <3>1. taking \in SUBSET Nat
      BY <1>1
    <3>. HIDE DEF taking
    <3>. QED
      BY <1>3, <3>1, Least
  <2>3. move \in M /\ I!Moves(move, place)
    BY <1>1, <2>2
  <2>. HIDE DEF move
  <2>4. CASE move.k = "file"
    <3>1. move.new \in Places(S)
      BY <2>3, <2>4 DEF MovesOf
    <3>. QED
      BY <2>1, <2>4, <3>1 DEF I!MovedBy
  <2>5. CASE move.k = "folder"
    <3>1. move.old \in Seq(S) /\ move.new \in Seq(S) /\ place.dir \in Seq(S)
      BY <2>3, <2>5 DEF MovesOf, Places
    <3>2. I!IsPrefix(move.old, place.dir)
      BY <2>3, <2>5 DEF I!Moves
    <3>3. I!Beyond(move.old, place.dir) \in Seq(S)
      <4>1. Len(move.old) <= Len(place.dir) /\ Len(move.old) \in Nat /\ Len(place.dir) \in Nat
        BY <3>1, <3>2 DEF I!IsPrefix
      <4>. QED
        BY <3>1, <4>1 DEF I!Beyond
    <3>4. move.new \o I!Beyond(move.old, place.dir) \in Seq(S)
      BY <3>1, <3>3
    <3>5. I!MovedBy(move, place) = [place EXCEPT !.dir = move.new \o I!Beyond(move.old, place.dir)]
      BY <2>5 DEF I!MovedBy
    <3>. QED
      BY <2>1, <3>4, <3>5 DEF Places
  <2>6. move.k \in {"file", "folder"}
    BY <2>3 DEF MovesOf
  <2>. QED
    BY <2>4, <2>5, <2>6
<1>. QED
  BY <1>2, <1>3

\* What an import leads to is there.
LEMMA LeadsThere ==
    ASSUME OneProject, NEW S, NEW files, NEW from, NEW spec \in SpecsOf(S), I!Resolve(files, from, spec) # I!Nowhere
    PROVE  I!Resolve(files, from, spec) \in files
<1>. DEFINE candidates == I!ModuleFiles(BaseOf(from, spec), spec)
            found == {i \in DOMAIN candidates : candidates[i] \in files}
<1>1. I!Resolve(files, from, spec) = IF found = {} THEN I!Nowhere ELSE candidates[I!Min(found)]
  <2>1. spec.rest \in Seq(S)
    BY DEF SpecsOf
  <2>2. I!Resolve(files, from, spec) = I!FirstIn(files, candidates)
    BY <2>1, ConcatEmptySeq, ResolveIs
  <2>. QED
    BY <2>2 DEF I!FirstIn
<1>2. found # {}
  BY <1>1
<1>3. DOMAIN candidates \in SUBSET Nat
  <2>1. \E a, b : candidates = <<a>> \/ candidates = <<a, b>>
    BY DEF I!ModuleFiles
  <2>2. PICK a, b : candidates = <<a>> \/ candidates = <<a, b>>
    BY <2>1
  <2>. HIDE DEF candidates
  <2>. QED
    BY <2>2
<1>4. I!Min(found) \in found
  <2>1. found \in SUBSET Nat
    BY <1>3
  <2>. HIDE DEF found
  <2>. QED
    BY <1>2, <2>1, Least
<1>. QED
  BY <1>1, <1>2, <1>4

\* Where neither moves, an import that is left as it is leads where it did.
LEMMA StaysLeading ==
    ASSUME OneProject, NEW S, NEW files \in SUBSET Places(S), NEW moved \in SUBSET Places(S), I!Apart(moved),
           NEW from \in Places(S), NEW spec \in SpecsOf(S), NEW to \in moved, to # I!Nowhere,
           I!Resolve(files, from, spec) = to
    PROVE  I!Resolve(moved, from, spec) = to
<1>. DEFINE base == BaseOf(from, spec)
            file == I!FileOf(base)
            init == I!InitOf(base)
<1>1. /\ I!Resolve(files, from, spec) = I!FirstIn(files, I!ModuleFiles(base, spec))
      /\ I!Resolve(moved, from, spec) = I!FirstIn(moved, I!ModuleFiles(base, spec))
  <2>1. spec.rest \in Seq(S)
    BY DEF SpecsOf
  <2>. QED
    BY <2>1, ConcatEmptySeq, ResolveIs
<1>2. base \in Seq(S) /\ (spec.rest # <<>> => base # <<>>)
  <2>1. spec.rest \in Seq(S) /\ from.dir \in Seq(S) /\ spec.ups \in Nat
    BY DEF SpecsOf, Places
  <2>. DEFINE n == Len(from.dir) - spec.ups
              up == SubSeq(from.dir, 1, n)
  <2>2. n \in Int /\ n <= Len(from.dir) /\ Len(from.dir) \in Nat
    BY <2>1
  <2>3. up \in Seq(S)
    <3>. HIDE DEF n
    <3>. QED
      BY <2>1, <2>2
  <2>4. base = spec.rest \/ base = up \o spec.rest
    BY DEF BaseOf
  <2>. HIDE DEF up, base
  <2>5. up \o spec.rest \in Seq(S) /\ (spec.rest # <<>> => up \o spec.rest # <<>>)
    BY <2>1, <2>3
  <2>. QED
    BY <2>1, <2>4, <2>5
<1>. HIDE DEF base
<1>3. base # <<>> => Append(file.dir, file.name) = base
  BY <1>2, FileOfIs
<1>4. init.dir = base
  BY DEF I!InitOf, I!Place
<1>5. init \in moved /\ base # <<>> => file \notin moved
  <2>1. I!IsPrefix(base, base)
    BY <1>2 DEF I!IsPrefix
  <2>. HIDE DEF file, init
  <2>. QED
    BY <1>3, <1>4, <2>1 DEF I!Apart
<1>. HIDE DEF file, init
<1>6. ASSUME NEW a, I!ModuleFiles(base, spec) = <<a>> PROVE I!Resolve(moved, from, spec) = to
  <2>1. a \in files
    <3>. SUFFICES ASSUME a \notin files PROVE FALSE
      OBVIOUS
    <3>1. I!FirstIn(files, <<a>>) = I!Nowhere
      BY NoneThere
    <3>. QED
      BY <1>1, <1>6, <3>1
  <2>2. I!FirstIn(files, <<a>>) = a
    BY <2>1, OneFirst
  <2>3. a = to
    BY <1>1, <1>6, <2>2
  <2>4. I!FirstIn(moved, <<a>>) = a
    BY <2>3, OneFirst
  <2>. QED
    BY <1>1, <1>6, <2>3, <2>4
<1>7. CASE spec.rest = <<>>
  BY <1>6, <1>7 DEF I!ModuleFiles, init
<1>8. CASE spec.rest # <<>> /\ spec.extension
  BY <1>6, <1>8 DEF I!ModuleFiles, file
<1>9. CASE spec.rest # <<>> /\ ~spec.extension
  <2>1. I!ModuleFiles(base, spec) = <<file, init>>
    BY <1>9 DEF I!ModuleFiles, file, init
  <2>2. CASE file \in files
    <3>1. I!FirstIn(files, <<file, init>>) = file
      BY <2>2, FirstOfTwo
    <3>2. to = file
      BY <1>1, <2>1, <3>1
    <3>3. I!FirstIn(moved, <<file, init>>) = file
      BY <3>2, FirstOfTwo
    <3>. QED
      BY <1>1, <2>1, <3>2, <3>3
  <2>3. CASE file \notin files /\ init \in files
    <3>1. I!FirstIn(files, <<file, init>>) = init
      BY <2>3, SecondOfTwo
    <3>2. to = init
      BY <1>1, <2>1, <3>1
    <3>3. file \notin moved
      BY <1>2, <1>5, <1>9, <3>2
    <3>4. I!FirstIn(moved, <<file, init>>) = init
      BY <3>2, <3>3, SecondOfTwo
    <3>. QED
      BY <1>1, <2>1, <3>2, <3>4
  <2>4. file \in files \/ init \in files
    <3>. SUFFICES ASSUME file \notin files, init \notin files PROVE FALSE
      OBVIOUS
    <3>1. \A i \in DOMAIN <<file, init>> : <<file, init>>[i] \notin files
      OBVIOUS
    <3>2. I!FirstIn(files, <<file, init>>) = I!Nowhere
      BY <3>1, NoneThere
    <3>. QED
      BY <1>1, <2>1, <3>2
  <2>. QED
    BY <2>2, <2>3, <2>4
<1>. QED
  BY <1>7, <1>8, <1>9

\* Files and folders of a project move (`moved_imports`): every import at the top of its
\* file, but those of an `init.janet` by its extension, leads to the file it led to, wherever
\* both are now (`MovesKept`), and so does any whose two files stay; for any files, moves
\* and imports. Only that no module is beside a directory of its name is asked for.
THEOREM ImportsFollow ==
    ASSUME OneProject, NEW S, NEW files \in SUBSET Places(S), NEW moves \in Seq(MovesOf(S)),
           NEW specs \in SUBSET SpecsOf(S)
    PROVE  I!MovesKept(files, {I!NewPlace(moves, place) : place \in files}, moves, specs)
<1>. DEFINE New(place) == I!NewPlace(moves, place)
            moved == {New(place) : place \in files}
<1>1. \A place \in files : New(place) \in moved /\ New(place) \in Places(S)
  BY NewPlaceIs
<1>2. moved \in SUBSET Places(S)
  BY <1>1
<1>. SUFFICES ASSUME I!Apart(moved), NEW from \in files, NEW spec \in specs,
                     I!Rewritable(moves, from, spec, I!Resolve(files, from, spec))
              PROVE  I!ImportKept(files, moved, moves, from, spec)
  BY DEF I!MovesKept
<1>. DEFINE to == I!Resolve(files, from, spec)
<1>. SUFFICES ASSUME to # I!Nowhere
              PROVE  I!Resolve(moved, New(from), I!MovedImport(moves, from, spec, to)) = New(to)
  BY DEF I!ImportKept
<1>3. to \in files /\ spec \in SpecsOf(S)
  BY LeadsThere
<1>4. /\ New(from) \in moved /\ New(from) \in Places(S) /\ New(to) \in moved /\ New(to) \in Places(S)
      /\ spec \in SpecsOf(S) /\ from \in Places(S)
  BY <1>1, <1>3
<1>5. CASE ~I!Stays(moves, from, to)
  <2>. DEFINE fresh == I!SpecOf(spec.k, <<>>, New(from), New(to))
              again == [fresh EXCEPT !.extension = spec.extension]
  <2>0. I!ProjectRoot(from) = <<>> /\ I!Named(spec.k, <<>>, New(to))
    BY <1>4, RootIs, ModulePathIs, BeyondRoot DEF I!Named
  <2>6. spec.top /\ (spec.extension => New(to).name # "init")
    BY <1>5 DEF I!Rewritable
  <2>1. I!MovedImport(moves, from, spec, to) = again
    BY <1>5, <2>0, <2>6 DEF I!MovedImport, I!Rewritten
  <2>2. spec.k \in {"relative", "rooted"}
    BY <1>4 DEF SpecsOf
  <2>3. again.k = fresh.k /\ again.ups = fresh.ups /\ again.rest = fresh.rest /\ again.extension = spec.extension
    <3>1. \E k, ups, rest : fresh = [k |-> k, ups |-> ups, rest |-> rest, extension |-> FALSE, top |-> TRUE]
      BY DEF I!SpecOf, I!SpecOfPaths, I!Spec
    <3>. HIDE DEF fresh
    <3>. QED
      BY <3>1
  <2>. HIDE DEF again, moved, New, to
  <2>a. /\ again.rest \in Seq(S) /\ BaseOf(New(from), again) = I!ModulePath(New(to))
        /\ again.rest = <<>> => I!IsPrefix(I!ModulePath(New(to)), New(from).dir)
        /\ again.rest # <<>> => I!ModulePath(New(to)) # <<>>
    BY <1>4, <2>2, <2>3, WrittenLeads
  <2>4. I!Resolve(moved, New(from), again) = New(to)
    BY <1>2, <1>4, <2>3, <2>6, <2>a, PathLeads
  <2>. QED
    BY <2>1, <2>4
<1>6. CASE I!Stays(moves, from, to)
  <2>1. I!MovedImport(moves, from, spec, to) = spec /\ New(from) = from /\ New(to) = to
    BY <1>6 DEF I!MovedImport, I!Stays
  <2>2. to \in moved /\ I!Resolve(files, from, spec) = to
    BY <1>4, <2>1
  <2>. HIDE DEF moved, New, to
  <2>3. I!Resolve(moved, from, spec) = to
    BY <1>2, <1>4, <2>2, StaysLeading
  <2>. QED
    BY <2>1, <2>3
<1>. QED
  BY <1>5, <1>6
=============================================================================
