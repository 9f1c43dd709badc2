---------------------------- MODULE SequenceLemmas ----------------------------
(****************************************************************************)
(* Lemmas about numbers and sequences that the theorems share. The          *)
(* library's induction takes an operator, which no prover here can          *)
(* instantiate; these take a set, the numbers for which something holds.    *)
(****************************************************************************)
EXTENDS SequenceFilters, Integers, SequencesExt, SequenceTheorems, FiniteSetTheorems,
        NaturalsInduction, WellFoundedInduction, TLAPS

-----------------------------------------------------------------------------
(* Numbers *)

\* A set of numbers has a least one; the library states it with an operator parameter.
Less == {p \in Nat \X Nat : p[1] < p[2]}
LEMMA LessIsWellFounded == IsWellFoundedOn(Less, Nat)
BY Zenon, NatLessThanWellFounded DEF OpToRel, Less

LEMMA LeastOf ==
    ASSUME NEW S \in SUBSET Nat, S # {}
    PROVE  \E x \in S : \A y \in S : x <= y
<1>1. PICK x \in S : \A y \in S : ~(<<y, x>> \in Less)
  BY LessIsWellFounded, WFMin
<1>2. ASSUME NEW y \in S
      PROVE  x <= y
  <2>1. ~(<<y, x>> \in Less) /\ x \in Nat /\ y \in Nat
    BY <1>1
  <2>2. ~(y < x)
    BY <2>1 DEF Less
  <2> QED
    BY <2>1, <2>2
<1> QED
  BY <1>2

LEMMA MinIsIn ==
    ASSUME NEW S \in SUBSET Nat, S # {}
    PROVE  Min(S) \in S
BY LeastOf DEF Min

LEMMA MaxIsIn ==
    ASSUME NEW n \in Nat, NEW S \in SUBSET (0..n), S # {}
    PROVE  Max(S) \in S
<1> DEFINE T == {n - x : x \in S}
<1>1. T \in SUBSET Nat /\ T # {}
  <2>1. PICK z \in S : TRUE
    OBVIOUS
  <2>2. n - z \in T
    OBVIOUS
  <2>3. \A x \in S : n - x \in Nat
    OBVIOUS
  <2> QED
    BY <2>2, <2>3
<1>2. PICK y \in T : \A z \in T : y <= z
  BY <1>1, LeastOf
<1>3. PICK x \in S : y = n - x
  BY <1>2
<1>4. ASSUME NEW z \in S
      PROVE  x >= z
  <2>1. n - z \in T
    OBVIOUS
  <2>2. n - x <= n - z
    BY <1>2, <1>3, <2>1
  <2> QED
    BY <2>2
<1> QED
  BY <1>3, <1>4 DEF Max

\* Induction up to n, over the set of the numbers for which something holds
LEMMA AllUpTo ==
    ASSUME NEW n \in Nat, NEW G, 0 \in G, \A i \in 1..n : i - 1 \in G => i \in G
    PROVE  \A i \in 0..n : i \in G
<1> DEFINE Bad == {i \in 0..n : i \notin G}
<1>1. SUFFICES ASSUME Bad # {}
               PROVE  FALSE
  OBVIOUS
<1>2. PICK x \in Bad : \A y \in Bad : x <= y
  <2>1. Bad \in SUBSET Nat
    OBVIOUS
  <2> QED
    BY <1>1, <2>1, LeastOf
<1>3. x \in 1..n /\ x - 1 \in 0..n /\ ~(x <= x - 1)
  BY <1>2
<1>4. x - 1 \in G
  BY <1>2, <1>3
<1> QED
  BY <1>2, <1>3, <1>4

\* A function is defined by its first value and by what each is made of the one before.
IsMadeBy(step, start, n, f) == f = [i \in 0..n |-> IF i = 0 THEN start ELSE step[i, f[i - 1]]]

LEMMA RecursionExists ==
    ASSUME NEW n \in Nat, NEW T, NEW start \in T, NEW step \in [(1..n) \X T -> T]
    PROVE  \E f \in [0..n -> T] : IsMadeBy(step, start, n, f)
<1> DEFINE G == {m \in 0..n : \E f \in [0..m -> T] : IsMadeBy(step, start, m, f)}
<1>1. 0 \in G
  <2> DEFINE f == [i \in 0..0 |-> start]
  <2>1. f \in [0..0 -> T] /\ f = [i \in 0..0 |-> IF i = 0 THEN start ELSE step[i, f[i - 1]]]
    OBVIOUS
  <2>2. IsMadeBy(step, start, 0, f)
    BY <2>1 DEF IsMadeBy
  <2> HIDE DEF f
  <2>3. \E h \in [0..0 -> T] : IsMadeBy(step, start, 0, h)
    BY <2>1, <2>2
  <2> QED
    BY <2>3
<1>2. ASSUME NEW m \in 1..n, m - 1 \in G
      PROVE  m \in G
  <2>1. PICK g \in [0..(m - 1) -> T] : IsMadeBy(step, start, m - 1, g)
    BY <1>2
  <2>2. g[m - 1] \in T /\ step[m, g[m - 1]] \in T
    <3>1. m - 1 \in 0..(m - 1)
      OBVIOUS
    <3> QED
      BY <3>1
  <2> DEFINE f == [i \in 0..m |-> IF i = m THEN step[m, g[m - 1]] ELSE g[i]]
  <2>3. f \in [0..m -> T]
    <3>1. \A i \in 0..m : i # m => i \in 0..(m - 1)
      OBVIOUS
    <3> QED
      BY <2>2, <3>1
  <2>4. ASSUME NEW i \in 0..m
        PROVE  f[i] = IF i = 0 THEN start ELSE step[i, f[i - 1]]
    <3>1. CASE i = m
      <4>1. f[i] = step[m, g[m - 1]] /\ i # 0
        BY <3>1
      <4>2. m - 1 \in 0..m /\ m - 1 # m
        OBVIOUS
      <4>3. f[m - 1] = g[m - 1]
        BY <4>2
      <4> QED
        BY <3>1, <4>1, <4>3
    <3>2. CASE i # m
      <4>1. i \in 0..(m - 1) /\ f[i] = g[i]
        BY <3>2
      <4>2. g[i] = IF i = 0 THEN start ELSE step[i, g[i - 1]]
        BY <2>1, <4>1 DEF IsMadeBy
      <4>3. i # 0 => i - 1 \in 0..m /\ i - 1 # m
        BY <3>2
      <4>4. i # 0 => f[i - 1] = g[i - 1]
        BY <4>3
      <4> QED
        BY <4>1, <4>2, <4>4
    <3> QED
      BY <3>1, <3>2
  <2>5. IsMadeBy(step, start, m, f)
    <3>1. f = [i \in 0..m |-> f[i]]
      OBVIOUS
    <3> HIDE DEF f
    <3> QED
      BY <2>4, <3>1 DEF IsMadeBy
  <2> HIDE DEF f
  <2> QED
    BY <2>3, <2>5
<1>3. n \in G
  <2> HIDE DEF G
  <2> QED
    BY <1>1, <1>2, AllUpTo
<1> QED
  BY <1>3

-----------------------------------------------------------------------------
(* Sequences: what they have *)

Has(s, e)     == \E i \in DOMAIN s : s[i] = e
Unrepeated(s) == \A i, j \in DOMAIN s : s[i] = s[j] => i = j

LEMMA NoneHas == Unrepeated(<<>>) /\ \A e : ~Has(<<>>, e)
BY DEF Unrepeated, Has

LEMMA OneHas ==
    ASSUME NEW S, NEW x \in S
    PROVE  /\ <<x>> \in Seq(S) /\ DOMAIN <<x>> = {1} /\ Unrepeated(<<x>>)
           /\ \A e : Has(<<x>>, e) <=> e = x
BY DEF Unrepeated, Has

LEMMA AppendHas ==
    ASSUME NEW S, NEW s \in Seq(S), NEW x \in S
    PROVE  /\ Append(s, x) \in Seq(S)
           /\ \A e : Has(Append(s, x), e) <=> Has(s, e) \/ e = x
           /\ Unrepeated(Append(s, x)) <=> Unrepeated(s) /\ ~Has(s, x)
<1> DEFINE t == Append(s, x)
<1>1. /\ t \in Seq(S) /\ Len(s) \in Nat /\ DOMAIN s = 1..Len(s)
      /\ Len(t) = Len(s) + 1 /\ t[Len(s) + 1] = x
      /\ \A i \in 1..Len(s) : t[i] = s[i]
  BY AppendProperties
<1>2. DOMAIN t = DOMAIN s \cup {Len(s) + 1} /\ Len(s) + 1 \notin DOMAIN s
  BY <1>1
<1> HIDE DEF t
<1>3. \A e : Has(t, e) <=> Has(s, e) \/ e = x
  BY <1>1, <1>2 DEF Has
<1>4. ASSUME Unrepeated(s), ~Has(s, x), NEW i \in DOMAIN t, NEW j \in DOMAIN t, t[i] = t[j]
      PROVE  i = j
  <2>1. CASE i \in DOMAIN s /\ j \in DOMAIN s
    BY <1>1, <1>4, <2>1 DEF Unrepeated
  <2>2. CASE i \notin DOMAIN s \/ j \notin DOMAIN s
    BY <1>1, <1>2, <1>4, <2>2 DEF Has
  <2> QED
    BY <2>1, <2>2
<1>5. Unrepeated(s) /\ ~Has(s, x) => Unrepeated(t)
  BY <1>4 DEF Unrepeated
<1>6. ASSUME Unrepeated(t)
      PROVE  Unrepeated(s) /\ ~Has(s, x)
  <2>1. Unrepeated(s)
    BY <1>1, <1>2, <1>6 DEF Unrepeated
  <2>2. ~Has(s, x)
    BY <1>1, <1>2, <1>6 DEF Unrepeated, Has
  <2> QED
    BY <2>1, <2>2
<1> QED
  BY <1>1, <1>3, <1>5, <1>6 DEF t

LEMMA ConcatHas ==
    ASSUME NEW S, NEW s \in Seq(S), NEW t \in Seq(S)
    PROVE  /\ s \o t \in Seq(S)
           /\ \A e : Has(s \o t, e) <=> Has(s, e) \/ Has(t, e)
           /\ Unrepeated(s) /\ Unrepeated(t) /\ (\A e : ~(Has(s, e) /\ Has(t, e)))
              => Unrepeated(s \o t)
<1> DEFINE u == s \o t
<1>1. /\ u \in Seq(S) /\ Len(u) = Len(s) + Len(t) /\ Len(s) \in Nat /\ Len(t) \in Nat
      /\ DOMAIN s = 1..Len(s) /\ DOMAIN t = 1..Len(t) /\ DOMAIN u = 1..(Len(s) + Len(t))
      /\ \A i \in 1..(Len(s) + Len(t)) : u[i] = IF i <= Len(s) THEN s[i] ELSE t[i - Len(s)]
  BY ConcatProperties
<1> HIDE DEF u
<1>2. ASSUME NEW i \in DOMAIN u
      PROVE  \/ i \in DOMAIN s /\ u[i] = s[i]
             \/ i > Len(s) /\ i - Len(s) \in DOMAIN t /\ u[i] = t[i - Len(s)]
  BY <1>1
<1>3. ASSUME NEW i \in DOMAIN s
      PROVE  i \in DOMAIN u /\ u[i] = s[i]
  BY <1>1
<1>4. ASSUME NEW i \in DOMAIN t
      PROVE  i + Len(s) \in DOMAIN u /\ u[i + Len(s)] = t[i]
  <2>1. i + Len(s) \in 1..(Len(s) + Len(t)) /\ ~(i + Len(s) <= Len(s))
        /\ (i + Len(s)) - Len(s) = i
    BY <1>1
  <2> QED
    BY <1>1, <2>1
<1>5. \A e : Has(u, e) <=> Has(s, e) \/ Has(t, e)
  BY <1>2, <1>3, <1>4 DEF Has
<1>6. ASSUME Unrepeated(s), Unrepeated(t), \A e : ~(Has(s, e) /\ Has(t, e)),
             NEW i \in DOMAIN u, NEW j \in DOMAIN u, u[i] = u[j]
      PROVE  i = j
  <2>1. CASE i \in DOMAIN s /\ u[i] = s[i] /\ j \in DOMAIN s /\ u[j] = s[j]
    BY <1>6, <2>1 DEF Unrepeated
  <2>2. CASE i - Len(s) \in DOMAIN t /\ u[i] = t[i - Len(s)]
             /\ j - Len(s) \in DOMAIN t /\ u[j] = t[j - Len(s)]
    <3>1. i - Len(s) = j - Len(s)
      BY <1>6, <2>2 DEF Unrepeated
    <3>2. i \in Nat /\ j \in Nat /\ Len(s) \in Nat
      BY <1>1, <1>6
    <3> QED
      BY <3>1, <3>2
  <2>3. CASE \/ /\ i \in DOMAIN s /\ u[i] = s[i]
                /\ j - Len(s) \in DOMAIN t /\ u[j] = t[j - Len(s)]
             \/ /\ j \in DOMAIN s /\ u[j] = s[j]
                /\ i - Len(s) \in DOMAIN t /\ u[i] = t[i - Len(s)]
    BY <1>6, <2>3 DEF Has
  <2> QED
    BY <1>2, <1>6, <2>1, <2>2, <2>3
<1>7. Unrepeated(s) /\ Unrepeated(t) /\ (\A e : ~(Has(s, e) /\ Has(t, e))) => Unrepeated(u)
  BY <1>6 DEF Unrepeated
<1> QED
  BY <1>1, <1>5, <1>7 DEF u

\* A set as a sequence has each of its elements once.
LEMMA SetToSeqHas ==
    ASSUME NEW S, IsFiniteSet(S)
    PROVE  /\ SetToSeq(S) \in Seq(S) /\ Unrepeated(SetToSeq(S))
           /\ \A e : Has(SetToSeq(S), e) => e \in S
<1>1. \E f \in [1..Cardinality(S) -> S] : IsInjective(f)
  BY FS_CardinalityType DEF ExistsBijection, Bijection, Injection, IsInjective
<1>2. SetToSeq(S) \in [1..Cardinality(S) -> S] /\ IsInjective(SetToSeq(S))
  BY <1>1 DEF SetToSeq
<1>3. Cardinality(S) \in Nat
  BY FS_CardinalityType
<1>4. SetToSeq(S) \in Seq(S) /\ Unrepeated(SetToSeq(S))
  BY <1>2, <1>3 DEF IsInjective, Unrepeated
<1>5. \A e : Has(SetToSeq(S), e) => e \in S
  BY <1>2 DEF Has
<1> QED
  BY <1>4, <1>5

LEMMA PrefixHas ==
    ASSUME NEW S, NEW s \in Seq(S), NEW n \in 0..Len(s)
    PROVE  /\ SubSeq(s, 1, n) \in Seq(S) /\ Len(SubSeq(s, 1, n)) = n
           /\ \A i \in 1..n : SubSeq(s, 1, n)[i] = s[i]
           /\ \A e : Has(SubSeq(s, 1, n), e) => Has(s, e)
           /\ Unrepeated(s) => Unrepeated(SubSeq(s, 1, n))
<1> DEFINE t == SubSeq(s, 1, n)
<1>1. /\ t \in Seq(S) /\ Len(s) \in Nat /\ DOMAIN s = 1..Len(s)
      /\ Len(t) = n /\ \A i \in 1..n : t[i] = s[i]
  <2>1. Len(s) \in Nat /\ n <= Len(s) /\ \A i \in 1..n : i \in 1..Len(s)
    OBVIOUS
  <2>2. t = [i \in 1..n |-> s[i]]
    <3>1. t = [i \in 1..(n - 1 + 1) |-> s[i + 1 - 1]]
      BY <2>1
    <3> QED
      BY <2>1, <3>1
  <2> QED
    BY <2>1, <2>2
<1>2. DOMAIN t = 1..n /\ 1..n \subseteq 1..Len(s)
  BY <1>1
<1> HIDE DEF t
<1>3. \A e : Has(t, e) => Has(s, e)
  BY <1>1, <1>2 DEF Has
<1>4. Unrepeated(s) => Unrepeated(t)
  BY <1>1, <1>2 DEF Unrepeated
<1> QED
  BY <1>1, <1>3, <1>4 DEF t

\* What is left after one element is taken out
LEMMA RemoveAtIs ==
    ASSUME NEW S, NEW s \in Seq(S), NEW n \in DOMAIN s
    PROVE  /\ RemoveAt(s, n) \in Seq(S) /\ DOMAIN RemoveAt(s, n) = 1..(Len(s) - 1)
           /\ \A i \in 1..(Len(s) - 1) : RemoveAt(s, n)[i] = IF i < n THEN s[i] ELSE s[i + 1]
<1> DEFINE left  == SubSeq(s, 1, n - 1)
           right == SubSeq(s, n + 1, Len(s))
<1>1. Len(s) \in Nat /\ n \in 1..Len(s) /\ DOMAIN s = 1..Len(s) /\ \A i \in 1..Len(s) : s[i] \in S
  OBVIOUS
<1>2. /\ left \in Seq(S) /\ Len(left) = n - 1 /\ \A i \in 1..(n - 1) : left[i] = s[i]
  <2>1. n - 1 \in 0..Len(s)
    BY <1>1
  <2> QED
    BY <2>1, PrefixHas
<1>3. /\ right \in Seq(S) /\ Len(right) = Len(s) - n
      /\ \A i \in 1..(Len(s) - n) : right[i] = s[n + i]
  <2>1. n + 1 \in Int /\ Len(s) \in Int /\ \A i \in (n + 1)..Len(s) : s[i] \in S
    BY <1>1
  <2>2. /\ right \in Seq(S) /\ Len(right) = IF n + 1 <= Len(s) THEN Len(s) - (n + 1) + 1 ELSE 0
        /\ \A i \in 1..(Len(s) - (n + 1) + 1) : right[i] = s[(n + 1) + i - 1]
    BY <2>1, SubSeqProperties
  <2> HIDE DEF right
  <2>3. Len(s) - (n + 1) + 1 = Len(s) - n
        /\ \A i \in 1..(Len(s) - n) : (n + 1) + i - 1 = n + i
    BY <1>1
  <2>4. Len(right) = Len(s) - n
    BY <1>1, <2>2
  <2> QED
    BY <2>2, <2>3, <2>4
<1> HIDE DEF left, right
<1>4. /\ left \o right \in Seq(S) /\ DOMAIN (left \o right) = 1..(Len(s) - 1)
      /\ \A i \in 1..(Len(s) - 1) :
            (left \o right)[i] = IF i <= n - 1 THEN left[i] ELSE right[i - (n - 1)]
  <2>1. /\ left \o right \in Seq(S) /\ Len(left \o right) = Len(left) + Len(right)
        /\ \A i \in 1..(Len(left) + Len(right)) :
              (left \o right)[i] = IF i <= Len(left) THEN left[i] ELSE right[i - Len(left)]
    BY <1>2, <1>3, ConcatProperties
  <2>2. Len(left) = n - 1 /\ Len(left) + Len(right) = Len(s) - 1
    BY <1>1, <1>2, <1>3
  <2>3. DOMAIN (left \o right) = 1..Len(left \o right)
    BY <2>1
  <2> QED
    BY <2>1, <2>2, <2>3
<1>5. ASSUME NEW i \in 1..(Len(s) - 1)
      PROVE  (left \o right)[i] = IF i < n THEN s[i] ELSE s[i + 1]
  <2>1. CASE i < n
    <3>1. i <= n - 1 /\ i \in 1..(n - 1)
      BY <1>1, <2>1
    <3> QED
      BY <1>2, <1>4, <2>1, <3>1
  <2>2. CASE ~(i < n)
    <3>1. ~(i <= n - 1) /\ i - (n - 1) \in 1..(Len(s) - n) /\ n + (i - (n - 1)) = i + 1
      BY <1>1, <2>2
    <3> QED
      BY <1>3, <1>4, <2>2, <3>1
  <2> QED
    BY <2>1, <2>2
<1> QED
  BY <1>4, <1>5 DEF RemoveAt, left, right

-----------------------------------------------------------------------------
(* Sequences: how they are built *)

\* Induction over sequences, as a set of them
LEMMA ByAppending ==
    ASSUME NEW S, NEW G, <<>> \in G,
           \A s \in Seq(S) : \A x \in S : s \in G => Append(s, x) \in G
    PROVE  \A s \in Seq(S) : s \in G
<1> SUFFICES ASSUME NEW s \in Seq(S)
             PROVE  s \in G
  OBVIOUS
<1> DEFINE H == {n \in 0..Len(s) : SubSeq(s, 1, n) \in G}
<1>1. Len(s) \in Nat /\ SubSeq(s, 1, 0) = <<>> /\ SubSeq(s, 1, Len(s)) = s
  BY SubSeqEmpty, SubSeqFull
<1>2. 0 \in H
  <2>1. 0 \in 0..Len(s)
    BY <1>1
  <2>2. SubSeq(s, 1, 0) \in G
    BY <1>1, Zenon
  <2> QED
    BY <2>1, <2>2
<1>3. ASSUME NEW n \in 1..Len(s), n - 1 \in H
      PROVE  n \in H
  <2>1. SubSeq(s, 1, n - 1) \in Seq(S) /\ s[n] \in S /\ n \in 0..Len(s)
    BY <1>1, <1>3, PrefixHas
  <2>2. SubSeq(s, 1, n) = Append(SubSeq(s, 1, n - 1), s[n])
    <3>1. 1 \in 1..Len(s) /\ n \in 1..Len(s)
      BY <1>1
    <3> QED
      BY <2>1, <3>1, SubSeqRecursiveSecond, AppendIsConcat
  <2> QED
    BY <1>3, <2>1, <2>2
<1>4. Len(s) \in H
  <2> HIDE DEF H
  <2>1. \A n \in 0..Len(s) : n \in H
    BY <1>1, <1>2, <1>3, AllUpTo
  <2> QED
    BY <1>1, <2>1
<1>5. SubSeq(s, 1, Len(s)) \in G
  BY <1>4
<1> QED
  BY <1>1, <1>5

-----------------------------------------------------------------------------
(* Sequences: what filters and concatenations leave *)

\* A recursive definition of the filters has the values it says.
ExcludingNext(s, dropped, f, n) ==
    IF n = 0 THEN <<>>
    ELSE IF s[n] \in dropped THEN f[n - 1] ELSE Append(f[n - 1], s[n])

LEMMA ExcludingMade ==
    ASSUME NEW S, NEW s \in Seq(S), NEW dropped
    PROVE  \E kept : /\ Excluding(s, dropped) = kept[Len(s)]
                     /\ \A n \in 0..Len(s) : kept[n] = ExcludingNext(s, dropped, kept, n)
<1> DEFINE step == [p \in (1..Len(s)) \X Seq(S) |->
                      IF s[p[1]] \in dropped THEN p[2] ELSE Append(p[2], s[p[1]])]
           Made(f) == f = [n \in 0..Len(s) |-> ExcludingNext(s, dropped, f, n)]
<1>1. Len(s) \in Nat /\ <<>> \in Seq(S) /\ \A i \in 1..Len(s) : s[i] \in S
  OBVIOUS
<1>2. step \in [(1..Len(s)) \X Seq(S) -> Seq(S)]
  <2>1. ASSUME NEW p \in (1..Len(s)) \X Seq(S)
        PROVE  (IF s[p[1]] \in dropped THEN p[2] ELSE Append(p[2], s[p[1]])) \in Seq(S)
    <3>1. p[2] \in Seq(S) /\ s[p[1]] \in S
      BY <1>1
    <3> QED
      BY <3>1, AppendProperties
  <2> QED
    BY <2>1
<1>3. \A i \in 1..Len(s), t \in Seq(S) :
         step[i, t] = IF s[i] \in dropped THEN t ELSE Append(t, s[i])
  OBVIOUS
<1> HIDE DEF step
<1>4. PICK g \in [0..Len(s) -> Seq(S)] : IsMadeBy(step, <<>>, Len(s), g)
  BY <1>1, <1>2, RecursionExists
<1>5. ASSUME NEW n \in 0..Len(s)
      PROVE  g[n] = ExcludingNext(s, dropped, g, n)
  <2>1. g[n] = IF n = 0 THEN <<>> ELSE step[n, g[n - 1]]
    BY <1>4 DEF IsMadeBy
  <2>2. n # 0 => n \in 1..Len(s) /\ n - 1 \in 0..Len(s)
    BY <1>1
  <2>3. n # 0 => g[n - 1] \in Seq(S)
    BY <2>2
  <2> QED
    BY <1>3, <2>1, <2>2, <2>3 DEF ExcludingNext
<1>6. Made(g)
  BY <1>5
<1> DEFINE kept == CHOOSE f : Made(f)
<1>7. Made(kept)
  BY <1>6
<1>8. Excluding(s, dropped) = kept[Len(s)]
  BY DEF Excluding, ExcludingNext
<1> HIDE DEF kept
<1> QED
  BY <1>7, <1>8

\* What a filter leaves of a sequence with one more
LEMMA ExcludingAppend ==
    ASSUME NEW S, NEW s \in Seq(S), NEW x \in S, NEW dropped
    PROVE  Excluding(Append(s, x), dropped) =
              IF x \in dropped THEN Excluding(s, dropped) ELSE Append(Excluding(s, dropped), x)
<1> DEFINE t == Append(s, x)
<1>1. /\ t \in Seq(S) /\ Len(s) \in Nat /\ Len(t) = Len(s) + 1 /\ t[Len(s) + 1] = x
      /\ \A i \in 1..Len(s) : t[i] = s[i]
  BY AppendProperties
<1> HIDE DEF t
<1>2. PICK f : /\ Excluding(s, dropped) = f[Len(s)]
               /\ \A n \in 0..Len(s) : f[n] = ExcludingNext(s, dropped, f, n)
  BY ExcludingMade
<1>3. PICK g : /\ Excluding(t, dropped) = g[Len(t)]
               /\ \A n \in 0..Len(t) : g[n] = ExcludingNext(t, dropped, g, n)
  BY <1>1, ExcludingMade
<1> DEFINE G == {n \in 0..Len(s) : f[n] = g[n]}
<1>4. 0 \in G
  <2>1. 0 \in 0..Len(s) /\ 0 \in 0..Len(t)
    BY <1>1
  <2> QED
    BY <1>2, <1>3, <2>1 DEF ExcludingNext
<1>5. ASSUME NEW n \in 1..Len(s), n - 1 \in G
      PROVE  n \in G
  <2>1. n \in 0..Len(s) /\ n \in 0..Len(t) /\ n # 0 /\ t[n] = s[n] /\ f[n - 1] = g[n - 1]
    BY <1>1, <1>5
  <2> QED
    BY <1>2, <1>3, <2>1 DEF ExcludingNext
<1>6. f[Len(s)] = g[Len(s)]
  <2> HIDE DEF G
  <2>1. \A n \in 0..Len(s) : n \in G
    BY <1>1, <1>4, <1>5, AllUpTo
  <2> QED
    BY <1>1, <2>1 DEF G
<1>7. /\ Len(s) + 1 \in 0..Len(t) /\ Len(s) + 1 # 0 /\ (Len(s) + 1) - 1 = Len(s)
  BY <1>1
<1>8. g[Len(s) + 1] = IF x \in dropped THEN g[Len(s)] ELSE Append(g[Len(s)], x)
  BY <1>1, <1>3, <1>7 DEF ExcludingNext
<1> QED
  BY <1>1, <1>2, <1>3, <1>6, <1>8 DEF t

LEMMA ExcludingNone == \A dropped : Excluding(<<>>, dropped) = <<>>
<1> SUFFICES ASSUME NEW dropped
             PROVE  Excluding(<<>>, dropped) = <<>>
  OBVIOUS
<1>1. ASSUME NEW S, NEW s \in Seq(S), Len(s) = 0
      PROVE  Excluding(s, dropped) = <<>>
  <2>1. PICK f : /\ Excluding(s, dropped) = f[Len(s)]
                 /\ \A n \in 0..Len(s) : f[n] = ExcludingNext(s, dropped, f, n)
    BY ExcludingMade
  <2>2. 0 \in 0..Len(s)
    BY <1>1
  <2> QED
    BY <1>1, <2>1, <2>2 DEF ExcludingNext
<1>2. <<>> \in Seq({}) /\ Len(<<>>) = 0
  OBVIOUS
<1> QED
  BY <1>1, <1>2, Zenon

\* What is not dropped is kept, and nothing else.
LEMMA ExcludingHas ==
    ASSUME NEW S, NEW s \in Seq(S), NEW dropped
    PROVE  /\ Excluding(s, dropped) \in Seq(S)
           /\ \A e : Has(Excluding(s, dropped), e) <=> Has(s, e) /\ e \notin dropped
           /\ Unrepeated(s) => Unrepeated(Excluding(s, dropped))
<1> DEFINE Good(t) ==
       /\ Excluding(t, dropped) \in Seq(S)
       /\ \A e : Has(Excluding(t, dropped), e) <=> Has(t, e) /\ e \notin dropped
       /\ Unrepeated(t) => Unrepeated(Excluding(t, dropped))
    G == {t \in Seq(S) : Good(t)}
<1>1. <<>> \in G
  <2>1. <<>> \in Seq(S)
    OBVIOUS
  <2> QED
    BY <2>1, ExcludingNone, NoneHas
<1>2. ASSUME NEW t \in Seq(S), NEW x \in S, t \in G
      PROVE  Append(t, x) \in G
  <2> DEFINE u == Append(t, x)
             kept == Excluding(t, dropped)
  <2>1. /\ u \in Seq(S) /\ (\A e : Has(u, e) <=> Has(t, e) \/ e = x)
        /\ Unrepeated(u) => Unrepeated(t) /\ ~Has(t, x)
    BY AppendHas
  <2>2. Excluding(u, dropped) = IF x \in dropped THEN kept ELSE Append(kept, x)
    BY ExcludingAppend
  <2>3. /\ kept \in Seq(S) /\ (\A e : Has(kept, e) <=> Has(t, e) /\ e \notin dropped)
        /\ Unrepeated(t) => Unrepeated(kept)
    BY <1>2
  <2> HIDE DEF u, kept
  <2>4. CASE x \in dropped
    BY <2>1, <2>2, <2>3, <2>4 DEF u
  <2>5. CASE x \notin dropped
    <3>1. /\ Append(kept, x) \in Seq(S)
          /\ \A e : Has(Append(kept, x), e) <=> Has(kept, e) \/ e = x
          /\ Unrepeated(kept) /\ ~Has(kept, x) => Unrepeated(Append(kept, x))
      BY <2>3, AppendHas
    <3>2. Good(u)
      BY <2>1, <2>2, <2>3, <2>5, <3>1
    <3> QED
      BY <2>1, <3>2 DEF u
  <2> QED
    BY <2>4, <2>5
<1>3. s \in G
  <2> HIDE DEF G
  <2> QED
    BY <1>1, <1>2, ByAppending
<1> QED
  BY <1>3

\* Two sets that differ in nothing the sequence has drop the same; one that has nothing of
\* the sequence drops nothing.
LEMMA ExcludingSame ==
    ASSUME NEW S, NEW s \in Seq(S), NEW A, NEW B, \A e : Has(s, e) => (e \in A <=> e \in B)
    PROVE  Excluding(s, A) = Excluding(s, B)
<1> DEFINE Good(t) == (\A e : Has(t, e) => (e \in A <=> e \in B))
                         => Excluding(t, A) = Excluding(t, B)
           G == {t \in Seq(S) : Good(t)}
<1>1. <<>> \in G
  BY ExcludingNone
<1>2. ASSUME NEW t \in Seq(S), NEW x \in S, t \in G
      PROVE  Append(t, x) \in G
  <2>1. Append(t, x) \in Seq(S) /\ \A e : Has(Append(t, x), e) <=> Has(t, e) \/ e = x
    BY AppendHas
  <2>2. ASSUME \A e : Has(Append(t, x), e) => (e \in A <=> e \in B)
        PROVE  Excluding(Append(t, x), A) = Excluding(Append(t, x), B)
    <3>1. Excluding(t, A) = Excluding(t, B) /\ (x \in A <=> x \in B)
      BY <1>2, <2>1, <2>2
    <3>2. Excluding(Append(t, x), A) =
             IF x \in A THEN Excluding(t, A) ELSE Append(Excluding(t, A), x)
      BY ExcludingAppend
    <3>3. Excluding(Append(t, x), B) =
             IF x \in B THEN Excluding(t, B) ELSE Append(Excluding(t, B), x)
      BY ExcludingAppend
    <3> QED
      BY <3>1, <3>2, <3>3
  <2> QED
    BY <2>1, <2>2
<1>3. s \in G
  <2> HIDE DEF G
  <2> QED
    BY <1>1, <1>2, ByAppending
<1> QED
  BY <1>3

LEMMA ExcludingAbsent ==
    ASSUME NEW S, NEW s \in Seq(S), NEW A, \A e : Has(s, e) => e \notin A
    PROVE  Excluding(s, A) = s
<1> DEFINE none == {}
           G == {t \in Seq(S) : Excluding(t, none) = t}
<1>0. \A e : e \notin none
  OBVIOUS
<1> HIDE DEF none
<1>1. <<>> \in G
  BY ExcludingNone
<1>2. ASSUME NEW t \in Seq(S), NEW x \in S, t \in G
      PROVE  Append(t, x) \in G
  <2>1. Append(t, x) \in Seq(S)
    BY AppendHas
  <2>2. Excluding(Append(t, x), none) = Append(t, x)
    <3>1. x \notin none /\ Excluding(t, none) = t
      BY <1>0, <1>2
    <3>2. Excluding(Append(t, x), none) =
             IF x \in none THEN Excluding(t, none) ELSE Append(Excluding(t, none), x)
      BY ExcludingAppend
    <3> QED
      BY <3>1, <3>2
  <2> QED
    BY <2>1, <2>2
<1>3. s \in G
  <2> HIDE DEF G
  <2> QED
    BY <1>1, <1>2, ByAppending
<1>4. Excluding(s, A) = Excluding(s, none)
  BY <1>0, ExcludingSame
<1> QED
  BY <1>3, <1>4

\* The same, as what a proof about named sequences can cite: their terms are many.
Associates(a, b, c) == (a \o b) \o c = a \o (b \o c)

LEMMA Associative ==
    ASSUME NEW S, NEW a \in Seq(S), NEW b \in Seq(S), NEW c \in Seq(S)
    PROVE  Associates(a, b, c)
BY ConcatAssociative DEF Associates

\* t is one sequence behind the other.
IsJoined(t, S, a, b) ==
    /\ t \in Seq(S) /\ Len(t) = Len(a) + Len(b)
    /\ \A i \in 1..(Len(a) + Len(b)) : t[i] = IF i <= Len(a) THEN a[i] ELSE b[i - Len(a)]

LEMMA ConcatIs ==
    ASSUME NEW S, NEW a \in Seq(S), NEW b \in Seq(S)
    PROVE  IsJoined(a \o b, S, a, b)
BY ConcatProperties DEF IsJoined

\* One element more is excluded or comes last.
ExcludesOneMore(s, x, A) ==
    Excluding(Append(s, x), A) =
       IF x \in A THEN Excluding(s, A) ELSE Append(Excluding(s, A), x)

LEMMA ExcludingOneMore ==
    ASSUME NEW S, NEW s \in Seq(S), NEW x \in S, NEW A
    PROVE  ExcludesOneMore(s, x, A)
BY ExcludingAppend DEF ExcludesOneMore

LEMMA ConcatAppend ==
    ASSUME NEW S, NEW s \in Seq(S), NEW t \in Seq(S), NEW x \in S
    PROVE  s \o Append(t, x) = Append(s \o t, x)
<1>1. <<x>> \in Seq(S) /\ s \o t \in Seq(S)
  BY OneHas, ConcatHas
<1>2. Append(t, x) = t \o <<x>> /\ Append(s \o t, x) = (s \o t) \o <<x>>
  BY <1>1, AppendIsConcat
<1>3. s \o (t \o <<x>>) = (s \o t) \o <<x>>
  BY <1>1, ConcatAssociative
<1> QED
  BY <1>2, <1>3

LEMMA ExcludingConcat ==
    ASSUME NEW S, NEW s \in Seq(S), NEW t \in Seq(S), NEW A
    PROVE  Excluding(s \o t, A) = Excluding(s, A) \o Excluding(t, A)
<1> DEFINE G == {u \in Seq(S) : Excluding(s \o u, A) = Excluding(s, A) \o Excluding(u, A)}
<1>1. <<>> \in G
  <2>1. <<>> \in Seq(S) /\ Excluding(s, A) \in Seq(S) /\ s \o <<>> = s
    BY ExcludingHas, ConcatEmptySeq
  <2>2. Excluding(s, A) \o <<>> = Excluding(s, A)
    BY <2>1, ConcatEmptySeq
  <2>3. Excluding(s \o <<>>, A) = Excluding(s, A) \o Excluding(<<>>, A)
    BY <2>1, <2>2, ExcludingNone, Zenon
  <2> QED
    BY <2>1, <2>3
<1>2. ASSUME NEW u \in Seq(S), NEW x \in S, u \in G
      PROVE  Append(u, x) \in G
  <2> DEFINE left  == Excluding(s, A)
             right == Excluding(u, A)
  <2>1. /\ left \in Seq(S) /\ right \in Seq(S) /\ s \o u \in Seq(S) /\ Append(u, x) \in Seq(S)
        /\ Excluding(s \o u, A) = left \o right
    BY <1>2, ExcludingHas, ConcatHas, AppendHas
  <2>2. s \o Append(u, x) = Append(s \o u, x)
    BY ConcatAppend
  <2>3. Excluding(Append(s \o u, x), A) =
           IF x \in A THEN left \o right ELSE Append(left \o right, x)
    <3> DEFINE both == s \o u
    <3>1. both \in Seq(S) /\ Excluding(both, A) = left \o right
      BY <2>1
    <3> HIDE DEF both, left, right
    <3>2. ExcludesOneMore(both, x, A)
      BY <3>1, ExcludingOneMore
    <3> QED
      BY <3>1, <3>2 DEF both, ExcludesOneMore
  <2>4. Excluding(Append(u, x), A) = IF x \in A THEN right ELSE Append(right, x)
    BY ExcludingOneMore DEF ExcludesOneMore
  <2> HIDE DEF left, right
  <2>5. left \o Append(right, x) = Append(left \o right, x)
    BY <2>1, ConcatAppend
  <2>6. Excluding(s \o Append(u, x), A) = left \o Excluding(Append(u, x), A)
    BY <2>2, <2>3, <2>4, <2>5
  <2> QED
    BY <2>1, <2>6 DEF left
<1>3. t \in G
  <2> HIDE DEF G
  <2> QED
    BY <1>1, <1>2, ByAppending
<1> QED
  BY <1>3

DistinctNext(s, f, n) ==
    IF n = 0 THEN <<>>
    ELSE IF Has(f[n - 1], s[n]) THEN f[n - 1] ELSE Append(f[n - 1], s[n])

LEMMA DistinctMade ==
    ASSUME NEW S, NEW s \in Seq(S)
    PROVE  \E kept : /\ Distinct(s) = kept[Len(s)]
                     /\ \A n \in 0..Len(s) : kept[n] = DistinctNext(s, kept, n)
<1> DEFINE step == [p \in (1..Len(s)) \X Seq(S) |->
                      IF Has(p[2], s[p[1]]) THEN p[2] ELSE Append(p[2], s[p[1]])]
           Made(f) == f = [n \in 0..Len(s) |-> DistinctNext(s, f, n)]
<1>1. Len(s) \in Nat /\ <<>> \in Seq(S) /\ \A i \in 1..Len(s) : s[i] \in S
  OBVIOUS
<1>2. step \in [(1..Len(s)) \X Seq(S) -> Seq(S)]
  <2>1. ASSUME NEW p \in (1..Len(s)) \X Seq(S)
        PROVE  (IF Has(p[2], s[p[1]]) THEN p[2] ELSE Append(p[2], s[p[1]])) \in Seq(S)
    <3>1. p[2] \in Seq(S) /\ s[p[1]] \in S
      BY <1>1
    <3> QED
      BY <3>1, AppendProperties
  <2> QED
    BY <2>1
<1>3. \A i \in 1..Len(s), t \in Seq(S) :
         step[i, t] = IF Has(t, s[i]) THEN t ELSE Append(t, s[i])
  OBVIOUS
<1> HIDE DEF step
<1>4. PICK g \in [0..Len(s) -> Seq(S)] : IsMadeBy(step, <<>>, Len(s), g)
  BY <1>1, <1>2, RecursionExists
<1>5. ASSUME NEW n \in 0..Len(s)
      PROVE  g[n] = DistinctNext(s, g, n)
  <2>1. g[n] = IF n = 0 THEN <<>> ELSE step[n, g[n - 1]]
    BY <1>4 DEF IsMadeBy
  <2>2. n # 0 => n \in 1..Len(s) /\ n - 1 \in 0..Len(s)
    BY <1>1
  <2>3. n # 0 => g[n - 1] \in Seq(S)
    BY <2>2
  <2> QED
    BY <1>3, <2>1, <2>2, <2>3 DEF DistinctNext
<1>6. Made(g)
  BY <1>5
<1> DEFINE kept == CHOOSE f : Made(f)
<1>7. Made(kept)
  BY <1>6
<1>8. Distinct(s) = kept[Len(s)]
  BY DEF Distinct, DistinctNext, Has
<1> HIDE DEF kept
<1> QED
  BY <1>7, <1>8

\* Every element is there once.
LEMMA DistinctHas ==
    ASSUME NEW S, NEW s \in Seq(S)
    PROVE  /\ Distinct(s) \in Seq(S) /\ Unrepeated(Distinct(s))
           /\ \A e : Has(Distinct(s), e) <=> Has(s, e)
<1>1. Len(s) \in Nat /\ DOMAIN s = 1..Len(s) /\ \A i \in 1..Len(s) : s[i] \in S
  OBVIOUS
<1>2. PICK kept : /\ Distinct(s) = kept[Len(s)]
                  /\ \A n \in 0..Len(s) : kept[n] = DistinctNext(s, kept, n)
  BY DistinctMade
<1> DEFINE Good(n) ==
       /\ kept[n] \in Seq(S) /\ Unrepeated(kept[n])
       /\ \A e : Has(kept[n], e) <=> \E i \in 1..n : s[i] = e
<1> DEFINE G == {n \in 0..Len(s) : Good(n)}
<1>3. 0 \in G
  <2>1. kept[0] = <<>>
    BY <1>1, <1>2 DEF DistinctNext
  <2>2. <<>> \in Seq(S) /\ DOMAIN <<>> = {} /\ 1..0 = {}
    OBVIOUS
  <2>3. Good(0)
    BY <2>1, <2>2 DEF Has, Unrepeated
  <2> QED
    BY <1>1, <2>3
<1>4. ASSUME NEW n \in 1..Len(s), n - 1 \in G
      PROVE  n \in G
  <2>1. Good(n - 1) /\ n \in 0..Len(s) /\ n # 0 /\ s[n] \in S
    BY <1>1, <1>4
  <2>2. 1..n = 1..(n - 1) \cup {n}
    BY <1>1
  <2>3. CASE Has(kept[n - 1], s[n])
    <3>1. kept[n] = kept[n - 1]
      BY <1>2, <2>1, <2>3 DEF DistinctNext
    <3>2. Good(n)
      BY <2>1, <2>2, <2>3, <3>1
    <3> QED
      BY <2>1, <3>2
  <2>4. CASE ~Has(kept[n - 1], s[n])
    <3>1. kept[n] = Append(kept[n - 1], s[n])
      BY <1>2, <2>1, <2>4 DEF DistinctNext
    <3>2. /\ kept[n] \in Seq(S)
          /\ \A e : Has(kept[n], e) <=> Has(kept[n - 1], e) \/ e = s[n]
          /\ Unrepeated(kept[n - 1]) /\ ~Has(kept[n - 1], s[n]) => Unrepeated(kept[n])
      BY <2>1, <3>1, AppendHas
    <3>3. Good(n)
      BY <2>1, <2>2, <2>4, <3>2
    <3> QED
      BY <2>1, <3>3
  <2> QED
    BY <2>3, <2>4
<1>5. Len(s) \in G
  <2> HIDE DEF G
  <2>1. \A n \in 0..Len(s) : n \in G
    BY <1>1, <1>3, <1>4, AllUpTo
  <2> QED
    BY <1>1, <2>1
<1>6. Good(Len(s))
  BY <1>5
<1> QED
  BY <1>1, <1>2, <1>6 DEF Has

\* Sequences one after the other
FlattenNext(seqs, f, n) == IF n = 1 THEN seqs[n] ELSE f[n - 1] \o seqs[n]

LEMMA FlattenMade ==
    ASSUME NEW S, NEW seqs \in Seq(Seq(S))
    PROVE  \E flat \in [0..Len(seqs) -> Seq(S)] :
              /\ FlattenSeq(seqs) = flat[Len(seqs)] /\ flat[0] = <<>>
              /\ \A n \in 1..Len(seqs) : flat[n] = flat[n - 1] \o seqs[n]
<1> DEFINE step == [p \in (1..Len(seqs)) \X Seq(S) |-> p[2] \o seqs[p[1]]]
           Made(f) == f = [n \in 1..Len(seqs) |-> FlattenNext(seqs, f, n)]
<1>1. Len(seqs) \in Nat /\ <<>> \in Seq(S) /\ \A i \in 1..Len(seqs) : seqs[i] \in Seq(S)
  OBVIOUS
<1>2. step \in [(1..Len(seqs)) \X Seq(S) -> Seq(S)]
  <2>1. ASSUME NEW p \in (1..Len(seqs)) \X Seq(S)
        PROVE  p[2] \o seqs[p[1]] \in Seq(S)
    <3>1. p[2] \in Seq(S) /\ seqs[p[1]] \in Seq(S)
      BY <1>1
    <3> QED
      BY <3>1, ConcatProperties
  <2> QED
    BY <2>1
<1>3. \A i \in 1..Len(seqs), t \in Seq(S) : step[i, t] = t \o seqs[i]
  OBVIOUS
<1> HIDE DEF step
<1>4. PICK g \in [0..Len(seqs) -> Seq(S)] : IsMadeBy(step, <<>>, Len(seqs), g)
  BY <1>1, <1>2, RecursionExists
<1>5. g[0] = <<>>
  <2>1. 0 \in 0..Len(seqs)
    BY <1>1
  <2>2. \A i \in 0..Len(seqs) : g[i] = IF i = 0 THEN <<>> ELSE step[i, g[i - 1]]
    BY <1>4 DEF IsMadeBy
  <2> QED
    BY <2>1, <2>2
<1>6. ASSUME NEW n \in 1..Len(seqs)
      PROVE  g[n] = g[n - 1] \o seqs[n]
  <2>1. n \in 0..Len(seqs) /\ n # 0 /\ n - 1 \in 0..Len(seqs)
    BY <1>1
  <2>2. g[n - 1] \in Seq(S) /\ g[n] = step[n, g[n - 1]]
    BY <1>4, <2>1 DEF IsMadeBy
  <2> QED
    BY <1>3, <2>2
<1>7. CASE Len(seqs) = 0
  <2>1. FlattenSeq(seqs) = <<>>
    BY <1>7, EmptySeq DEF FlattenSeq
  <2> QED
    BY <1>5, <1>6, <1>7, <2>1
<1>8. CASE Len(seqs) # 0
  <2> DEFINE h == [n \in 1..Len(seqs) |-> g[n]]
  <2>1. ASSUME NEW n \in 1..Len(seqs)
        PROVE  h[n] = FlattenNext(seqs, h, n)
    <3>1. CASE n = 1
      <4>1. g[0] \o seqs[1] = seqs[1]
        BY <1>1, <1>5, <3>1, ConcatEmptySeq
      <4>2. g[n] = g[0] \o seqs[n]
        <5>1. n - 1 = 0
          BY <3>1
        <5> QED
          BY <1>6, <5>1
      <4> QED
        BY <3>1, <4>1, <4>2 DEF FlattenNext
    <3>2. CASE n # 1
      <4>1. n - 1 \in 1..Len(seqs)
        BY <1>1, <3>2
      <4> QED
        BY <1>6, <3>2, <4>1 DEF FlattenNext
    <3> QED
      BY <3>1, <3>2
  <2>2. Made(h)
    <3>1. h = [n \in 1..Len(seqs) |-> h[n]]
      OBVIOUS
    <3> HIDE DEF h
    <3> QED
      BY <2>1, <3>1
  <2> DEFINE f == CHOOSE f : Made(f)
  <2>3. Made(f)
    BY <2>2
  <2>4. FlattenSeq(seqs) = f[Len(seqs)]
    BY <1>8 DEF FlattenSeq, FlattenNext
  <2> HIDE DEF f, h
  <2> DEFINE G == {n \in 0..Len(seqs) : n # 0 => f[n] = g[n]}
  <2>5. 0 \in G
    BY <1>1
  <2>6. ASSUME NEW n \in 1..Len(seqs), n - 1 \in G
        PROVE  n \in G
    <3>1. f[n] = FlattenNext(seqs, f, n)
      BY <2>3
    <3>2. CASE n = 1
      <4>1. g[0] \o seqs[n] = seqs[n] /\ n - 1 = 0
        BY <1>1, <1>5, <3>2, ConcatEmptySeq
      <4>2. g[n] = g[0] \o seqs[n] /\ f[n] = seqs[n]
        BY <1>6, <3>1, <3>2, <4>1 DEF FlattenNext
      <4> QED
        BY <1>1, <4>1, <4>2
    <3>3. CASE n # 1
      <4>1. n - 1 # 0 /\ f[n - 1] = g[n - 1] /\ n \in 0..Len(seqs)
        BY <1>1, <2>6, <3>3
      <4> QED
        BY <1>6, <3>1, <3>3, <4>1 DEF FlattenNext
    <3> QED
      BY <3>2, <3>3
  <2>7. Len(seqs) \in G
    <3> HIDE DEF G
    <3>1. \A n \in 0..Len(seqs) : n \in G
      BY <1>1, <2>5, <2>6, AllUpTo
    <3> QED
      BY <1>1, <3>1
  <2> QED
    BY <1>5, <1>6, <1>8, <2>4, <2>7
<1> QED
  BY <1>7, <1>8

LEMMA FlattenAppend ==
    ASSUME NEW S, NEW seqs \in Seq(Seq(S)), NEW x \in Seq(S)
    PROVE  FlattenSeq(Append(seqs, x)) = FlattenSeq(seqs) \o x
<1> DEFINE all == Append(seqs, x)
<1>1. /\ all \in Seq(Seq(S)) /\ Len(seqs) \in Nat /\ Len(all) = Len(seqs) + 1
      /\ all[Len(seqs) + 1] = x /\ \A i \in 1..Len(seqs) : all[i] = seqs[i]
  BY AppendProperties
<1> HIDE DEF all
<1>2. PICK f \in [0..Len(seqs) -> Seq(S)] :
         /\ FlattenSeq(seqs) = f[Len(seqs)] /\ f[0] = <<>>
         /\ \A n \in 1..Len(seqs) : f[n] = f[n - 1] \o seqs[n]
  BY FlattenMade
<1>3. PICK g \in [0..Len(all) -> Seq(S)] :
         /\ FlattenSeq(all) = g[Len(all)] /\ g[0] = <<>>
         /\ \A n \in 1..Len(all) : g[n] = g[n - 1] \o all[n]
  BY <1>1, FlattenMade
<1> DEFINE G == {n \in 0..Len(seqs) : f[n] = g[n]}
<1>4. 0 \in G
  <2>1. 0 \in 0..Len(seqs)
    BY <1>1
  <2> QED
    BY <1>2, <1>3, <2>1
<1>5. ASSUME NEW n \in 1..Len(seqs), n - 1 \in G
      PROVE  n \in G
  <2>1. n \in 0..Len(seqs) /\ n \in 1..Len(all) /\ all[n] = seqs[n] /\ f[n - 1] = g[n - 1]
    BY <1>1, <1>5
  <2> QED
    BY <1>2, <1>3, <2>1
<1>6. f[Len(seqs)] = g[Len(seqs)]
  <2> HIDE DEF G
  <2>1. \A n \in 0..Len(seqs) : n \in G
    BY <1>1, <1>4, <1>5, AllUpTo
  <2> QED
    BY <1>1, <2>1 DEF G
<1>7. Len(seqs) + 1 \in 1..Len(all) /\ (Len(seqs) + 1) - 1 = Len(seqs)
  BY <1>1
<1>8. g[Len(seqs) + 1] = g[Len(seqs)] \o x
  BY <1>1, <1>3, <1>7
<1> QED
  BY <1>1, <1>2, <1>3, <1>6, <1>8 DEF all

LEMMA FlattenNone == FlattenSeq(<<>>) = <<>>
BY DEF FlattenSeq

LEMMA FlattenHas ==
    ASSUME NEW S, NEW seqs \in Seq(Seq(S))
    PROVE  /\ FlattenSeq(seqs) \in Seq(S)
           /\ \A e : Has(FlattenSeq(seqs), e) <=> \E s : Has(seqs, s) /\ Has(s, e)
<1> DEFINE Good(t) == /\ FlattenSeq(t) \in Seq(S)
                      /\ \A e : Has(FlattenSeq(t), e) <=> \E s : Has(t, s) /\ Has(s, e)
           G == {t \in Seq(Seq(S)) : Good(t)}
<1>1. <<>> \in G
  <2>1. <<>> \in Seq(S) /\ <<>> \in Seq(Seq(S))
    OBVIOUS
  <2> QED
    BY <2>1, FlattenNone, NoneHas
<1>2. ASSUME NEW t \in Seq(Seq(S)), NEW x \in Seq(S), t \in G
      PROVE  Append(t, x) \in G
  <2> DEFINE u == Append(t, x)
  <2>1. u \in Seq(Seq(S)) /\ \A s : Has(u, s) <=> Has(t, s) \/ s = x
    BY AppendHas
  <2>2. FlattenSeq(u) = FlattenSeq(t) \o x
    BY FlattenAppend
  <2>3. FlattenSeq(t) \in Seq(S) /\ \A e : Has(FlattenSeq(t), e) <=> \E s : Has(t, s) /\ Has(s, e)
    BY <1>2
  <2> HIDE DEF u
  <2>4. FlattenSeq(u) \in Seq(S)
        /\ \A e : Has(FlattenSeq(u), e) <=> Has(FlattenSeq(t), e) \/ Has(x, e)
    BY <2>2, <2>3, ConcatHas
  <2>5. Good(u)
    BY <2>1, <2>3, <2>4
  <2> QED
    BY <2>1, <2>5 DEF u
<1>3. seqs \in G
  <2> HIDE DEF G
  <2> QED
    BY <1>1, <1>2, ByAppending
<1> QED
  BY <1>3

-----------------------------------------------------------------------------
(* Sequences: sums *)

TotalNext(s, measure, f, n) == IF n = 0 THEN 0 ELSE f[n - 1] + s[n][measure]

LEMMA TotalMade ==
    ASSUME NEW S, NEW s \in Seq(S), NEW measure, \A x \in S : x[measure] \in Nat
    PROVE  \E sum : /\ Total(s, measure) = sum[Len(s)] /\ sum[Len(s)] \in Nat
                    /\ \A n \in 0..Len(s) : sum[n] = TotalNext(s, measure, sum, n)
<1> DEFINE step == [p \in (1..Len(s)) \X Nat |-> p[2] + s[p[1]][measure]]
           Made(f) == f = [n \in 0..Len(s) |-> TotalNext(s, measure, f, n)]
<1>1. Len(s) \in Nat /\ 0 \in Nat /\ \A i \in 1..Len(s) : s[i] \in S
  OBVIOUS
<1>2. step \in [(1..Len(s)) \X Nat -> Nat]
  <2>1. ASSUME NEW p \in (1..Len(s)) \X Nat
        PROVE  p[2] + s[p[1]][measure] \in Nat
    <3>1. p[2] \in Nat /\ s[p[1]] \in S
      BY <1>1
    <3>2. s[p[1]][measure] \in Nat
      BY <3>1
    <3> QED
      BY <3>1, <3>2
  <2> QED
    BY <2>1
<1>3. \A i \in 1..Len(s), t \in Nat : step[i, t] = t + s[i][measure]
  OBVIOUS
<1> HIDE DEF step
<1>4. PICK g \in [0..Len(s) -> Nat] : IsMadeBy(step, 0, Len(s), g)
  BY <1>1, <1>2, RecursionExists
<1>5. ASSUME NEW n \in 0..Len(s)
      PROVE  g[n] = TotalNext(s, measure, g, n)
  <2>1. g[n] = IF n = 0 THEN 0 ELSE step[n, g[n - 1]]
    BY <1>4 DEF IsMadeBy
  <2>2. n # 0 => n \in 1..Len(s) /\ n - 1 \in 0..Len(s)
    BY <1>1
  <2>3. n # 0 => g[n - 1] \in Nat
    BY <2>2
  <2> QED
    BY <1>3, <2>1, <2>2, <2>3 DEF TotalNext
<1>6. Made(g)
  BY <1>5
<1> DEFINE sum == CHOOSE f : Made(f)
<1>7. Made(sum)
  BY <1>6
<1>8. Total(s, measure) = sum[Len(s)]
  BY DEF Total, TotalNext
<1> HIDE DEF sum
<1>9. \A n \in 0..Len(s) : sum[n] = TotalNext(s, measure, sum, n)
  BY <1>7
<1> DEFINE G == {n \in 0..Len(s) : sum[n] \in Nat}
<1>10. 0 \in G
  <2>1. 0 \in 0..Len(s)
    BY <1>1
  <2> QED
    BY <1>9, <2>1 DEF TotalNext
<1>11. ASSUME NEW n \in 1..Len(s), n - 1 \in G
       PROVE  n \in G
  <2>1. n \in 0..Len(s) /\ n # 0 /\ sum[n - 1] \in Nat /\ s[n] \in S
    BY <1>1, <1>11
  <2>2. s[n][measure] \in Nat
    BY <2>1
  <2> QED
    BY <1>9, <2>1, <2>2 DEF TotalNext
<1>12. Len(s) \in G
  <2> HIDE DEF G
  <2>1. \A n \in 0..Len(s) : n \in G
    BY <1>1, <1>10, <1>11, AllUpTo
  <2> QED
    BY <1>1, <2>1
<1> QED
  BY <1>8, <1>9, <1>12

LEMMA TotalAppend ==
    ASSUME NEW S, NEW s \in Seq(S), NEW x \in S, NEW measure, \A y \in S : y[measure] \in Nat
    PROVE  /\ Total(s, measure) \in Nat
           /\ Total(Append(s, x), measure) = Total(s, measure) + x[measure]
<1> DEFINE t == Append(s, x)
<1>1. /\ t \in Seq(S) /\ Len(s) \in Nat /\ Len(t) = Len(s) + 1 /\ t[Len(s) + 1] = x
      /\ \A i \in 1..Len(s) : t[i] = s[i]
  BY AppendProperties
<1> HIDE DEF t
<1>2. PICK f : /\ Total(s, measure) = f[Len(s)] /\ f[Len(s)] \in Nat
               /\ \A n \in 0..Len(s) : f[n] = TotalNext(s, measure, f, n)
  BY TotalMade
<1>3. PICK g : /\ Total(t, measure) = g[Len(t)]
               /\ \A n \in 0..Len(t) : g[n] = TotalNext(t, measure, g, n)
  BY <1>1, TotalMade
<1> DEFINE G == {n \in 0..Len(s) : f[n] = g[n]}
<1>4. 0 \in G
  <2>1. 0 \in 0..Len(s) /\ 0 \in 0..Len(t)
    BY <1>1
  <2> QED
    BY <1>2, <1>3, <2>1 DEF TotalNext
<1>5. ASSUME NEW n \in 1..Len(s), n - 1 \in G
      PROVE  n \in G
  <2>1. n \in 0..Len(s) /\ n \in 0..Len(t) /\ n # 0 /\ t[n] = s[n] /\ f[n - 1] = g[n - 1]
    BY <1>1, <1>5
  <2> QED
    BY <1>2, <1>3, <2>1 DEF TotalNext
<1>6. f[Len(s)] = g[Len(s)]
  <2> HIDE DEF G
  <2>1. \A n \in 0..Len(s) : n \in G
    BY <1>1, <1>4, <1>5, AllUpTo
  <2> QED
    BY <1>1, <2>1 DEF G
<1>7. /\ Len(s) + 1 \in 0..Len(t) /\ Len(s) + 1 # 0 /\ (Len(s) + 1) - 1 = Len(s)
  BY <1>1
<1>8. g[Len(s) + 1] = g[Len(s)] + x[measure]
  BY <1>1, <1>3, <1>7 DEF TotalNext
<1> QED
  BY <1>1, <1>2, <1>3, <1>6, <1>8 DEF t

LEMMA TotalNone == \A measure : Total(<<>>, measure) = 0
<1> SUFFICES ASSUME NEW measure
             PROVE  Total(<<>>, measure) = 0
  OBVIOUS
<1>1. ASSUME NEW s \in Seq({}), Len(s) = 0
      PROVE  Total(s, measure) = 0
  <2>1. PICK f : /\ Total(s, measure) = f[Len(s)]
                 /\ \A n \in 0..Len(s) : f[n] = TotalNext(s, measure, f, n)
    BY TotalMade
  <2>2. 0 \in 0..Len(s)
    BY <1>1
  <2> QED
    BY <1>1, <2>1, <2>2 DEF TotalNext
<1>2. <<>> \in Seq({}) /\ Len(<<>>) = 0
  OBVIOUS
<1> QED
  BY <1>1, <1>2, Zenon

LEMMA TotalConcat ==
    ASSUME NEW S, NEW s \in Seq(S), NEW t \in Seq(S), NEW measure,
           \A y \in S : y[measure] \in Nat
    PROVE  /\ Total(s, measure) \in Nat /\ Total(t, measure) \in Nat
           /\ Total(s \o t, measure) = Total(s, measure) + Total(t, measure)
<1> DEFINE Good(u) == /\ Total(u, measure) \in Nat
                      /\ Total(s \o u, measure) = Total(s, measure) + Total(u, measure)
           G == {u \in Seq(S) : Good(u)}
<1>0. \A u \in Seq(S) : Total(u, measure) \in Nat
  BY TotalMade
<1>1. <<>> \in G
  <2>1. <<>> \in Seq(S) /\ s \o <<>> = s
    BY ConcatEmptySeq
  <2>2. Total(<<>>, measure) = 0
    BY TotalNone
  <2>3. Total(s \o <<>>, measure) = Total(s, measure)
    BY <2>1, Zenon
  <2> QED
    BY <1>0, <2>1, <2>2, <2>3
<1>2. ASSUME NEW u \in Seq(S), NEW x \in S, u \in G
      PROVE  Append(u, x) \in G
  <2> DEFINE both == s \o u
  <2>1. both \in Seq(S) /\ Append(u, x) \in Seq(S) /\ s \o Append(u, x) = Append(both, x)
    BY ConcatHas, AppendHas, ConcatAppend
  <2>2. Total(both, measure) = Total(s, measure) + Total(u, measure)
    BY <1>2
  <2> HIDE DEF both
  <2>3. Total(Append(both, x), measure) = Total(both, measure) + x[measure]
    BY <2>1, TotalAppend
  <2>4. Total(Append(u, x), measure) = Total(u, measure) + x[measure]
    BY TotalAppend
  <2>5. x[measure] \in Nat /\ Total(s, measure) \in Nat /\ Total(u, measure) \in Nat
    BY <1>0
  <2>6. Good(Append(u, x))
    BY <2>1, <2>2, <2>3, <2>4, <2>5
  <2> QED
    BY <2>1, <2>6
<1>3. t \in G
  <2> HIDE DEF G
  <2> QED
    BY <1>1, <1>2, ByAppending
<1> QED
  BY <1>0, <1>3

\* A measure that is never less than another has a sum that is not less.
LEMMA TotalOrdered ==
    ASSUME NEW S, NEW s \in Seq(S), NEW less, NEW more,
           \A y \in S : y[less] \in Nat /\ y[more] \in Nat /\ y[less] <= y[more]
    PROVE  Total(s, less) \in Nat /\ Total(s, more) \in Nat /\ Total(s, less) <= Total(s, more)
<1> DEFINE G == {u \in Seq(S) : Total(u, less) <= Total(u, more)}
<1>0. \A u \in Seq(S) : Total(u, less) \in Nat /\ Total(u, more) \in Nat
  BY TotalMade
<1>1. <<>> \in G
  <2>1. Total(<<>>, less) = 0 /\ Total(<<>>, more) = 0
    BY TotalNone
  <2> QED
    BY <2>1
<1>2. ASSUME NEW u \in Seq(S), NEW x \in S, u \in G
      PROVE  Append(u, x) \in G
  <2>1. /\ Total(Append(u, x), less) = Total(u, less) + x[less]
        /\ Total(Append(u, x), more) = Total(u, more) + x[more]
    BY TotalAppend
  <2>2. Append(u, x) \in Seq(S)
    BY AppendHas
  <2>3. x[less] \in Nat /\ x[more] \in Nat /\ x[less] <= x[more]
    OBVIOUS
  <2> QED
    BY <1>0, <1>2, <2>1, <2>2, <2>3
<1>3. s \in G
  <2> HIDE DEF G
  <2> QED
    BY <1>1, <1>2, ByAppending
<1> QED
  BY <1>0, <1>3

\* A sequence is one of its prefixes and what comes after.
LEMMA PrefixAndRest ==
    ASSUME NEW S, NEW s \in Seq(S), NEW n \in 0..Len(s)
    PROVE  /\ SubSeq(s, 1, n) \in Seq(S) /\ SubSeq(s, n + 1, Len(s)) \in Seq(S)
           /\ s = SubSeq(s, 1, n) \o SubSeq(s, n + 1, Len(s))
<1> DEFINE left  == SubSeq(s, 1, n)
           right == SubSeq(s, n + 1, Len(s))
<1>1. Len(s) \in Nat /\ \A i \in 1..Len(s) : s[i] \in S
  OBVIOUS
<1>2. left \in Seq(S) /\ Len(left) = n /\ \A i \in 1..n : left[i] = s[i]
  BY PrefixHas
<1>3. /\ right \in Seq(S) /\ Len(right) = Len(s) - n
      /\ \A i \in 1..(Len(s) - n) : right[i] = s[n + i]
  <2>1. n + 1 \in Int /\ Len(s) \in Int /\ \A i \in (n + 1)..Len(s) : s[i] \in S
    BY <1>1
  <2>2. /\ right \in Seq(S) /\ Len(right) = IF n + 1 <= Len(s) THEN Len(s) - (n + 1) + 1 ELSE 0
        /\ \A i \in 1..(Len(s) - (n + 1) + 1) : right[i] = s[(n + 1) + i - 1]
    BY <2>1, SubSeqProperties
  <2> HIDE DEF right
  <2>3. Len(s) - (n + 1) + 1 = Len(s) - n
        /\ \A i \in 1..(Len(s) - n) : (n + 1) + i - 1 = n + i
    BY <1>1
  <2>4. Len(right) = Len(s) - n
    BY <1>1, <2>2
  <2> QED
    BY <2>2, <2>3, <2>4
<1> HIDE DEF left, right
<1> DEFINE both == left \o right
<1>4. /\ both \in Seq(S) /\ Len(both) = Len(s)
      /\ \A i \in 1..Len(s) : both[i] = IF i <= n THEN left[i] ELSE right[i - n]
  <2>1. /\ both \in Seq(S) /\ Len(both) = Len(left) + Len(right)
        /\ \A i \in 1..(Len(left) + Len(right)) :
              both[i] = IF i <= Len(left) THEN left[i] ELSE right[i - Len(left)]
    BY <1>2, <1>3, ConcatProperties
  <2>2. Len(left) + Len(right) = Len(s)
    BY <1>1, <1>2, <1>3
  <2> HIDE DEF both
  <2> QED
    BY <1>2, <2>1, <2>2
<1> HIDE DEF both
<1>5. ASSUME NEW i \in 1..Len(s)
      PROVE  s[i] = both[i]
  <2>1. CASE i <= n
    <3>1. i \in 1..n
      BY <1>1, <2>1
    <3> QED
      BY <1>2, <1>4, <2>1, <3>1
  <2>2. CASE ~(i <= n)
    <3>1. i - n \in 1..(Len(s) - n) /\ n + (i - n) = i
      BY <1>1, <2>2
    <3> QED
      BY <1>3, <1>4, <2>2, <3>1
  <2> QED
    BY <2>1, <2>2
<1>6. s = both
  BY <1>4, <1>5, SeqEqual
<1> QED
  BY <1>2, <1>3, <1>6 DEF both, left, right
=============================================================================
