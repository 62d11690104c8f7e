------------------------------- MODULE SeqLemmas -------------------------------
(***************************************************************************)
(* Facts about sequences seen as sets of their elements, about least and   *)
(* greatest numbers, and about functions defined by recursion over an      *)
(* interval, which take the place of induction in the other proofs.        *)
(***************************************************************************)
EXTENDS SequencesExt, Integers, SequenceTheorems, TLAPS, WellFoundedInduction

\* A sequence and what appending to it does to its elements.
LEMMA RangeAppend ==
    ASSUME NEW S, NEW s \in Seq(S), NEW e \in S
    PROVE  Range(Append(s, e)) = Range(s) \cup {e}
  <1>1. /\ Append(s, e) \in Seq(S)
        /\ Len(Append(s, e)) = Len(s) + 1
        /\ \A i \in 1..Len(s) : Append(s, e)[i] = s[i]
        /\ Append(s, e)[Len(s) + 1] = e
        /\ Len(s) \in Nat
    BY AppendProperties, LenProperties
  <1>2. Range(s) = {s[i] : i \in 1..Len(s)}
    BY RangeEquality
  <1>3. Range(Append(s, e)) = {Append(s, e)[i] : i \in 1..Len(s) + 1}
    BY <1>1, RangeEquality
  <1> QED
    BY <1>1, <1>2, <1>3

\* The elements of a nonempty sequence are its head and those of its tail.
LEMMA RangeHeadTail ==
    ASSUME NEW S, NEW s \in Seq(S), s # <<>>
    PROVE  /\ Range(s) = {Head(s)} \cup Range(Tail(s))
           /\ Head(s) \in S
           /\ Tail(s) \in Seq(S)
  <1>1. /\ Tail(s) \in Seq(S)
        /\ Head(s) \in S
        /\ Len(Tail(s)) = Len(s) - 1
        /\ \A i \in 1..Len(Tail(s)) : Tail(s)[i] = s[i + 1]
        /\ Len(s) \in Nat \ {0}
        /\ Head(s) = s[1]
    BY HeadTailProperties, EmptySeq
  <1>2. Range(s) = {s[i] : i \in 1..Len(s)}
    BY RangeEquality
  <1>3. Range(Tail(s)) = {Tail(s)[i] : i \in 1..Len(s) - 1}
    BY <1>1, RangeEquality
  <1>4. ASSUME NEW i \in 1..Len(s) PROVE s[i] \in {Head(s)} \cup Range(Tail(s))
    <2>1. CASE i = 1
      BY <2>1, <1>1
    <2>2. CASE i # 1
      <3>1. i - 1 \in 1..Len(s) - 1 /\ Tail(s)[i - 1] = s[i]
        BY <2>2, <1>1
      <3> QED BY <3>1, <1>3
    <2> QED BY <2>1, <2>2
  <1>5. ASSUME NEW i \in 1..Len(s) - 1 PROVE Tail(s)[i] \in Range(s)
    BY <1>1, <1>2
  <1>6. Head(s) \in Range(s)
    BY <1>1, <1>2
  <1> QED
    BY <1>1, <1>2, <1>3, <1>4, <1>5, <1>6

\* The empty sequence has no elements, and a one-element sequence has one.
LEMMA RangeShort ==
    /\ Range(<<>>) = {}
    /\ \A e : Range(<<e>>) = {e}
    /\ \A e, f : Range(<<e, f>>) = {e, f}
  <1>1. Range(<<>>) = {}
    BY DEF Range
  <1>2. ASSUME NEW e PROVE Range(<<e>>) = {e}
    BY DEF Range
  <1>3. ASSUME NEW e, NEW f PROVE Range(<<e, f>>) = {e, f}
    BY DEF Range
  <1> QED
    BY <1>1, <1>2, <1>3

\* Emptying one of a family of sequences.
LEMMA ClearSeq ==
    ASSUME NEW D, NEW S, NEW f \in [D -> Seq(S)], NEW c
    PROVE  [f EXCEPT ![c] = <<>>] \in [D -> Seq(S)]
  <1>1. <<>> \in Seq(S)
    BY EmptySeq
  <1> QED BY <1>1

\* Appending a new element keeps a sequence free of repetitions.
LEMMA InjectiveAppend ==
    ASSUME NEW S, NEW s \in Seq(S), NEW e \in S,
           IsInjective(s), e \notin Range(s)
    PROVE  IsInjective(Append(s, e))
  <1>1. /\ DOMAIN Append(s, e) = 1..Len(s) + 1
        /\ \A i \in 1..Len(s) : Append(s, e)[i] = s[i] /\ s[i] \in Range(s)
        /\ Append(s, e)[Len(s) + 1] = e
        /\ Len(s) \in Nat
        /\ DOMAIN s = 1..Len(s)
    BY AppendProperties, LenProperties, RangeEquality
  <1> QED
    BY <1>1 DEF IsInjective

\* Removing the head of a sequence without repetitions removes it for good.
LEMMA InjectiveTail ==
    ASSUME NEW S, NEW s \in Seq(S), s # <<>>, IsInjective(s)
    PROVE  /\ IsInjective(Tail(s))
           /\ Head(s) \notin Range(Tail(s))
  <1>1. /\ Tail(s) \in Seq(S)
        /\ DOMAIN Tail(s) = 1..Len(s) - 1
        /\ \A i \in 1..Len(s) - 1 : Tail(s)[i] = s[i + 1]
        /\ Len(s) \in Nat \ {0}
        /\ Head(s) = s[1]
        /\ DOMAIN s = 1..Len(s)
        /\ Len(Tail(s)) = Len(s) - 1
    BY HeadTailProperties, EmptySeq, LenProperties
  <1>2. Range(Tail(s)) = {Tail(s)[i] : i \in 1..Len(s) - 1}
    BY <1>1, RangeEquality
  <1> QED
    BY <1>1, <1>2 DEF IsInjective

\* Removing one position of a sequence without repetitions removes exactly
\* that element.
LEMMA RangeRemoveAt ==
    ASSUME NEW S, NEW s \in Seq(S), IsInjective(s), NEW k \in DOMAIN s
    PROVE  /\ RemoveAt(s, k) \in Seq(S)
           /\ Range(RemoveAt(s, k)) = Range(s) \ {s[k]}
           /\ IsInjective(RemoveAt(s, k))
  <1> DEFINE a == SubSeq(s, 1, k - 1)
             b == SubSeq(s, k + 1, Len(s))
             r == RemoveAt(s, k)
  <1>1. /\ Len(s) \in Nat /\ DOMAIN s = 1..Len(s) /\ k \in 1..Len(s)
        /\ \A i \in 1..Len(s) : s[i] \in S
    BY LenProperties, ElementOfSeq
  <1>2. /\ a \in Seq(S) /\ Len(a) = k - 1
        /\ \A i \in 1..k - 1 : a[i] = s[i]
    <2>1. \A i \in 1..k - 1 : s[i] \in S
      BY <1>1
    <2> HIDE DEF a
    <2>2. /\ SubSeq(s, 1, k - 1) \in Seq(S)
          /\ Len(SubSeq(s, 1, k - 1)) = IF 1 <= k - 1 THEN k - 1 - 1 + 1 ELSE 0
          /\ \A i \in 1 .. k - 1 - 1 + 1 : SubSeq(s, 1, k - 1)[i] = s[1 + i - 1]
      BY <1>1, <2>1, SubSeqProperties
    <2> QED BY <2>2, <1>1 DEF a
  <1>3. /\ b \in Seq(S) /\ Len(b) = Len(s) - k
        /\ \A i \in 1..Len(s) - k : b[i] = s[k + i]
    <2>1. \A i \in k + 1..Len(s) : s[i] \in S
      BY <1>1
    <2>2. /\ SubSeq(s, k + 1, Len(s)) \in Seq(S)
          /\ Len(SubSeq(s, k + 1, Len(s))) = IF k + 1 <= Len(s) THEN Len(s) - (k + 1) + 1 ELSE 0
          /\ \A i \in 1 .. Len(s) - (k + 1) + 1 : SubSeq(s, k + 1, Len(s))[i] = s[k + 1 + i - 1]
      BY <1>1, <2>1, SubSeqProperties
    <2> QED BY <2>2, <1>1 DEF b
  <1>4. /\ r \in Seq(S) /\ Len(r) = Len(s) - 1
        /\ \A i \in 1..Len(s) - 1 : r[i] = IF i < k THEN s[i] ELSE s[i + 1]
    <2>1. r = a \o b
      BY DEF RemoveAt
    <2> HIDE DEF a, b, r
    <2>2. /\ a \o b \in Seq(S) /\ Len(a \o b) = Len(a) + Len(b)
          /\ \A i \in 1..Len(a) + Len(b) : (a \o b)[i] = IF i <= Len(a) THEN a[i] ELSE b[i - Len(a)]
      BY <1>2, <1>3, ConcatProperties
    <2>3. Len(a) + Len(b) = Len(s) - 1
      BY <1>1, <1>2, <1>3
    <2>4. ASSUME NEW i \in 1..Len(s) - 1
          PROVE  r[i] = IF i < k THEN s[i] ELSE s[i + 1]
      <3>1. r[i] = IF i <= Len(a) THEN a[i] ELSE b[i - Len(a)]
        BY <2>1, <2>2, <2>3
      <3>2. CASE i < k
        BY <3>1, <3>2, <1>1, <1>2
      <3>3. CASE ~(i < k)
        <4>1. i - (k - 1) \in 1..Len(s) - k /\ k + (i - (k - 1)) = i + 1
          BY <3>3, <1>1
        <4>2. r[i] = b[i - (k - 1)]
          <5>1. Len(a) = k - 1 /\ ~(i <= k - 1)
            BY <3>3, <1>1, <1>2
          <5> QED BY <3>1, <5>1
        <4>3. b[i - (k - 1)] = s[k + (i - (k - 1))]
          BY <4>1, <1>3
        <4> QED BY <3>3, <4>1, <4>2, <4>3
      <3> QED BY <3>2, <3>3
    <2> QED BY <2>1, <2>2, <2>3, <2>4
  <1> HIDE DEF r
  <1>5. Range(s) = {s[i] : i \in 1..Len(s)} /\ Range(r) = {r[i] : i \in 1..Len(s) - 1}
    BY <1>4, RangeEquality
  <1>6. DOMAIN r = 1..Len(s) - 1
    BY <1>4, LenProperties
  <1>7. IsInjective(r)
    <2>1. ASSUME NEW i \in 1..Len(s) - 1, NEW j \in 1..Len(s) - 1, r[i] = r[j] PROVE i = j
      <3> DEFINE f(n) == IF n < k THEN n ELSE n + 1
      <3>1. f(i) \in 1..Len(s) /\ f(j) \in 1..Len(s)
        BY <1>1
      <3>2. r[i] = s[f(i)] /\ r[j] = s[f(j)]
        BY <1>4
      <3>3. f(i) = f(j)
        <4> HIDE DEF f
        <4> QED BY <1>1, <2>1, <3>1, <3>2 DEF IsInjective
      <3> QED BY <1>1, <3>3
    <2> QED BY <1>6, <2>1 DEF IsInjective
  <1>8. ASSUME NEW i \in 1..Len(s), i # k PROVE s[i] \in Range(r)
    <2>1. CASE i < k
      BY <2>1, <1>1, <1>4, <1>5
    <2>2. CASE i > k
      <3>1. i - 1 \in 1..Len(s) - 1 /\ r[i - 1] = s[i]
        BY <2>2, <1>1, <1>4
      <3> QED BY <3>1, <1>5
    <2> QED BY <2>1, <2>2, <1>1, <1>8
  <1>9. ASSUME NEW i \in 1..Len(s) - 1 PROVE r[i] \in Range(s) \ {s[k]}
    BY <1>1, <1>4, <1>5 DEF IsInjective
  <1>10. Range(r) = Range(s) \ {s[k]}
    BY <1>1, <1>5, <1>8, <1>9
  <1> QED
    BY <1>4, <1>7, <1>10 DEF r

\* Taking from a sequence that repeats nothing but v.
LEMMA DistinctTail ==
    ASSUME NEW S, NEW s \in Seq(S), s # <<>>, NEW v,
           \A i, j \in DOMAIN s : s[i] = s[j] /\ s[i] # v => i = j
    PROVE  /\ \A i, j \in DOMAIN Tail(s) :
                  Tail(s)[i] = Tail(s)[j] /\ Tail(s)[i] # v => i = j
           /\ Head(s) # v => Head(s) \notin Range(Tail(s))
  <1>1. /\ Tail(s) \in Seq(S)
        /\ DOMAIN Tail(s) = 1..Len(s) - 1
        /\ \A i \in 1..Len(s) - 1 : Tail(s)[i] = s[i + 1]
        /\ Len(s) \in Nat \ {0}
        /\ Head(s) = s[1]
        /\ DOMAIN s = 1..Len(s)
        /\ Len(Tail(s)) = Len(s) - 1
    BY HeadTailProperties, EmptySeq, LenProperties
  <1>2. Range(Tail(s)) = {Tail(s)[i] : i \in 1..Len(s) - 1}
    BY <1>1 DEF Range
  <1>3. ASSUME NEW i \in 1..Len(s) - 1, NEW j \in 1..Len(s) - 1,
               Tail(s)[i] = Tail(s)[j], Tail(s)[i] # v
        PROVE  i = j
    <2>1. i + 1 \in DOMAIN s /\ j + 1 \in DOMAIN s /\ s[i + 1] = s[j + 1] /\ s[i + 1] # v
      BY <1>1, <1>3
    <2>2. i + 1 = j + 1
      BY <2>1
    <2> QED BY <2>2
  <1>4. ASSUME Head(s) # v, Head(s) \in Range(Tail(s)) PROVE FALSE
    <2>1. PICK i \in 1..Len(s) - 1 : Head(s) = Tail(s)[i]
      BY <1>2, <1>4
    <2>2. 1 \in DOMAIN s /\ i + 1 \in DOMAIN s /\ s[1] = s[i + 1] /\ s[1] # v
      BY <1>1, <1>4, <2>1
    <2>3. 1 = i + 1
      BY <2>2
    <2> QED BY <2>3
  <1> QED BY <1>1, <1>3, <1>4

\* What a concatenation contains.
LEMMA RangeConcat ==
    ASSUME NEW S, NEW s \in Seq(S), NEW t \in Seq(S)
    PROVE  Range(s \o t) = Range(s) \cup Range(t)
  <1>1. /\ s \o t \in Seq(S) /\ Len(s \o t) = Len(s) + Len(t)
        /\ \A i \in 1..Len(s) : (s \o t)[i] = s[i]
        /\ \A i \in 1..Len(t) : (s \o t)[Len(s) + i] = t[i]
        /\ Len(s) \in Nat /\ Len(t) \in Nat
    BY ConcatProperties, LenProperties
  <1>2. /\ Range(s) = {s[i] : i \in 1..Len(s)}
        /\ Range(t) = {t[i] : i \in 1..Len(t)}
        /\ Range(s \o t) = {(s \o t)[i] : i \in 1..Len(s) + Len(t)}
    BY <1>1, RangeEquality
  <1>3. ASSUME NEW i \in 1..Len(s) + Len(t) PROVE (s \o t)[i] \in Range(s) \cup Range(t)
    <2>1. CASE i <= Len(s)
      BY <1>1, <1>2, <2>1
    <2>2. CASE i > Len(s)
      <3>1. i - Len(s) \in 1..Len(t) /\ (s \o t)[i] = t[i - Len(s)]
        BY <1>1, <2>2
      <3> QED BY <1>2, <3>1
    <2> QED BY <1>1, <2>1, <2>2
  <1>4. ASSUME NEW i \in 1..Len(t) PROVE t[i] \in Range(s \o t)
    <2>1. Len(s) + i \in 1..Len(s) + Len(t)
      BY <1>1
    <2> QED BY <1>1, <1>2, <2>1
  <1>5. ASSUME NEW i \in 1..Len(s) PROVE s[i] \in Range(s \o t)
    BY <1>1, <1>2
  <1> QED BY <1>2, <1>3, <1>4, <1>5

\* A nonempty set of naturals has a least element.
LEMMA LeastOf ==
    ASSUME NEW T, T \subseteq Nat, T # {}
    PROVE  \E i \in T : \A j \in T : i <= j
  <1>1. PICK i \in T : \A j \in T : ~(<<j, i>> \in OpToRel(<, Nat))
    <2> DEFINE R == OpToRel(<, Nat)
    <2>1. IsWellFoundedOn(R, Nat)
      BY NatLessThanWellFounded
    <2> HIDE DEF R
    <2>2. \E x \in T : \A y \in T : ~(<<y, x>> \in R)
      BY <2>1, WFMin
    <2> QED BY <2>2 DEF R
  <1>2. ASSUME NEW j \in T PROVE i <= j
    <2>1. ~(j < i)
      BY <1>1 DEF OpToRel
    <2> QED BY <2>1
  <1> QED BY <1>2

\* Induction up to a bound, for a set in place of a predicate.
LEMMA UpTo ==
    ASSUME NEW N \in Nat, NEW T, 0 \in T, \A n \in 1..N : n - 1 \in T => n \in T
    PROVE  \A n \in 0..N : n \in T
  <1> DEFINE F == {n \in 0..N : n \notin T}
  <1> SUFFICES ASSUME F # {} PROVE FALSE
    OBVIOUS
  <1>1. PICK m \in F : \A j \in F : m <= j
    <2>1. F \subseteq Nat
      OBVIOUS
    <2> HIDE DEF F
    <2> QED BY <2>1, LeastOf
  <1>2. m \in 0..N /\ m \notin T
    OBVIOUS
  <1>3. m \in 1..N
    BY <1>2
  <1>4. m - 1 \in 0..N /\ ~(m <= m - 1)
    BY <1>3
  <1>5. m - 1 \in T
    BY <1>1, <1>4
  <1> QED BY <1>2, <1>3, <1>5

\* f has a first value, and each other one comes from the one before by a step.
Unrolls(f, N, a, step) == f[0] = a /\ \A n \in 1..N : f[n] = step[<<f[n - 1], n>>]

\* There is such a function.
LEMMA Recursion ==
    ASSUME NEW N \in Nat, NEW S, NEW a \in S, NEW step \in [S \X (1..N) -> S]
    PROVE  \E f : f \in [0..N -> S] /\ Unrolls(f, N, a, step)
  <1> DEFINE Is(f, m) == f[0] = a /\ \A n \in 1..m : f[n] = step[<<f[n - 1], n>>]
             T == {m \in 0..N : \E f \in [0..m -> S] : Is(f, m)}
  <1>1. 0 \in T
    <2>1. [n \in 0..0 |-> a] \in [0..0 -> S] /\ Is([n \in 0..0 |-> a], 0)
      OBVIOUS
    <2>2. 0 \in 0..N
      OBVIOUS
    <2> HIDE DEF Is
    <2> QED BY <2>1, <2>2
  <1>2. ASSUME NEW m \in 1..N, m - 1 \in T PROVE m \in T
    <2>1. PICK f \in [0..(m - 1) -> S] : Is(f, m - 1)
      BY <1>2
    <2> DEFINE g == [n \in 0..m |-> IF n = m THEN step[<<f[m - 1], m>>] ELSE f[n]]
    <2>2. f[m - 1] \in S /\ step[<<f[m - 1], m>>] \in S
      <3>1. m - 1 \in 0..(m - 1)
        OBVIOUS
      <3> QED BY <3>1
    <2>3. ASSUME NEW n \in 0..m, n # m PROVE n \in 0..(m - 1) /\ g[n] = f[n] /\ f[n] \in S
      BY <2>3
    <2>4. g \in [0..m -> S]
      BY <2>2, <2>3
    <2>5. ASSUME NEW n \in 1..m PROVE g[n] = step[<<g[n - 1], n>>]
      <3>1. n - 1 \in 0..m /\ n - 1 # m /\ n \in 0..m
        OBVIOUS
      <3>2. g[n - 1] = f[n - 1]
        BY <2>3, <3>1
      <3>3. CASE n = m
        BY <3>1, <3>2, <3>3
      <3>4. CASE n # m
        <4>1. n \in 1..(m - 1)
          BY <3>4
        <4>2. f[n] = step[<<f[n - 1], n>>]
          BY <2>1, <4>1
        <4> QED BY <2>3, <3>1, <3>2, <3>4, <4>2
      <3> QED BY <3>3, <3>4
    <2>6. g[0] = a
      <3>1. 0 \in 0..m /\ 0 # m
        OBVIOUS
      <3> QED BY <2>1, <2>3, <3>1
    <2> HIDE DEF g
    <2>7. Is(g, m)
      BY <2>5, <2>6
    <2> HIDE DEF Is
    <2>8. m \in 0..N
      OBVIOUS
    <2> QED BY <2>4, <2>7, <2>8
  <1> HIDE DEF T
  <1>3. N \in T
    BY <1>1, <1>2, UpTo
  <1> QED BY <1>3 DEF T, Unrolls

\* A function on the first naturals is a sequence.
LEMMA SeqByDef ==
    ASSUME NEW S, NEW n \in Nat, NEW f \in [1..n -> S]
    PROVE  f \in Seq(S) /\ Len(f) = n
  <1>1. f \in Seq(S)
    BY SeqDef
  <1> QED BY <1>1, LenProperties

\* The largest element of a nonempty set of naturals that a bound limits.
LEMMA GreatestOf ==
    ASSUME NEW N \in Nat, NEW T, T \subseteq 1..N, T # {}
    PROVE  Max(T) \in T /\ \A j \in T : Max(T) >= j
  <1> DEFINE F == {N - i : i \in T}
  <1>1. PICK m \in F : \A j \in F : m <= j
    <2>1. F \subseteq Nat
      OBVIOUS
    <2>2. F # {}
      <3>1. PICK i : i \in T
        OBVIOUS
      <3> QED BY <3>1
    <2> HIDE DEF F
    <2> QED BY <2>1, <2>2, LeastOf
  <1>2. PICK i \in T : m = N - i
    BY <1>1
  <1>3. ASSUME NEW j \in T PROVE i >= j
    <2>1. m <= N - j
      BY <1>1
    <2> QED BY <1>2, <2>1
  <1> QED BY <1>3 DEF Max

===============================================================================
