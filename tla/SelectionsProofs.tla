-------------------------- MODULE SelectionsProofs --------------------------
(***************************************************************************)
(* Facts about Kept, about the least and the greatest number of a set, and *)
(* about how often something occurs in a sequence, some of them proved by  *)
(* induction over its length.                                              *)
(***************************************************************************)
EXTENDS Selections, FiniteSetTheorems, WellFoundedInduction, TLAPS

\* Induction for sets of numbers.
LEMMA SetInduction ==
    ASSUME NEW T \in SUBSET Nat, 0 \in T, \A n \in Nat : n \in T => n + 1 \in T
    PROVE  T = Nat
<1>1. SUFFICES ASSUME Nat \ T # {} PROVE FALSE
  OBVIOUS
<1>2. \E n \in Nat \ T : \A m \in Nat \ T : ~(<<m, n>> \in OpToRel(<, Nat))
  BY <1>1, NatLessThanWellFounded, WFMin
<1>3. PICK n \in Nat \ T : \A m \in Nat \ T : ~(<<m, n>> \in OpToRel(<, Nat))
  BY <1>2
<1>4. \A m \in Nat \ T : <<m, n>> \in Nat \X Nat /\ <<m, n>>[1] = m /\ <<m, n>>[2] = n
  OBVIOUS
<1>5. \A m \in Nat \ T : ~(m < n)
  BY <1>3, <1>4 DEF OpToRel
<1>6. n - 1 \in Nat /\ n - 1 \in T
  BY <1>5
<1> QED
  BY <1>6

\* A set of numbers has a least one.
LEMMA LeastOfSet ==
    ASSUME NEW S, S \subseteq Nat, S # {}
    PROVE  \E n \in S : \A m \in S : n <= m
<1>1. \E n \in S : \A m \in S : ~(<<m, n>> \in OpToRel(<, Nat))
  BY NatLessThanWellFounded, WFMin
<1>2. PICK n \in S : \A m \in S : ~(<<m, n>> \in OpToRel(<, Nat))
  BY <1>1
<1>3. \A m \in S : <<m, n>> \in Nat \X Nat /\ <<m, n>>[1] = m /\ <<m, n>>[2] = n
  OBVIOUS
<1>4. \A m \in S : ~(m < n) /\ m \in Nat /\ n \in Nat
  BY <1>2, <1>3 DEF OpToRel
<1> QED
  BY <1>4

\* The recursive function is one: it has the values its definition says.
LEMMA KeptPrefixesUnfold ==
    ASSUME NEW S, NEW s \in Seq(S), NEW K
    PROVE  KeptPrefixes(s, K) = [n \in 0 .. Len(s) |->
               IF n = 0 THEN <<>>
               ELSE IF s[n] \in K THEN Append(KeptPrefixes(s, K)[n - 1], s[n])
                                  ELSE KeptPrefixes(s, K)[n - 1]]
<1> DEFINE Def(f, m) == [n \in 0 .. m |->
               IF n = 0 THEN <<>>
               ELSE IF s[n] \in K THEN Append(f[n - 1], s[n]) ELSE f[n - 1]]
           T == {m \in Nat : \E f : f = Def(f, m)}
<1>1. 0 \in T
  <2> DEFINE f == [n \in 0 .. 0 |-> <<>>]
  <2>1. f = Def(f, 0)
    OBVIOUS
  <2> QED
    BY <2>1
<1>2. ASSUME NEW m \in Nat, m \in T PROVE m + 1 \in T
  <2>1. PICK f : f = Def(f, m)
    BY <1>2
  <2> DEFINE g == [n \in 0 .. m + 1 |->
                      IF n <= m THEN f[n]
                      ELSE IF s[n] \in K THEN Append(f[n - 1], s[n]) ELSE f[n - 1]]
  <2>2. \A n \in 0 .. m : f[n] = IF n = 0 THEN <<>>
                                 ELSE IF s[n] \in K THEN Append(f[n - 1], s[n])
                                                    ELSE f[n - 1]
    BY <2>1
  <2>3. \A n \in 0 .. m + 1 : g[n] = IF n = 0 THEN <<>>
                                     ELSE IF s[n] \in K THEN Append(g[n - 1], s[n])
                                                        ELSE g[n - 1]
    BY <2>2
  <2>4. g = Def(g, m + 1)
    BY <2>3
  <2> HIDE DEF Def, g
  <2> QED
    BY <2>4
<1>3. T = Nat
  <2> HIDE DEF Def
  <2>1. T \in SUBSET Nat
    OBVIOUS
  <2> HIDE DEF T
  <2> QED
    BY <1>1, <1>2, <2>1, SetInduction
<1>4. \E f : f = Def(f, Len(s))
  BY <1>3
<1> QED
  BY <1>4, Zenon DEF KeptPrefixes

\* What the next element adds to what is kept.
LEMMA KeptPrefixesStep ==
    ASSUME NEW S, NEW s \in Seq(S), NEW K
    PROVE  /\ KeptPrefixes(s, K)[0] = <<>>
           /\ \A n \in 1 .. Len(s) :
                 KeptPrefixes(s, K)[n] =
                     IF s[n] \in K THEN Append(KeptPrefixes(s, K)[n - 1], s[n])
                                   ELSE KeptPrefixes(s, K)[n - 1]
<1> DEFINE F == KeptPrefixes(s, K)
<1>1. F = [n \in 0 .. Len(s) |->
              IF n = 0 THEN <<>>
              ELSE IF s[n] \in K THEN Append(F[n - 1], s[n]) ELSE F[n - 1]]
  BY KeptPrefixesUnfold
<1>2. Len(s) \in Nat
  OBVIOUS
<1> HIDE DEF F
<1>3. \A n \in 0 .. Len(s) : F[n] = IF n = 0 THEN <<>>
                                    ELSE IF s[n] \in K THEN Append(F[n - 1], s[n])
                                                       ELSE F[n - 1]
  BY <1>1
<1>4. F[0] = <<>> /\ \A n \in 1 .. Len(s) : n \in 0 .. Len(s) /\ n # 0
  BY <1>2, <1>3
<1> QED
  BY <1>3, <1>4 DEF F

\* m says from which position of s's first n elements each of t's is: the order
\* is kept, and nothing that is in K is missing.
Selects(m, s, n, K, t) ==
    /\ m \in [1 .. Len(t) -> 1 .. n]
    /\ \A i \in 1 .. Len(t) : t[i] = s[m[i]] /\ s[m[i]] \in K
    /\ \A i, j \in 1 .. Len(t) : i < j => m[i] < m[j]
    /\ \A k \in 1 .. n : s[k] \in K => \E i \in 1 .. Len(t) : m[i] = k

\* What is kept of each prefix is selected from it.
LEMMA KeptPrefixesSelect ==
    ASSUME NEW S, NEW s \in Seq(S), NEW K, NEW n \in 0 .. Len(s)
    PROVE  /\ KeptPrefixes(s, K)[n] \in Seq(S)
           /\ Len(KeptPrefixes(s, K)[n]) <= n
           /\ \E m : Selects(m, s, n, K, KeptPrefixes(s, K)[n])
<1> DEFINE F == KeptPrefixes(s, K)
           P(k) == /\ F[k] \in Seq(S)
                   /\ Len(F[k]) <= k
                   /\ \E m : Selects(m, s, k, K, F[k])
           T == {k \in Nat : k <= Len(s) => P(k)}
<1>1. /\ F[0] = <<>>
      /\ \A k \in 1 .. Len(s) :
            F[k] = IF s[k] \in K THEN Append(F[k - 1], s[k]) ELSE F[k - 1]
  BY KeptPrefixesStep
<1> HIDE DEF F
<1>2. 0 \in T
  <2>1. <<>> \in Seq(S) /\ Len(<<>>) = 0
    OBVIOUS
  <2>2. Selects([i \in 1 .. 0 |-> 1], s, 0, K, <<>>)
    BY DEF Selects
  <2>3. P(0)
    BY <1>1, <2>1, <2>2
  <2> HIDE DEF P
  <2> QED
    BY <2>3
<1>3. ASSUME NEW k \in Nat, k \in T PROVE k + 1 \in T
  <2>1. SUFFICES ASSUME k + 1 <= Len(s) PROVE P(k + 1)
    OBVIOUS
  <2>2. /\ F[k] \in Seq(S) /\ Len(F[k]) <= k
        /\ \E m : Selects(m, s, k, K, F[k])
    BY <1>3, <2>1
  <2>3. PICK m : Selects(m, s, k, K, F[k])
    BY <2>2
  <2>4. F[k + 1] = IF s[k + 1] \in K THEN Append(F[k], s[k + 1]) ELSE F[k]
    BY <1>1, <2>1
  <2>5. CASE s[k + 1] \notin K
    <3>1. m \in [1 .. Len(F[k]) -> 1 .. k + 1]
      BY <2>2, <2>3 DEF Selects
    <3>2. Selects(m, s, k + 1, K, F[k])
      BY <2>3, <2>5, <3>1 DEF Selects
    <3> QED
      BY <2>2, <2>4, <2>5, <3>2
  <2>6. CASE s[k + 1] \in K
    <3> DEFINE t == Append(F[k], s[k + 1])
               l == Len(F[k]) + 1
               p == [i \in 1 .. l |-> IF i = l THEN k + 1 ELSE m[i]]
    <3>1. s[k + 1] \in S
      BY <2>1
    <3>2. /\ t \in Seq(S) /\ Len(t) = l /\ l \in Nat /\ t[l] = s[k + 1]
          /\ \A i \in 1 .. l : i # l => i \in 1 .. Len(F[k]) /\ t[i] = F[k][i]
      BY <2>2, <3>1
    <3> HIDE DEF t, l
    <3>3. \A i \in 1 .. l : i # l => m[i] \in 1 .. k /\ t[i] = s[m[i]] /\ s[m[i]] \in K
      BY <2>3, <3>2 DEF Selects
    <3>4. p \in [1 .. l -> 1 .. k + 1]
      BY <3>2, <3>3
    <3>5. \A i \in 1 .. l : t[i] = s[p[i]] /\ s[p[i]] \in K
      BY <2>6, <3>2, <3>3
    <3>6. \A i, j \in 1 .. l : i < j => p[i] < p[j]
      <4>1. ASSUME NEW i \in 1 .. l, NEW j \in 1 .. l, i < j PROVE p[i] < p[j]
        <5>1. i # l
          BY <3>2, <4>1
        <5>2. CASE j = l
          BY <3>3, <4>1, <5>1, <5>2
        <5>3. CASE j # l
          <6>1. i \in 1 .. Len(F[k]) /\ j \in 1 .. Len(F[k])
            BY <3>2, <5>1, <5>3
          <6>2. m[i] < m[j]
            BY <2>3, <4>1, <6>1 DEF Selects
          <6> QED
            BY <5>1, <5>3, <6>2
        <5> QED
          BY <5>2, <5>3
      <4> QED
        BY <4>1
    <3>7. \A j \in 1 .. k + 1 : s[j] \in K => \E i \in 1 .. l : p[i] = j
      <4>1. ASSUME NEW j \in 1 .. k + 1, s[j] \in K PROVE \E i \in 1 .. l : p[i] = j
        <5>1. CASE j = k + 1
          BY <3>2, <5>1, 1 <= l DEF l
        <5>2. CASE j # k + 1
          <6>1. j \in 1 .. k
            BY <5>2
          <6>2. PICK i \in 1 .. Len(F[k]) : m[i] = j
            BY <2>3, <4>1, <6>1 DEF Selects
          <6>3. i \in 1 .. l /\ i # l
            BY <2>2 DEF l
          <6> QED
            BY <6>2, <6>3
        <5> QED
          BY <5>1, <5>2
      <4> QED
        BY <4>1
    <3>8. Selects(p, s, k + 1, K, t)
      BY <3>2, <3>4, <3>5, <3>6, <3>7 DEF Selects
    <3>9. Len(t) <= k + 1
      BY <2>2, <3>2 DEF l
    <3>10. F[k + 1] = t
      BY <2>4, <2>6 DEF t
    <3> QED
      BY <3>2, <3>8, <3>9, <3>10
  <2> QED
    BY <2>5, <2>6
<1>4. T = Nat
  <2>1. T \in SUBSET Nat
    OBVIOUS
  <2> HIDE DEF T
  <2> QED
    BY <1>2, <1>3, <2>1, SetInduction
<1>5. n \in T /\ n <= Len(s)
  BY <1>4
<1> QED
  BY <1>5 DEF F

\* What is kept is from the sequence, all of it that is in K, in order.
THEOREM KeptSelects ==
    ASSUME NEW S, NEW s \in Seq(S), NEW K
    PROVE  /\ Kept(s, K) \in Seq(S)
           /\ Len(Kept(s, K)) <= Len(s)
           /\ \E m : Selects(m, s, Len(s), K, Kept(s, K))
BY KeptPrefixesSelect DEF Kept

\* As a set: the elements that are in K.
LEMMA KeptElements ==
    ASSUME NEW S, NEW s \in Seq(S), NEW K
    PROVE  ToSet(Kept(s, K)) = ToSet(s) \cap K
<1>1. PICK m : Selects(m, s, Len(s), K, Kept(s, K))
  BY KeptSelects
<1>2. /\ ToSet(s) = {s[i] : i \in 1 .. Len(s)}
      /\ ToSet(Kept(s, K)) = {Kept(s, K)[i] : i \in 1 .. Len(Kept(s, K))}
  BY KeptSelects DEF ToSet
<1> HIDE DEF Kept
<1>3. ASSUME NEW i \in 1 .. Len(Kept(s, K))
      PROVE  Kept(s, K)[i] \in ToSet(s) /\ Kept(s, K)[i] \in K
  BY <1>1, <1>2 DEF Selects
<1>4. ASSUME NEW k \in 1 .. Len(s), s[k] \in K
      PROVE  s[k] \in ToSet(Kept(s, K))
  <2>1. PICK i \in 1 .. Len(Kept(s, K)) : m[i] = k
    BY <1>1, <1>4 DEF Selects
  <2>2. Kept(s, K)[i] = s[k]
    BY <1>1, <2>1 DEF Selects
  <2> QED
    BY <1>2, <2>2
<1> QED
  BY <1>2, <1>3, <1>4

\* Elements that differ at any two positions do so in what is kept.
LEMMA KeptStaysInjective ==
    ASSUME NEW S, NEW s \in Seq(S), NEW K, NEW f,
           \A i, j \in 1 .. Len(s) : f[s[i]] = f[s[j]] => i = j
    PROVE  \A i, j \in 1 .. Len(Kept(s, K)) : f[Kept(s, K)[i]] = f[Kept(s, K)[j]] => i = j
<1>1. PICK m : Selects(m, s, Len(s), K, Kept(s, K))
  BY KeptSelects
<1>2. Len(Kept(s, K)) \in Nat
  BY KeptSelects
<1> HIDE DEF Kept
<1>3. ASSUME NEW i \in 1 .. Len(Kept(s, K)), NEW j \in 1 .. Len(Kept(s, K)),
             f[Kept(s, K)[i]] = f[Kept(s, K)[j]]
      PROVE  i = j
  <2>1. m[i] \in 1 .. Len(s) /\ m[j] \in 1 .. Len(s) /\ m[i] = m[j]
    BY <1>1, <1>3 DEF Selects
  <2>2. ~(i < j) /\ ~(j < i)
    BY <1>1, <2>1 DEF Selects
  <2> QED
    BY <1>2, <2>2
<1> QED
  BY <1>3

\* What is kept of a prefix is one of the values of the recursive function.
LEMMA KeptOfPrefix ==
    ASSUME NEW S, NEW s \in Seq(S), NEW K, NEW n \in 0 .. Len(s)
    PROVE  Kept(SubSeq(s, 1, n), K) = KeptPrefixes(s, K)[n]
<1> DEFINE t == SubSeq(s, 1, n)
           F == KeptPrefixes(s, K)
           G == KeptPrefixes(t, K)
           T == {k \in Nat : k <= n => G[k] = F[k]}
<1>1. t \in Seq(S) /\ Len(t) = n /\ \A i \in 1 .. n : t[i] = s[i]
  OBVIOUS
<1>2. /\ F[0] = <<>>
      /\ \A k \in 1 .. Len(s) :
            F[k] = IF s[k] \in K THEN Append(F[k - 1], s[k]) ELSE F[k - 1]
  BY KeptPrefixesStep
<1> HIDE DEF t, F
<1>3. /\ G[0] = <<>>
      /\ \A k \in 1 .. n :
            G[k] = IF t[k] \in K THEN Append(G[k - 1], t[k]) ELSE G[k - 1]
  BY <1>1, KeptPrefixesStep
<1> HIDE DEF G
<1>4. 0 \in T
  BY <1>2, <1>3
<1>5. ASSUME NEW k \in Nat, k \in T PROVE k + 1 \in T
  <2>1. SUFFICES ASSUME k + 1 <= n PROVE G[k + 1] = F[k + 1]
    OBVIOUS
  <2>2. G[k] = F[k]
    BY <1>5, <2>1
  <2> QED
    BY <1>1, <1>2, <1>3, <2>1, <2>2
<1>6. T = Nat
  <2>1. T \in SUBSET Nat
    OBVIOUS
  <2> HIDE DEF T
  <2> QED
    BY <1>4, <1>5, <2>1, SetInduction
<1>7. G[n] = F[n]
  BY <1>6
<1> QED
  BY <1>1, <1>7 DEF Kept, t, F, G

\* One more element is kept or not.
LEMMA KeptOfAppend ==
    ASSUME NEW S, NEW s \in Seq(S), NEW x \in S, NEW K
    PROVE  Kept(Append(s, x), K) = IF x \in K THEN Append(Kept(s, K), x) ELSE Kept(s, K)
<1> DEFINE t == Append(s, x)
<1>1. /\ t \in Seq(S) /\ Len(t) = Len(s) + 1 /\ t[Len(s) + 1] = x
      /\ SubSeq(t, 1, Len(s)) = s
  OBVIOUS
<1> HIDE DEF t
<1>2. Kept(s, K) = KeptPrefixes(t, K)[Len(s)]
  <2>1. Len(s) \in 0 .. Len(t)
    BY <1>1
  <2> QED
    BY <1>1, <2>1, KeptOfPrefix
<1>3. KeptPrefixes(t, K)[Len(s) + 1]
          = IF x \in K THEN Append(KeptPrefixes(t, K)[Len(s)], x)
                       ELSE KeptPrefixes(t, K)[Len(s)]
  BY <1>1, KeptPrefixesStep
<1> QED
  BY <1>1, <1>2, <1>3 DEF Kept, t

\* What is kept of a prefix is a prefix of what is kept: the rest is from behind it.
LEMMA KeptOfPrefixIsPrefix ==
    ASSUME NEW S, NEW s \in Seq(S), NEW K, NEW d \in 0 .. Len(s)
    PROVE  LET m == Len(Kept(SubSeq(s, 1, d), K))
           IN  /\ m \in 0 .. Len(Kept(s, K))
               /\ Kept(SubSeq(s, 1, d), K) = SubSeq(Kept(s, K), 1, m)
               /\ \A j \in m + 1 .. Len(Kept(s, K)) :
                     \E i \in d + 1 .. Len(s) : Kept(s, K)[j] = s[i]
<1> DEFINE F == KeptPrefixes(s, K)
           m == Len(F[d])
           P(k) == /\ m <= Len(F[d + k])
                   /\ SubSeq(F[d + k], 1, m) = F[d]
                   /\ \A j \in m + 1 .. Len(F[d + k]) :
                         \E i \in d + 1 .. d + k : F[d + k][j] = s[i]
           T == {k \in Nat : d + k <= Len(s) => P(k)}
<1>1. \A k \in 1 .. Len(s) :
         F[k] = IF s[k] \in K THEN Append(F[k - 1], s[k]) ELSE F[k - 1]
  BY KeptPrefixesStep
<1>2. \A k \in 0 .. Len(s) : F[k] \in Seq(S)
  BY KeptPrefixesSelect
<1> HIDE DEF F
<1>3. m \in Nat /\ Len(s) \in Nat
  BY <1>2
<1>4. 0 \in T
  <2>1. SubSeq(F[d], 1, m) = F[d]
    BY <1>2
  <2>2. P(0)
    BY <1>3, <2>1
  <2> HIDE DEF P
  <2> QED
    BY <2>2
<1>5. ASSUME NEW k \in Nat, k \in T PROVE k + 1 \in T
  <2>1. SUFFICES ASSUME d + (k + 1) <= Len(s) PROVE P(k + 1)
    OBVIOUS
  <2>2. PICK n \in 1 .. Len(s) : n = d + k + 1 /\ n - 1 = d + k /\ n = d + (k + 1)
    BY <2>1
  <2>3. /\ m <= Len(F[n - 1]) /\ SubSeq(F[n - 1], 1, m) = F[d]
        /\ \A j \in m + 1 .. Len(F[n - 1]) : \E i \in d + 1 .. d + k : F[n - 1][j] = s[i]
    BY <1>5, <2>1, <2>2
  <2>4. F[n] = IF s[n] \in K THEN Append(F[n - 1], s[n]) ELSE F[n - 1]
    BY <1>1
  <2>5. F[n - 1] \in Seq(S) /\ s[n] \in S
    BY <1>2
  <2>6. CASE s[n] \notin K
    <3>1. \A i \in d + 1 .. d + k : i \in d + 1 .. n
      BY <2>2
    <3>2. F[n] = F[n - 1]
      BY <2>4, <2>6
    <3>3. \A j \in m + 1 .. Len(F[n]) : \E i \in d + 1 .. n : F[n][j] = s[i]
      BY <2>3, <3>1, <3>2
    <3> QED
      BY <2>2, <2>3, <3>2, <3>3
  <2>7. CASE s[n] \in K
    <3> DEFINE t == Append(F[n - 1], s[n])
    <3>1. /\ Len(t) = Len(F[n - 1]) + 1 /\ t[Len(t)] = s[n] /\ t \in Seq(S)
          /\ \A j \in 1 .. Len(F[n - 1]) : t[j] = F[n - 1][j]
      BY <2>5
    <3>2. SubSeq(t, 1, m) = SubSeq(F[n - 1], 1, m)
      BY <1>3, <2>3, <2>5
    <3>3. F[n] = t
      BY <2>4, <2>7
    <3> HIDE DEF t
    <3>4. ASSUME NEW j \in m + 1 .. Len(t) PROVE \E i \in d + 1 .. n : t[j] = s[i]
      <4>1. CASE j = Len(t)
        BY <2>2, <3>1, <4>1
      <4>2. CASE j # Len(t)
        <5>1. j \in m + 1 .. Len(F[n - 1]) /\ t[j] = F[n - 1][j]
          BY <1>3, <2>5, <3>1, <4>2
        <5>2. PICK i \in d + 1 .. d + k : F[n - 1][j] = s[i]
          BY <2>3, <5>1
        <5> QED
          BY <2>2, <5>1, <5>2
      <4> QED
        BY <4>1, <4>2
    <3>5. m <= Len(t) /\ SubSeq(t, 1, m) = F[d]
      BY <1>3, <2>3, <2>5, <3>1, <3>2
    <3> QED
      BY <2>2, <3>3, <3>4, <3>5
  <2> QED
    BY <2>6, <2>7
<1>6. T = Nat
  <2>1. T \in SUBSET Nat
    OBVIOUS
  <2> HIDE DEF T
  <2> QED
    BY <1>4, <1>5, <2>1, SetInduction
<1>7. PICK k \in Nat : d + k = Len(s)
  BY <1>3
<1>8. P(k)
  <2>1. d + k <= Len(s)
    BY <1>3, <1>7
  <2>2. k \in T
    BY <1>6
  <2> HIDE DEF P
  <2> QED
    BY <2>1, <2>2
<1>9. Kept(SubSeq(s, 1, d), K) = F[d] /\ Kept(s, K) = F[d + k]
  BY <1>7, KeptOfPrefix DEF Kept, F
<1> QED
  BY <1>2, <1>3, <1>7, <1>8, <1>9

-----------------------------------------------------------------------------
(* Least and greatest, and how often something occurs in a sequence.       *)

\* The least of a set of numbers is the least.
LEMMA MinOfSet ==
    ASSUME NEW S, S \subseteq Nat, S # {}
    PROVE  Min(S) \in S /\ \A m \in S : Min(S) <= m
<1>1. \E n \in S : \A m \in S : n <= m
  BY LeastOfSet
<1> QED
  BY <1>1 DEF Min

\* A set of numbers that is bounded has a greatest one.
LEMMA MaxOfSet ==
    ASSUME NEW S, S \subseteq Nat, S # {}, NEW b \in Nat, \A m \in S : m <= b
    PROVE  Max(S) \in S /\ \A m \in S : m <= Max(S)
<1> DEFINE D == {d \in Nat : b - d \in S}
<1>1. D \subseteq Nat /\ D # {}
  <2>1. PICK m \in S : TRUE
    OBVIOUS
  <2>2. b - m \in Nat /\ b - (b - m) = m
    BY <2>1
  <2> QED
    BY <2>1, <2>2
<1>2. PICK d \in D : \A e \in D : d <= e
  BY <1>1, LeastOfSet
<1>3. b - d \in S /\ d \in Nat
  OBVIOUS
<1>4. ASSUME NEW m \in S PROVE m <= b - d
  <2>1. b - m \in Nat /\ b - (b - m) = m
    OBVIOUS
  <2>2. b - m \in D
    BY <2>1
  <2> QED
    BY <1>2, <1>3, <2>1, <2>2
<1> QED
  BY <1>3, <1>4 DEF Max

\* How often elements of K occur in the sequence.
PlacesOf(s, K) == {i \in DOMAIN s : s[i] \in K}
Occurrences(s, K) == Cardinality(PlacesOf(s, K))

\* They can be counted, and there are none only where there is none.
LEMMA OccurrencesType ==
    ASSUME NEW S, NEW s \in Seq(S), NEW K
    PROVE  /\ IsFiniteSet(PlacesOf(s, K))
           /\ Occurrences(s, K) \in Nat
           /\ Occurrences(s, K) = 0 <=> \A i \in 1 .. Len(s) : s[i] \notin K
<1> DEFINE I == PlacesOf(s, K)
<1>1. IsFiniteSet(1 .. Len(s)) /\ I \in SUBSET (1 .. Len(s)) /\ DOMAIN s = 1 .. Len(s)
  BY FS_Interval DEF PlacesOf
<1>2. IsFiniteSet(I)
  BY <1>1, FS_Subset
<1>3. Cardinality(I) \in Nat /\ (Cardinality(I) = 0 <=> I = {})
  BY <1>2, FS_CardinalityType, FS_EmptySet
<1> QED
  BY <1>1, <1>2, <1>3 DEF Occurrences, PlacesOf

\* Nothing occurs in the empty sequence.
LEMMA OccurrencesOfEmpty ==
    ASSUME NEW K
    PROVE  Occurrences(<<>>, K) = 0
<1>1. PlacesOf(<<>>, K) = {}
  BY DEF PlacesOf
<1> QED
  BY <1>1, FS_EmptySet DEF Occurrences

\* What is appended occurs once more.
LEMMA OccurrencesOfAppend ==
    ASSUME NEW S, NEW s \in Seq(S), NEW x \in S, NEW K
    PROVE  Occurrences(Append(s, x), K) = Occurrences(s, K) + (IF x \in K THEN 1 ELSE 0)
<1> DEFINE I == PlacesOf(s, K)
           t == Append(s, x)
           J == PlacesOf(t, K)
           n == Len(s) + 1
<1>1. IsFiniteSet(I) /\ Cardinality(I) \in Nat
  BY OccurrencesType DEF Occurrences
<1>2. DOMAIN s = 1 .. Len(s) /\ DOMAIN t = 1 .. n /\ t[n] = x
      /\ \A i \in 1 .. Len(s) : t[i] = s[i]
  OBVIOUS
<1>3. n \notin I
  BY <1>2 DEF PlacesOf
<1>4. J = IF x \in K THEN I \cup {n} ELSE I
  BY <1>2 DEF PlacesOf
<1> HIDE DEF I, J, n
<1>5. Cardinality(I \cup {n}) = Cardinality(I) + 1
  BY <1>1, <1>3, FS_AddElement
<1>6. Cardinality(J) = Cardinality(I) + (IF x \in K THEN 1 ELSE 0)
  BY <1>1, <1>4, <1>5
<1> QED
  BY <1>6 DEF Occurrences, I, J

\* RemoveFirst takes one occurrence away, if there is one.
LEMMA RemoveFirstType ==
    ASSUME NEW S, NEW s \in Seq(S), NEW x
    PROVE  /\ RemoveFirst(s, x) \in Seq(S)
           /\ (\A i \in 1 .. Len(s) : s[i] # x) => RemoveFirst(s, x) = s
           /\ \A j \in 1 .. Len(s) : s[j] = x =>
                 \E k \in 1 .. Len(s) :
                     /\ s[k] = x
                     /\ Len(RemoveFirst(s, x)) = Len(s) - 1
                     /\ \A i \in 1 .. Len(s) - 1 :
                           RemoveFirst(s, x)[i] = IF i < k THEN s[i] ELSE s[i + 1]
<1>1. CASE \A i \in 1 .. Len(s) : s[i] # x
  BY <1>1 DEF RemoveFirst
<1>2. CASE \E j \in 1 .. Len(s) : s[j] = x
  <2> DEFINE I == {i \in 1 .. Len(s) : s[i] = x}
             k == Min(I)
  <2>1. I # {} /\ I \subseteq Nat
    BY <1>2
  <2>2. k \in 1 .. Len(s) /\ s[k] = x
    BY <2>1, MinOfSet
  <2>3. RemoveFirst(s, x) = RemoveAt(s, k)
    BY <1>2, <2>1, Zenon DEF RemoveFirst, SelectInSeq
  <2> HIDE DEF k, I
  <2> DEFINE a == SubSeq(s, 1, k - 1)
             b == SubSeq(s, k + 1, Len(s))
  <2>4. a \in Seq(S) /\ Len(a) = k - 1 /\ \A i \in 1 .. k - 1 : a[i] = s[i]
    BY <2>2
  <2>5. b \in Seq(S) /\ Len(b) = Len(s) - k /\ \A i \in 1 .. Len(s) - k : b[i] = s[k + i]
    BY <2>2
  <2>6. RemoveFirst(s, x) = a \o b
    BY <2>3 DEF RemoveAt
  <2> HIDE DEF a, b
  <2> DEFINE t == a \o b
  <2>7. t \in Seq(S) /\ Len(t) = Len(s) - 1
        /\ \A i \in 1 .. Len(s) - 1 : t[i] = IF i <= k - 1 THEN a[i] ELSE b[i - (k - 1)]
    <3>1. t \in Seq(S) /\ Len(t) = Len(a) + Len(b)
      BY <2>4, <2>5
    <3>2. \A i \in 1 .. Len(a) + Len(b) : t[i] = IF i <= Len(a) THEN a[i] ELSE b[i - Len(a)]
      BY <2>4, <2>5
    <3>3. Len(a) + Len(b) = Len(s) - 1 /\ Len(a) = k - 1
      BY <2>2, <2>4, <2>5
    <3> QED
      BY <3>1, <3>2, <3>3
  <2>8. ASSUME NEW i \in 1 .. Len(s) - 1
        PROVE  t[i] = IF i < k THEN s[i] ELSE s[i + 1]
    <3>1. CASE i < k
      BY <2>2, <2>4, <2>7, <3>1
    <3>2. CASE ~(i < k)
      <4>1. i - (k - 1) \in 1 .. Len(s) - k /\ k + (i - (k - 1)) = i + 1 /\ ~(i <= k - 1)
        BY <2>2, <3>2
      <4> QED
        BY <2>5, <2>7, <3>2, <4>1
    <3> QED
      BY <3>1, <3>2
  <2> HIDE DEF t
  <2> QED
    BY <1>2, <2>2, <2>6, <2>7, <2>8 DEF t
<1> QED
  BY <1>1, <1>2

\* What is removed once occurs once less.
LEMMA OccurrencesOfRemoveFirst ==
    ASSUME NEW S, NEW s \in Seq(S), NEW x, NEW K
    PROVE  Occurrences(RemoveFirst(s, x), K) =
               Occurrences(s, K)
                   - (IF x \in K /\ \E i \in 1 .. Len(s) : s[i] = x THEN 1 ELSE 0)
<1>1. CASE \A i \in 1 .. Len(s) : s[i] # x
  <2>1. RemoveFirst(s, x) = s
    BY <1>1, RemoveFirstType
  <2>2. Occurrences(s, K) \in Nat
    BY OccurrencesType
  <2> QED
    BY <1>1, <2>1, <2>2
<1>2. CASE \E i \in 1 .. Len(s) : s[i] = x
  <2> DEFINE t == RemoveFirst(s, x)
             I == PlacesOf(s, K)
             J == PlacesOf(t, K)
  <2>1. PICK k \in 1 .. Len(s) :
             /\ s[k] = x
             /\ Len(t) = Len(s) - 1
             /\ \A i \in 1 .. Len(s) - 1 : t[i] = IF i < k THEN s[i] ELSE s[i + 1]
    BY <1>2, RemoveFirstType
  <2>2. t \in Seq(S)
    BY RemoveFirstType
  <2>3. IsFiniteSet(I) /\ Cardinality(I) \in Nat /\ IsFiniteSet(J)
    BY <2>2, OccurrencesType DEF Occurrences
  <2>4. DOMAIN s = 1 .. Len(s) /\ DOMAIN t = 1 .. Len(s) - 1 /\ Len(s) \in Nat
    BY <2>1, <2>2
  <2> HIDE DEF t
  <2> DEFINE f == [i \in J |-> IF i < k THEN i ELSE i + 1]
  <2>5. ASSUME NEW i \in J PROVE f[i] \in I \ {k}
    <3>1. i \in 1 .. Len(s) - 1 /\ t[i] \in K
      BY <2>4 DEF PlacesOf
    <3>2. CASE i < k
      BY <2>1, <2>4, <3>1, <3>2 DEF PlacesOf
    <3>3. CASE ~(i < k)
      BY <2>1, <2>4, <3>1, <3>3 DEF PlacesOf
    <3> QED
      BY <3>2, <3>3
  <2>6. f \in [J -> I \ {k}]
    BY <2>5
  <2>7. \A i, j \in J : f[i] = f[j] => i = j
    BY <2>4 DEF PlacesOf
  <2>8. ASSUME NEW j \in I \ {k} PROVE \E i \in J : f[i] = j
    <3>1. j \in 1 .. Len(s) /\ s[j] \in K /\ j # k
      BY <2>4 DEF PlacesOf
    <3>2. CASE j < k
      <4>1. j \in 1 .. Len(s) - 1 /\ t[j] = s[j]
        BY <2>1, <3>1, <3>2
      <4>2. j \in J /\ f[j] = j
        BY <2>4, <3>1, <3>2, <4>1 DEF PlacesOf
      <4> QED
        BY <4>2
    <3>3. CASE j > k
      <4>1. j - 1 \in 1 .. Len(s) - 1 /\ ~(j - 1 < k) /\ (j - 1) + 1 = j
        BY <3>1, <3>3
      <4>2. t[j - 1] = s[j]
        BY <2>1, <4>1
      <4>3. j - 1 \in J /\ f[j - 1] = j
        BY <2>4, <3>1, <4>1, <4>2 DEF PlacesOf
      <4> QED
        BY <4>3
    <3> QED
      BY <3>1, <3>2, <3>3
  <2> HIDE DEF I, J
  <2>9. f \in Bijection(J, I \ {k})
    BY <2>6, <2>7, <2>8, Zenon DEF Bijection, Injection, Surjection, IsInjective
  <2>10. Cardinality(I \ {k}) = Cardinality(J)
    BY <2>3, <2>9, FS_Bijection DEF ExistsBijection
  <2>11. k \in I <=> x \in K
    BY <2>1, <2>4 DEF I, PlacesOf
  <2>12. Cardinality(I \ {k}) = IF x \in K THEN Cardinality(I) - 1 ELSE Cardinality(I)
    BY <2>3, <2>11, FS_RemoveElement
  <2>13. Cardinality(J) = Cardinality(I) - (IF x \in K THEN 1 ELSE 0)
    BY <2>3, <2>10, <2>12
  <2> QED
    BY <1>2, <2>13 DEF Occurrences, I, J, t
<1> QED
  BY <1>1, <1>2

\* What is kept has the occurrences of what is in the set.
LEMMA OccurrencesOfKept ==
    ASSUME NEW S, NEW s \in Seq(S), NEW K, NEW C
    PROVE  Occurrences(Kept(s, K), C) = Occurrences(s, C \cap K)
<1> DEFINE I == C \cap K
           F == KeptPrefixes(s, K)
           T == {n \in Nat : n <= Len(s) =>
                    Occurrences(F[n], C) = Occurrences(SubSeq(s, 1, n), I)}
<1>1. /\ F[0] = <<>>
      /\ \A n \in 1 .. Len(s) :
            F[n] = IF s[n] \in K THEN Append(F[n - 1], s[n]) ELSE F[n - 1]
  BY KeptPrefixesStep
<1>2. \A n \in 0 .. Len(s) : F[n] \in Seq(S)
  BY KeptPrefixesSelect
<1>i. \A x : x \in I <=> x \in C /\ x \in K
  OBVIOUS
<1> HIDE DEF F, I
<1>3. 0 \in T
  <2>1. SubSeq(s, 1, 0) = <<>>
    OBVIOUS
  <2> QED
    BY <1>1, <2>1, OccurrencesOfEmpty
<1>4. ASSUME NEW n \in Nat, n \in T PROVE n + 1 \in T
  <2>1. SUFFICES ASSUME n + 1 <= Len(s)
                 PROVE  Occurrences(F[n + 1], C) = Occurrences(SubSeq(s, 1, n + 1), I)
    OBVIOUS
  <2> DEFINE x == s[n + 1]
             p == SubSeq(s, 1, n)
  <2>2. n + 1 \in 1 .. Len(s) /\ (n + 1) - 1 = n /\ n \in 0 .. Len(s) /\ n <= Len(s)
    BY <2>1
  <2>3. F[n + 1] = IF x \in K THEN Append(F[n], x) ELSE F[n]
    BY <1>1, <2>2
  <2>4. x \in S /\ p \in Seq(S) /\ SubSeq(s, 1, n + 1) = Append(p, x)
    BY <2>1
  <2>5. Occurrences(F[n], C) = Occurrences(p, I)
    BY <1>4, <2>2
  <2>6. F[n] \in Seq(S)
    BY <1>2, <2>2
  <2> HIDE DEF x, p
  <2>7. Occurrences(Append(p, x), I)
            = Occurrences(p, I) + (IF x \in I THEN 1 ELSE 0)
    BY <2>4, OccurrencesOfAppend
  <2>8. Occurrences(Append(F[n], x), C) = Occurrences(F[n], C) + (IF x \in C THEN 1 ELSE 0)
    BY <2>4, <2>6, OccurrencesOfAppend
  <2>9. Occurrences(p, I) \in Nat
    BY <2>4, OccurrencesType
  <2>10. x \in I <=> x \in C /\ x \in K
    BY <1>i
  <2>11. CASE x \in K
    BY <2>3, <2>4, <2>5, <2>7, <2>8, <2>10, <2>11
  <2>12. CASE x \notin K
    <3>1. Occurrences(Append(p, x), I) = Occurrences(p, I)
      BY <2>7, <2>9, <2>10, <2>12
    <3>2. F[n + 1] = F[n]
      BY <2>3, <2>12
    <3> QED
      BY <2>4, <2>5, <3>1, <3>2
  <2> QED
    BY <2>11, <2>12
<1>5. T = Nat
  <2>1. T \in SUBSET Nat
    OBVIOUS
  <2> HIDE DEF T
  <2> QED
    BY <1>3, <1>4, <2>1, SetInduction
<1>6. Occurrences(F[Len(s)], C) = Occurrences(SubSeq(s, 1, Len(s)), I)
  <2>1. Len(s) \in T /\ Len(s) <= Len(s)
    BY <1>5
  <2> QED
    BY <2>1
<1>7. SubSeq(s, 1, Len(s)) = s
  OBVIOUS
<1> QED
  BY <1>6, <1>7 DEF Kept, F, I

\* What is kept of a sequence when nothing is dropped: all of it.
LEMMA KeptWhole ==
    ASSUME NEW S, NEW s \in Seq(S), NEW K, S \subseteq K
    PROVE  Kept(s, K) = s
<1> DEFINE F == KeptPrefixes(s, K)
           T == {n \in Nat : n <= Len(s) => F[n] = SubSeq(s, 1, n)}
<1>1. /\ F[0] = <<>>
      /\ \A n \in 1 .. Len(s) :
            F[n] = IF s[n] \in K THEN Append(F[n - 1], s[n]) ELSE F[n - 1]
  BY KeptPrefixesStep
<1> HIDE DEF F
<1>2. 0 \in T
  <2>1. SubSeq(s, 1, 0) = <<>>
    OBVIOUS
  <2> QED
    BY <1>1, <2>1
<1>3. ASSUME NEW n \in Nat, n \in T PROVE n + 1 \in T
  <2>1. SUFFICES ASSUME n + 1 <= Len(s)
                 PROVE  F[n + 1] = SubSeq(s, 1, n + 1)
    OBVIOUS
  <2>2. n + 1 \in 1 .. Len(s) /\ (n + 1) - 1 = n /\ n <= Len(s) /\ s[n + 1] \in K
    BY <2>1
  <2>3. F[n + 1] = Append(F[n], s[n + 1]) /\ F[n] = SubSeq(s, 1, n)
    BY <1>1, <1>3, <2>2
  <2>4. SubSeq(s, 1, n + 1) = Append(SubSeq(s, 1, n), s[n + 1])
    BY <2>2
  <2> QED
    BY <2>3, <2>4
<1>4. T = Nat
  <2>1. T \in SUBSET Nat
    OBVIOUS
  <2> HIDE DEF T
  <2> QED
    BY <1>2, <1>3, <2>1, SetInduction
<1>5. F[Len(s)] = SubSeq(s, 1, Len(s))
  <2>1. Len(s) \in T /\ Len(s) <= Len(s)
    BY <1>4
  <2> QED
    BY <2>1
<1>6. SubSeq(s, 1, Len(s)) = s
  OBVIOUS
<1> QED
  BY <1>5, <1>6 DEF Kept, F

=============================================================================
